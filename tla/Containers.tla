------------------------------ MODULE Containers ------------------------------
(***************************************************************************)
(* The containers of adt/ under every sequence of their operations: the    *)
(* red-black tree (Dict), the doubly linked lists with a node pool (List)  *)
(* and the extendible hash table with its scanner (Hash).  kind names the  *)
(* container a behaviour is about, store is its representation and model   *)
(* the abstract value it stands for: a sequence of nodes, a pair of        *)
(* sequences, a set of nodes with those a scan has returned.               *)
(***************************************************************************)
EXTENDS Integers, Sequences, FiniteSets, SequencesExt, FiniteSetsExt

CONSTANTS DictNodes, KeyOf, ListNodes, DataOf, HashNodes, HashOf, INIT_BITS,
          MaxScan,    \* nodes in a hash table when a scan of it begins
          MaxMerge    \* nodes of a dictionary that is merged into another

D == INSTANCE Dict
L == INSTANCE List
H == INSTANCE Hash

VARIABLES kind, store, model

containersvars == <<kind, store, model>>

Become(newStore, newModel) == store' = newStore /\ model' = newModel /\ UNCHANGED kind
-----------------------------------------------------------------------------
(* The dictionary.  model: the nodes in order, equal keys oldest first. *)

DictKeys == {KeyOf[n] : n \in DictNodes}
KeyLess(m, n) == KeyOf[m] < KeyOf[n] \/ (KeyOf[m] = KeyOf[n] /\ m < n)
InOrder == SetToSortSeq(DictNodes, KeyLess)
KeysInOrder == SetToSortSeq(DictKeys, <)
Sorted(nodes) == SelectSeq(InOrder, LAMBDA n : n \in nodes)
HavingKey(seq, k) == SelectSeq(seq, LAMBDA n : KeyOf[n] = k)
Unused == DictNodes \ ToSet(model)

(* Without duplicates two nodes of one key may not meet. *)
Admissible(nodes) == store.dupes \/ Cardinality({KeyOf[n] : n \in nodes}) = Cardinality(nodes)

DictInsert ==
    \E n \in Unused :
        /\ Admissible(ToSet(model) \cup {n})
        /\ Become(D!dict_insert(store, n),
                  SelectSeq(model, LAMBDA m : KeyOf[m] <= KeyOf[n]) \o <<n>>
                  \o SelectSeq(model, LAMBDA m : KeyOf[m] > KeyOf[n]))

DictDelete ==
    \E i \in DOMAIN model : Become(D!dict_delete(store, model[i]), RemoveAt(model, i))

DictLoad ==
    \E nodes \in SUBSET DictNodes :
        /\ model = <<>> /\ Admissible(nodes)
        /\ Become(D!dict_load(store, Sorted(nodes)), Sorted(nodes))

(* With a second dictionary of the same kind, that was loaded. *)
DictMerge ==
    \E nodes \in SUBSET Unused :
        /\ Cardinality(nodes) \in 1 .. MaxMerge /\ Admissible(ToSet(model) \cup nodes)
        /\ LET sorted == Sorted(nodes)
               ofKey(k) == HavingKey(sorted, k) \o HavingKey(model, k)
           IN  Become(D!dict_merge(store, D!dict_load(D!dict_create(store.dupes), sorted)),
                      FlattenSeq([i \in DOMAIN KeysInOrder |-> ofKey(KeysInOrder[i])]))

DictFree == model # <<>> /\ Become(D!dict_free_nodes(store), <<>>)

DictNext == kind = "dict" /\ (DictInsert \/ DictDelete \/ DictLoad \/ DictMerge \/ DictFree)
-----------------------------------------------------------------------------
(* Two lists that share a pool.  model: the nodes of each, in order. *)

FreeNodes == ListNodes \ (ToSet(model[1]) \cup ToSet(model[2]))
Data(l) == [i \in DOMAIN model[l] |-> DataOf[model[l][i]]]
Ascending(seq) == \A i \in 1 .. Len(seq) - 1 : seq[i] <= seq[i + 1]

(* The merge of two sorted lists: the nodes of sour that are not greater   *)
(* than a node of dest go before it.                                       *)
MergedInto(dest, sour) ==
    FlattenSeq([i \in DOMAIN dest |->
                  SelectSeq(sour, LAMBDA n : /\ DataOf[n] <= DataOf[dest[i]]
                                             /\ \A j \in 1 .. i - 1 : DataOf[n] > DataOf[dest[j]])
                  \o <<dest[i]>>])
    \o SelectSeq(sour, LAMBDA n : \A j \in DOMAIN dest : DataOf[n] > DataOf[dest[j]])

(* lnode_borrow, then one of the insertions. *)
ListInsert ==
    \E l \in L!Lists :
        /\ store.fre # L!NULLNODE
        /\ LET n == store.fre
               h == L!lnode_borrow(store)
           IN  \/ Become(L!list_append(h, l, n), [model EXCEPT ![l] = Append(@, n)])
               \/ Become(L!list_prepend(h, l, n), [model EXCEPT ![l] = <<n>> \o @])
               \/ \E i \in DOMAIN model[l] :
                     \/ Become(L!list_ins_after(h, l, n, model[l][i]),
                               [model EXCEPT ![l] = InsertAt(@, i + 1, n)])
                     \/ Become(L!list_ins_before(h, l, n, model[l][i]),
                               [model EXCEPT ![l] = InsertAt(@, i, n)])

(* A deletion, then lnode_return. *)
ListDelete ==
    \E l \in L!Lists : \E i \in DOMAIN model[l] :
        LET n == model[l][i]
            shorter == [model EXCEPT ![l] = RemoveAt(@, i)]
        IN  \/ Become(L!lnode_return(L!list_delete(store, l, n), n), shorter)
            \/ i = 1 /\ Become(L!lnode_return(L!list_del_first(store, l), n), shorter)
            \/ i = Len(model[l]) /\ Become(L!lnode_return(L!list_del_last(store, l), n), shorter)

ListMove ==
    \E s, d \in L!Lists : \E i, j \in DOMAIN model[s] :
        /\ s # d /\ i <= j
        /\ LET piece == SubSeq(model[s], i, j)
               rest  == SubSeq(model[s], 1, i - 1) \o SubSeq(model[s], j + 1, Len(model[s]))
               moved == [model EXCEPT ![s] = rest, ![d] = @ \o piece]
           IN  \/ Become(L!list_extract(store, d, s, model[s][i], model[s][j]), moved)
               \/ /\ j = Len(model[s])
                  /\ Become(L!list_transfer(store, d, s, model[s][i]), moved)

ListMerge ==
    /\ Ascending(Data(1)) /\ Ascending(Data(2))
    /\ Become(L!list_merge(store, 1, 2),
              [model EXCEPT ![1] = MergedInto(model[1], model[2]), ![2] = <<>>])

(* list_sort is a merge sort that puts the later of equal nodes first. *)
ListSort ==
    \E l \in L!Lists :
        LET h == L!list_sort(store, l)
        IN  Become(h, [model EXCEPT ![l] = L!Contents(h, l)])

ListReturn == \E l \in L!Lists : Become(L!list_return_nodes(store, l), [model EXCEPT ![l] = <<>>])

ListNext == kind = "list" /\ (ListInsert \/ ListDelete \/ ListMove \/ ListMerge \/ ListSort \/ ListReturn)
-----------------------------------------------------------------------------
(* The hash table.  model: the nodes in it, and of a scan under way the    *)
(* scanner, the nodes it has still to return and the last one returned.    *)

NoScan == [next |-> H!HNULL, chain |-> 0]
Scanning == model.on

(* Nodes are inserted lowest number first: a bound on the orders of chains *)
(* that are looked at, which deletions mix up again.                       *)
HashInsert ==
    \E n \in HashNodes \ model.nodes, growOk \in BOOLEAN :
        /\ ~Scanning
        /\ \A m \in HashNodes \ model.nodes : n <= m
        /\ Become(H!hash_insert(store, n, growOk), [model EXCEPT !.nodes = @ \cup {n}])

HashDelete ==
    \E n \in model.nodes :
        /\ ~Scanning
        /\ Become(H!hash_delete(store, n), [model EXCEPT !.nodes = @ \ {n}])

HashFree == ~Scanning /\ Become(H!hash_free_nodes(store), [model EXCEPT !.nodes = {}])

ScanBegin ==
    /\ ~Scanning /\ Cardinality(model.nodes) <= MaxScan
    /\ Become(store, [model EXCEPT !.on = TRUE, !.scan = H!hash_scan_begin(store),
                                   !.left = model.nodes, !.got = H!HNULL])

(* hash_scan_next returns the node that the scanner held. *)
ScanNext ==
    /\ Scanning /\ model.scan.next # H!HNULL
    /\ Become(store, [model EXCEPT !.scan = H!hash_scan_next(store, model.scan),
                                   !.left = @ \ {model.scan.next}, !.got = model.scan.next])

(* The only change allowed during a scan: the node just returned goes. *)
ScanDelete ==
    /\ Scanning /\ model.got \in model.nodes
    /\ Become(H!hash_scan_delete(store, model.got), [model EXCEPT !.nodes = @ \ {model.got}])

ScanEnd ==
    /\ Scanning /\ model.scan.next = H!HNULL
    /\ Become(store, [model EXCEPT !.on = FALSE, !.scan = NoScan, !.left = {}, !.got = H!HNULL])

HashNext ==
    /\ kind = "hash"
    /\ HashInsert \/ HashDelete \/ HashFree \/ ScanBegin \/ ScanNext \/ ScanDelete \/ ScanEnd
-----------------------------------------------------------------------------
ContainersInit ==
    \/ /\ kind = "dict" /\ model = <<>>
       /\ \E dupes \in BOOLEAN : store = D!dict_create(dupes)
    \/ kind = "list" /\ store = L!list_init /\ model = <<<<>>, <<>>>>
    \/ /\ kind = "hash" /\ store = H!hash_create
       /\ model = [nodes |-> {}, on |-> FALSE, scan |-> NoScan, left |-> {}, got |-> H!HNULL]

ContainersNext == DictNext \/ ListNext \/ HashNext
-----------------------------------------------------------------------------
(* Whatever was inserted, deleted, loaded and merged, a dictionary is a    *)
(* red-black tree by its own check (dict.c:380); after all nodes were      *)
(* freed only the stale parent of the sentinel may be wrong.               *)
DictBalanced == kind = "dict" => (model = <<>> \/ D!dict_verify(store))

(* dict_first/dict_next (dict.c:836) and dict_last/dict_prev walk the      *)
(* nodes in key order, equal keys in the order of insertion; a node        *)
(* outside has null links, so that it may be inserted again (dict.c:549).  *)
DictInOrder ==
    kind = "dict" =>
        /\ D!Walk(store, "right", D!dict_first(store)) = model
        /\ D!Walk(store, "left", D!dict_last(store)) = Reverse(model)
        /\ model # <<>> => \A n \in DictNodes : D!dnode_is_in_a_dict(store, n) = (n \in ToSet(model))

(* dict_lookup (dict.c:437) finds the first node of a key, also among      *)
(* duplicates that rotations have spread over both subtrees; the bounds    *)
(* are the first node not below and the last not above.                    *)
DictSearches ==
    kind = "dict" =>
        \A k \in DictKeys :
            LET at    == {i \in DOMAIN model : KeyOf[model[i]] = k}
                above == {i \in DOMAIN model : KeyOf[model[i]] >= k}
                below == {i \in DOMAIN model : KeyOf[model[i]] <= k}
            IN  /\ D!dict_lookup(store, k) = IF at = {} THEN D!NULLNODE ELSE model[Min(at)]
                /\ D!dict_bound(store, "left", k) = IF above = {} THEN D!NULLNODE ELSE model[Min(above)]
                /\ D!dict_bound(store, "right", k) = IF below = {} THEN D!NULLNODE ELSE model[Max(below)]

(* The rings of both lists hold their nodes in both directions             *)
(* (list_verify, list.c:751) and the pool the rest, although pieces move   *)
(* between lists and sorting uses lists on the stack.                      *)
ListsIntact ==
    kind = "list" =>
        /\ \A l \in L!Lists : /\ L!list_verify(store, l)
                              /\ L!Contents(store, l) = model[l]
                              /\ store.count[l] = Len(model[l])
        /\ LET pool == L!NodesFrom(store, store.fre, L!NULLNODE)
           IN  Len(pool) = Cardinality(FreeNodes) /\ ToSet(pool) = FreeNodes

(* list_sort (list.c:522), a recursive merge sort that splits a list into  *)
(* one on the stack, gives the same nodes in ascending order and leaves    *)
(* the other list alone, from every list.                                  *)
SortSorts ==
    kind = "list" =>
        \A l \in L!Lists :
            LET h == L!list_sort(store, l)
                nodes == L!Contents(h, l)
            IN  /\ Ascending([i \in DOMAIN nodes |-> DataOf[nodes[i]]])
                /\ ToSet(nodes) = ToSet(model[l]) /\ Len(nodes) = Len(model[l])
                /\ L!list_verify(h, l) /\ L!Contents(h, 3 - l) = model[3 - l]

(* The table (hash.c:518) holds each node in the chain of its hash through *)
(* growing, failing to grow and shrinking, and finds exactly the nodes     *)
(* that are in it.                                                         *)
HashFindsAll ==
    kind = "hash" =>
        /\ H!hash_verify(store)
        /\ \A n \in HashNodes : H!hash_lookup(store, n) = IF n \in model.nodes THEN n ELSE H!HNULL

(* A scan (hash.c:479) returns every node of the table once, also when     *)
(* returned nodes are deleted before the next one is asked for.            *)
ScanReturnsEach ==
    kind = "hash" /\ Scanning =>
        /\ model.scan.next = H!HNULL => model.left = {}
        /\ model.scan.next # H!HNULL => model.scan.next \in model.left

(***************************************************************************)
(* adt/dict.c, list.c, hash.c: after any sequence of calls the             *)
(* representation is sound (red-black balance, rings in both directions,   *)
(* chains that match the hash), holds the abstract value in its order, and *)
(* searches, bounds, sorts and scans answer what that value answers.       *)
(***************************************************************************)
ContainersFaithful ==
    /\ DictBalanced /\ DictInOrder /\ DictSearches
    /\ ListsIntact /\ SortSorts
    /\ HashFindsAll /\ ScanReturnsEach
=============================================================================
