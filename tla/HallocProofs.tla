----------------------------- MODULE HallocProofs -----------------------------
(***************************************************************************)
(* Proofs about the hierarchical allocator (Halloc), for any number of     *)
(* addresses.                                                              *)
(*                                                                         *)
(* The invariant says of every pointer what it points to, and that there   *)
(* is an order in which the lists go on and one in which families go down. *)
(* Nothing is said of whole lists: that a walk meets the children of a     *)
(* block, all of them, follows from the pointers and the orders.           *)
(***************************************************************************)
EXTENDS Halloc, WellFoundedInduction, TLAPS

-----------------------------------------------------------------------------
(* The invariant, of cells c and parents q. *)
On(c) == [cells |-> c, wild |-> FALSE]

Live(c, a) == a \in Addrs /\ c[a] # NULL

Typed(c, q) == c \in [Addrs -> Headers \cup {NULL}] /\ q \in [Addrs -> 0..MaxAddr]

(* A block with a parent: its next is a child of the same parent, and points back. *)
HasNext(c, q, a) == c[a] # NULL /\ q[a] # 0 /\ c[a].next # 0

Nexts(c, q) ==
    \A a \in Addrs : HasNext(c, q, a) =>
        Live(c, c[a].next) /\ c[c[a].next].prev = NextOf(a) /\ q[c[a].next] = q[a]

(* A block without parent is alone: halloc(ptr, len) makes it its own next where it stays. *)
Roots(c, q) ==
    \A a \in Addrs : c[a] # NULL /\ q[a] = 0 => c[a].prev = NextOf(a) /\ c[a].next \in {0, a}

(* The eldest child. *)
Firsts(c, q) ==
    \A a \in Addrs : c[a] # NULL /\ c[a].children # 0 =>
        /\ Live(c, c[a].children) /\ c[c[a].children].prev = ChildrenOf(a)
        /\ q[c[a].children] = a

IsFirst(c, q, a) == c[a].prev = ChildrenOf(q[a]) /\ c[q[a]].children = a

Follows(c, a) == \E e \in Addrs : c[e] # NULL /\ c[a].prev = NextOf(e) /\ c[e].next = a

(* A block with a parent is its eldest child or the next of another one. *)
Prevs(c, q) ==
    \A a \in Addrs : c[a] # NULL /\ q[a] # 0 =>
        Live(c, q[a]) /\ (IsFirst(c, q, a) \/ Follows(c, a))

(* The orders. *)
Upwards(c, q, r) == \A a \in Addrs : HasNext(c, q, a) => r[a] < r[c[a].next]
Downwards(c, q, r) == \A a \in Addrs : HasNext(c, q, a) => r[c[a].next] < r[a]
Deeper(c, q, d) == \A a \in Addrs : c[a] # NULL /\ q[a] # 0 => d[q[a]] < d[a]

Ranks == [Addrs -> Nat]
Begins(c, q) == \E r \in Ranks : Upwards(c, q, r)
Ends(c, q) == \E r \in Ranks : Downwards(c, q, r)
Deep(c, q) == \E d \in Ranks : Deeper(c, q, d)

Families(c, q) ==
    /\ Typed(c, q) /\ Nexts(c, q) /\ Firsts(c, q) /\ Prevs(c, q) /\ Roots(c, q)
    /\ Begins(c, q) /\ Ends(c, q) /\ Deep(c, q)

Inv ==
    /\ ~alone => ~strayed /\ Families(cells, parentOf)
    /\ FreedWithFamily

-----------------------------------------------------------------------------
(* Two cells are the same when they are the same cell of the same block. *)
LEMMA CellsApart ==
    /\ \A a, b : NextOf(a) = NextOf(b) => a = b
    /\ \A a, b : ChildrenOf(a) = ChildrenOf(b) => a = b
    /\ \A a, b : NextOf(a) # ChildrenOf(b)
    /\ \A a \in Addrs : NextOf(a) \in Refs /\ ChildrenOf(a) \in Refs
    /\ \A a : NextOf(a).cell = "next" /\ NextOf(a).of = a
    /\ \A a : ChildrenOf(a).cell = "children" /\ ChildrenOf(a).of = a
BY DEF NextOf, ChildrenOf, Refs

(* A pointer to a cell is one of the two. *)
LEMMA RefIs ==
    ASSUME NEW ref \in Refs
    PROVE  /\ ref.of \in Addrs
           /\ ref = NextOf(ref.of) \/ ref = ChildrenOf(ref.of)
BY DEF NextOf, ChildrenOf, Refs

(* A header is none of the null values, and its fields are pointers. *)
LEMMA HeaderFacts ==
    ASSUME NEW c, NEW q, Typed(c, q), NEW a \in Addrs, c[a] # NULL
    PROVE  /\ c[a] \in Headers
           /\ c[a].next \in 0..MaxAddr /\ c[a].children \in 0..MaxAddr /\ c[a].prev \in Refs
           /\ c[a] = [next |-> c[a].next, prev |-> c[a].prev, children |-> c[a].children]
<1>1. c[a] \in Headers
  BY DEF Typed
<1> QED
  BY <1>1 DEF Headers

(* Pointers that are not the sentinel. *)
LEMMA AddrIs == \A v \in 0..MaxAddr : v # 0 => v \in Addrs
BY HallocAssumption DEF Addrs

-----------------------------------------------------------------------------
(* What is reached. *)

(* It is never left. *)
LEMMA ReachedStays ==
    ASSUME NEW c, NEW q, Typed(c, q), NEW item \in 0..MaxAddr, NEW links \in SUBSET {"next", "children"}
    PROVE  /\ Reached(On(c), item, links) \in SUBSET Addrs
           /\ Stays(On(c), item, links, Reached(On(c), item, links))
<1> DEFINE R == Reached(On(c), item, links)
<1>1. R \in SUBSET Addrs
  BY DEF Reached
<1>2. item \in R \cup {0}
  <2>1. CASE item = 0
    BY <2>1
  <2>2. CASE item # 0
    <3>1. item \in Addrs
      BY <2>2, AddrIs
    <3>2. \A S \in SUBSET Addrs : Stays(On(c), item, links, S) => item \in S
      BY <2>2 DEF Stays
    <3> QED
      BY <3>1, <3>2 DEF Reached
  <2> QED
    BY <2>1, <2>2
<1>3. ASSUME NEW x \in R, c[x] # NULL, NEW l \in links
      PROVE  c[x][l] \in R \cup {0}
  <2>1. x \in Addrs
    BY DEF Reached
  <2>2. c[x][l] \in 0..MaxAddr
    BY <1>3, <2>1, HeaderFacts
  <2>3. CASE c[x][l] = 0
    BY <2>3
  <2>4. CASE c[x][l] # 0
    <3>1. c[x][l] \in Addrs
      BY <2>2, <2>4, AddrIs
    <3>2. ASSUME NEW S \in SUBSET Addrs, Stays(On(c), item, links, S)
          PROVE  c[x][l] \in S
      <4>1. x \in S
        BY <3>2 DEF Reached
      <4>2. On(c).cells = c
        BY DEF On
      <4> QED
        BY <1>3, <2>4, <3>2, <4>1, <4>2 DEF Stays
    <3> QED
      BY <3>1, <3>2 DEF Reached
  <2> QED
    BY <2>3, <2>4
<1>4. On(c).cells = c
  BY DEF On
<1> QED
  BY <1>1, <1>2, <1>3, <1>4 DEF Stays

(* And it is the least of such sets. *)
LEMMA ReachedLeast ==
    ASSUME NEW w, NEW item, NEW links, NEW S \in SUBSET Addrs, Stays(w, item, links, S)
    PROVE  Reached(w, item, links) \subseteq S
BY DEF Reached

(* Stays, for the cells of a world. *)
LEMMA StaysOn ==
    ASSUME NEW c, NEW item, NEW links, NEW S
    PROVE  Stays(On(c), item, links, S) <=>
             /\ item \in S \cup {0}
             /\ \A x \in S : c[x] # NULL => \A l \in links : c[x][l] \in S \cup {0}
BY DEF Stays, On

(* A set of numbers that is not empty has a least one. *)
LEMMA LeastNumber ==
    ASSUME NEW T, T \subseteq Nat, T # {}
    PROVE  \E x \in T : x \in Nat /\ \A y \in T : x <= y
<1> DEFINE R == OpToRel(<, Nat)
<1>1. IsWellFoundedOn(R, Nat)
  BY NatLessThanWellFounded
<1>2. \A x, y \in Nat : y < x => <<y, x>> \in R
  BY DEF OpToRel
<1> HIDE DEF R
<1>3. PICK x \in T : \A y \in T : ~ (<<y, x>> \in R)
  BY <1>1, WFMin
<1>4. x \in Nat
  OBVIOUS
<1>5. ASSUME NEW y \in T
      PROVE  x <= y
  <2>1. y \in Nat /\ ~(<<y, x>> \in R)
    BY <1>3
  <2>2. ~(y < x)
    BY <1>2, <1>4, <2>1
  <2> QED
    BY <1>4, <2>1, <2>2
<1> QED
  BY <1>4, <1>5

(* A set of blocks that is not empty has one with the least rank. *)
LEMMA LeastRanked ==
    ASSUME NEW r \in Ranks, NEW S \in SUBSET Addrs, S # {}
    PROVE  \E x \in S : \A y \in S : r[x] <= r[y]
<1> DEFINE T == {r[x] : x \in S}
<1>1. T \subseteq Nat /\ T # {}
  BY DEF Ranks
<1>2. PICK n \in T : n \in Nat /\ \A m \in T : n <= m
  <2> HIDE DEF T
  <2> QED
    BY <1>1, LeastNumber
<1>3. PICK x \in S : n = r[x]
  BY <1>2
<1> QED
  BY <1>2, <1>3

-----------------------------------------------------------------------------
(* What walks meet. *)
ChildrenOfBlock(c, q, a) == {b \in Addrs : c[b] # NULL /\ q[b] = a}

(* Whoever has a block with a parent as its next is its sibling. *)
LEMMA Sibling ==
    ASSUME NEW c, NEW q, Families(c, q), NEW a \in Addrs, c[a] # NULL, q[a] # 0,
           NEW e \in Addrs, c[e] # NULL, c[e].next = a
    PROVE  HasNext(c, q, e) /\ q[e] = q[a] /\ c[a].prev = NextOf(e)
<1>1. a # 0
  BY HallocAssumption DEF Addrs
<1>2. q[e] # 0
  BY <1>1 DEF Families, Roots
<1> QED
  BY <1>1, <1>2 DEF HasNext, Families, Nexts

(* The walk over the list of a block meets its children, all of them. *)
LEMMA ChildrenListed ==
    ASSUME NEW c, NEW q, Families(c, q), NEW a \in Addrs, c[a] # NULL
    PROVE  ChildrenOn(On(c), a) = ChildrenOfBlock(c, q, a)
<1> DEFINE R == ChildrenOn(On(c), a)
           K == ChildrenOfBlock(c, q, a)
<1>1. Typed(c, q) /\ c[a].children \in 0..MaxAddr /\ On(c).cells = c
  BY HeaderFacts DEF Families, On
<1>2. R \in SUBSET Addrs /\ Stays(On(c), c[a].children, {"next"}, R)
  BY <1>1, ReachedStays DEF ChildrenOn
<1>3. R \subseteq K
  <2>1. K \in SUBSET Addrs
    BY DEF ChildrenOfBlock
  <2>2. c[a].children \in K \cup {0}
    BY DEF Families, Firsts, Live, ChildrenOfBlock
  <2>3. \A x \in K : c[x] # NULL => c[x].next \in K \cup {0}
    <3>1. a # 0
      BY HallocAssumption DEF Addrs
    <3> QED
      BY <3>1 DEF Families, Nexts, HasNext, Live, ChildrenOfBlock
  <2>4. Stays(On(c), c[a].children, {"next"}, K)
    <3> HIDE DEF K
    <3> QED
      BY <2>2, <2>3, StaysOn
  <2> QED
    BY <1>1, <2>1, <2>4, ReachedLeast DEF ChildrenOn
<1>4. K \subseteq R
  <2> SUFFICES ASSUME K \ R # {}
               PROVE  FALSE
    OBVIOUS
  <2>1. PICK r \in Ranks : Upwards(c, q, r)
    BY DEF Families, Begins
  <2>2. K \ R \in SUBSET Addrs
    BY DEF ChildrenOfBlock
  <2>3. PICK b \in K \ R : \A y \in K \ R : r[b] <= r[y]
    <3> HIDE DEF K, R
    <3> QED
      BY <2>2, LeastRanked
  <2>4. b \in Addrs /\ c[b] # NULL /\ q[b] = a /\ a # 0
    BY HallocAssumption DEF ChildrenOfBlock, Addrs
  <2>5. IsFirst(c, q, b) \/ Follows(c, b)
    BY <2>4 DEF Families, Prevs
  <2>6. \A x \in R : c[x] # NULL => c[x].next \in R \cup {0}
    <3> HIDE DEF R
    <3> QED
      BY <1>2, StaysOn
  <2>7. CASE IsFirst(c, q, b)
    <3>1. c[a].children = b /\ b # 0
      BY <2>4, <2>7, HallocAssumption DEF IsFirst, Addrs
    <3>2. c[a].children \in R \cup {0}
      <4> HIDE DEF R
      <4> QED
        BY <1>2, StaysOn
    <3> QED
      BY <2>3, <3>1, <3>2
  <2>8. CASE Follows(c, b)
    <3>1. PICK e \in Addrs : c[e] # NULL /\ c[e].next = b
      BY <2>8 DEF Follows
    <3>2. b # 0
      BY <2>4, HallocAssumption DEF Addrs
    <3>3. q[e] = a /\ HasNext(c, q, e)
      BY <2>4, <3>1, Sibling
    <3>4. e \in K
      BY <3>1, <3>3 DEF ChildrenOfBlock
    <3>5. r[e] < r[b]
      BY <2>1, <3>1, <3>3 DEF Upwards
    <3>6. r[e] \in Nat /\ r[b] \in Nat
      BY <2>4 DEF Ranks
    <3>7. e \in R
      BY <2>3, <3>4, <3>5, <3>6
    <3>8. b \in R
      BY <2>6, <3>1, <3>2, <3>7
    <3> QED
      BY <2>3, <3>8
  <2> QED
    BY <2>5, <2>7, <2>8
<1> QED
  BY <1>3, <1>4

(* Its list ends. *)
LEMMA ListEnds ==
    ASSUME NEW c, NEW q, Families(c, q), NEW a \in Addrs, c[a] # NULL, ChildrenOfBlock(c, q, a) # {}
    PROVE  \E b \in ChildrenOfBlock(c, q, a) : c[b].next = 0
<1> DEFINE K == ChildrenOfBlock(c, q, a)
<1>1. PICK r \in Ranks : Downwards(c, q, r)
  BY DEF Families, Ends
<1>2. PICK b \in K : \A y \in K : r[b] <= r[y]
  <2>1. K \in SUBSET Addrs /\ K # {}
    BY DEF ChildrenOfBlock
  <2> HIDE DEF K
  <2> QED
    BY <2>1, LeastRanked
<1>3. c[b].next = 0
  <2> SUFFICES ASSUME c[b].next # 0
               PROVE  FALSE
    OBVIOUS
  <2>1. b \in Addrs /\ HasNext(c, q, b) /\ q[b] = a
    BY HallocAssumption DEF ChildrenOfBlock, HasNext, Addrs
  <2>2. c[b].next \in K
    BY <2>1 DEF Families, Nexts, Live, ChildrenOfBlock
  <2>3. r[c[b].next] < r[b] /\ r[b] \in Nat /\ r[c[b].next] \in Nat
    BY <1>1, <2>1, <2>2 DEF Downwards, Ranks, ChildrenOfBlock
  <2> QED
    BY <1>2, <2>2, <2>3
<1> QED
  BY <1>3

(* The family of a block has every child of the block and of its members, no other block, *)
(* and neither the block itself nor its parent.                                           *)
LEMMA FamilyIs ==
    ASSUME NEW c, NEW q, Families(c, q), NEW a \in Addrs, c[a] # NULL,
           NEW F, F = Family(On(c), a)
    PROVE  /\ F \in SUBSET Addrs
           /\ \A b \in Addrs : c[b] # NULL /\ (q[b] = a \/ q[b] \in F) => b \in F
           /\ \A b \in F : c[b] # NULL /\ (q[b] = a \/ q[b] \in F)
           /\ a \notin F /\ q[a] \notin F /\ q[a] # a
<1>1. Typed(c, q) /\ c[a].children \in 0..MaxAddr /\ On(c).cells = c
  BY HeaderFacts DEF Families, On
<1>2. F \in SUBSET Addrs /\ Stays(On(c), c[a].children, {"next", "children"}, F)
  BY <1>1, ReachedStays DEF Family
<1>3. \A x \in F : c[x] # NULL => c[x].next \in F \cup {0} /\ c[x].children \in F \cup {0}
  BY <1>2, StaysOn
<1>4. c[a].children \in F \cup {0}
  BY <1>2, StaysOn
<1>5. ASSUME NEW y \in Addrs, c[y] # NULL, c[y].children \in F \cup {0}
      PROVE  ChildrenOfBlock(c, q, y) \subseteq F
  <2>1. Stays(On(c), c[y].children, {"next"}, F)
    BY <1>3, <1>5, StaysOn
  <2>2. ChildrenOn(On(c), y) \subseteq F
    BY <1>1, <1>2, <2>1, ReachedLeast DEF ChildrenOn
  <2> QED
    BY <1>5, <2>2, ChildrenListed
<1>6. ASSUME NEW b \in Addrs, c[b] # NULL, q[b] = a \/ q[b] \in F
      PROVE  b \in F
  <2>1. CASE q[b] = a
    BY <1>4, <1>5, <1>6, <2>1 DEF ChildrenOfBlock
  <2>2. CASE q[b] \in F
    <3>1. q[b] \in Addrs /\ q[b] # 0
      BY <1>2, <2>2, HallocAssumption DEF Addrs
    <3>2. c[q[b]] # NULL
      BY <1>6, <3>1 DEF Families, Prevs, Live
    <3> QED
      BY <1>3, <1>5, <1>6, <2>2, <3>1, <3>2 DEF ChildrenOfBlock
  <2> QED
    BY <1>6, <2>1, <2>2
<1>7. \A b \in F : c[b] # NULL /\ (q[b] = a \/ q[b] \in F)
  <2> DEFINE S == {b \in F : c[b] # NULL /\ (q[b] = a \/ q[b] \in F)}
  <2>1. S \in SUBSET Addrs
    BY <1>2
  <2>2. c[a].children \in S \cup {0}
    BY <1>4 DEF Families, Firsts, Live
  <2>3. \A x \in S : c[x] # NULL => c[x].next \in S \cup {0}
    <3>1. 0 \notin F /\ a # 0
      BY <1>2, HallocAssumption DEF Addrs
    <3> QED
      BY <1>2, <1>3, <3>1 DEF Families, Nexts, HasNext, Live
  <2>4. \A x \in S : c[x] # NULL => c[x].children \in S \cup {0}
    BY <1>2, <1>3 DEF Families, Firsts, Live
  <2>5. Stays(On(c), c[a].children, {"next", "children"}, S)
    <3> HIDE DEF S
    <3> QED
      BY <2>2, <2>3, <2>4, StaysOn
  <2>6. F \subseteq S
    <3> HIDE DEF S
    <3> QED
      BY <1>1, <2>1, <2>5, ReachedLeast DEF Family
  <2> QED
    BY <2>6
<1>8. PICK d \in Ranks : Deeper(c, q, d)
  BY DEF Families, Deep
<1>9. \A b \in Addrs : d[b] \in Nat
  BY DEF Ranks
<1>10. ASSUME NEW b \in F
       PROVE  d[a] < d[b]
  <2>1. PICK m \in F : \A y \in F : d[m] <= d[y]
    BY <1>2, <1>8, LeastRanked
  <2>2. m \in Addrs /\ c[m] # NULL /\ (q[m] = a \/ q[m] \in F)
    BY <1>2, <1>7
  <2>3. q[m] \in Addrs /\ q[m] # 0
    BY <1>2, <2>2, HallocAssumption DEF Addrs
  <2>4. d[q[m]] < d[m]
    BY <1>8, <2>2, <2>3 DEF Deeper
  <2>5. q[m] \notin F
    BY <1>9, <2>1, <2>2, <2>3, <2>4
  <2>6. q[m] = a
    BY <2>2, <2>5
  <2>7. d[m] <= d[b] /\ b \in Addrs
    BY <1>2, <2>1
  <2> QED
    BY <1>9, <2>2, <2>4, <2>6, <2>7
<1>11. a \notin F
  BY <1>9, <1>10
<1>12. ASSUME q[a] # 0
       PROVE  q[a] \notin F /\ q[a] # a
  <2>1. Live(c, q[a])
    BY <1>12 DEF Families, Prevs
  <2>2. d[q[a]] < d[a]
    BY <1>8, <1>12 DEF Deeper
  <2> QED
    BY <1>9, <1>10, <2>1, <2>2 DEF Live
<1>13. 0 \notin F /\ a # 0
  BY <1>2, HallocAssumption DEF Addrs
<1> QED
  BY <1>2, <1>6, <1>7, <1>11, <1>12, <1>13

-----------------------------------------------------------------------------
(* What the stores leave. *)
Cells == [Addrs -> Headers \cup {NULL}]

PrevPut(c, i, ref) ==
    [x \in Addrs |-> IF x = i THEN [next |-> c[x].next, prev |-> ref, children |-> c[x].children]
                     ELSE c[x]]

Put(c, ref, v) ==
    [x \in Addrs |->
        IF x # ref.of THEN c[x]
        ELSE [next |-> IF ref.cell = "next" THEN v ELSE c[x].next, prev |-> c[x].prev,
              children |-> IF ref.cell = "children" THEN v ELSE c[x].children]]

(* The header of a block that is there. *)
LEMMA CellIs ==
    ASSUME NEW c \in Cells, NEW x \in Addrs, c[x] # NULL
    PROVE  /\ c[x] \in Headers
           /\ c[x].next \in 0..MaxAddr /\ c[x].children \in 0..MaxAddr /\ c[x].prev \in Refs
           /\ c[x] = [next |-> c[x].next, prev |-> c[x].prev, children |-> c[x].children]
           /\ DOMAIN c[x] = {"next", "prev", "children"}
<1>1. c[x] \in Headers
  BY DEF Cells
<1> QED
  BY <1>1 DEF Headers

(* A store to the prev of a block that is there, or of the sentinel. *)
LEMMA SetPrevIs ==
    ASSUME NEW c \in Cells, NEW i \in 0..MaxAddr, i = 0 \/ c[i] # NULL, NEW ref \in Refs
    PROVE  /\ SetPrev(On(c), i, ref) = On(PrevPut(c, i, ref))
           /\ PrevPut(c, i, ref) \in Cells
           /\ \A x \in Addrs : PrevPut(c, i, ref)[x] = NULL <=> c[x] = NULL
<1>1. CASE i = 0
  <2>1. \A x \in Addrs : x # i
    BY <1>1, HallocAssumption DEF Addrs
  <2>2. PrevPut(c, i, ref) = c
    BY <2>1 DEF PrevPut, Cells
  <2> QED
    BY <1>1, <2>2 DEF SetPrev
<1>2. CASE i # 0
  <2>1. i \in Addrs /\ c[i] # NULL
    BY <1>2, AddrIs
  <2>2. c[i] \in Headers /\ c[i].next \in 0..MaxAddr /\ c[i].children \in 0..MaxAddr
        /\ c[i] = [next |-> c[i].next, prev |-> c[i].prev, children |-> c[i].children]
        /\ DOMAIN c[i] = {"next", "prev", "children"}
    BY <2>1, CellIs
  <2> DEFINE h == [next |-> c[i].next, prev |-> ref, children |-> c[i].children]
  <2>3. h \in Headers /\ h # NULL
    <3>1. h \in Headers
      BY <2>2 DEF Headers
    <3> QED
      BY <3>1, HallocAssumption
  <2>4. [c[i] EXCEPT !.prev = ref] = h
    BY <2>2
  <2>5. SetPrev(On(c), i, ref) = On([c EXCEPT ![i] = h])
    BY <1>2, <2>1, <2>4 DEF SetPrev, On
  <2>6. PrevPut(c, i, ref) = [c EXCEPT ![i] = h]
    BY <2>1 DEF PrevPut, Cells
  <2> HIDE DEF h
  <2>7. [c EXCEPT ![i] = h] \in Cells /\ \A x \in Addrs : [c EXCEPT ![i] = h][x] = NULL <=> c[x] = NULL
    BY <2>1, <2>3 DEF Cells
  <2> QED
    BY <2>5, <2>6, <2>7
<1> QED
  BY <1>1, <1>2

(* A store through a pointer to a cell of a block that is there. *)
LEMMA StoreIs ==
    ASSUME NEW c \in Cells, NEW ref \in Refs, c[ref.of] # NULL, NEW v \in 0..MaxAddr
    PROVE  /\ Store(On(c), ref, v) = On(Put(c, ref, v))
           /\ Put(c, ref, v) \in Cells
           /\ \A x \in Addrs : Put(c, ref, v)[x] = NULL <=> c[x] = NULL
<1> DEFINE i == ref.of
           h == [next |-> IF ref.cell = "next" THEN v ELSE c[i].next, prev |-> c[i].prev,
                 children |-> IF ref.cell = "children" THEN v ELSE c[i].children]
<1>1. i \in Addrs /\ c[i] # NULL /\ ref.cell \in {"next", "children"}
  BY DEF Refs
<1>2. c[i].next \in 0..MaxAddr /\ c[i].children \in 0..MaxAddr /\ c[i].prev \in Refs
      /\ c[i] = [next |-> c[i].next, prev |-> c[i].prev, children |-> c[i].children]
      /\ DOMAIN c[i] = {"next", "prev", "children"}
  BY <1>1, CellIs
<1>3. h \in Headers /\ h # NULL
  <2>1. h \in Headers
    BY <1>1, <1>2 DEF Headers
  <2> QED
    BY <2>1, HallocAssumption
<1>4. [c[i] EXCEPT ![ref.cell] = v] = h
  <2>1. CASE ref.cell = "next"
    BY <1>2, <2>1
  <2>2. CASE ref.cell = "children"
    BY <1>2, <2>2
  <2> QED
    BY <1>1, <2>1, <2>2
<1>5. Store(On(c), ref, v) = On([c EXCEPT ![i] = h])
  BY <1>1, <1>4 DEF Store, On
<1>6. Put(c, ref, v) = [c EXCEPT ![i] = h]
  BY <1>1 DEF Put, Cells
<1> HIDE DEF h
<1>7. [c EXCEPT ![i] = h] \in Cells /\ \A x \in Addrs : [c EXCEPT ![i] = h][x] = NULL <=> c[x] = NULL
  BY <1>1, <1>3 DEF Cells
<1> QED
  BY <1>5, <1>6, <1>7

(* A block that is made the only one of its list. *)
LEMMA InitIs ==
    ASSUME NEW c \in Cells, NEW b \in Addrs, c[b] # NULL
    PROVE  hlist_init_item(On(c), b) =
               On([c EXCEPT ![b] = [next |-> 0, prev |-> NextOf(b), children |-> c[b].children]])
<1> DEFINE f == FALSE
           w == On(c)
           k == [next |-> 0, prev |-> c[b].prev, children |-> c[b].children]
           h == [next |-> 0, prev |-> NextOf(b), children |-> c[b].children]
           ck == [c EXCEPT ![b] = k]
           v == [w EXCEPT !.cells[b].next = 0]
           u == [v EXCEPT !.cells[b].prev = NextOf(b)]
<1>1. hlist_init_item(On(c), b) = u
  BY DEF hlist_init_item
<1>2. /\ \A d : On(d) = [cells |-> d, wild |-> f]
  BY DEF On
<1>3. [c[b] EXCEPT !.next = 0] = k /\ [k EXCEPT !.prev = NextOf(b)] = h
  <2>1. c[b] = [next |-> c[b].next, prev |-> c[b].prev, children |-> c[b].children]
        /\ DOMAIN c[b] = {"next", "prev", "children"}
    BY CellIs
  <2> QED
    BY <2>1
<1> HIDE DEF f, k, h
<1>4. v = [cells |-> ck, wild |-> f]
  <2>1. w = [cells |-> c, wild |-> f]
    BY <1>2
  <2> HIDE DEF w
  <2>2. v = [cells |-> [c EXCEPT ![b].next = 0], wild |-> f]
    BY <2>1
  <2>3. [c EXCEPT ![b].next = 0] = ck
    BY <1>3 DEF Cells
  <2> QED
    BY <2>2, <2>3
<1>5. ck[b] = k
  BY DEF Cells
<1> HIDE DEF v
<1>6. u = [cells |-> [ck EXCEPT ![b].prev = NextOf(b)], wild |-> f]
  <2> HIDE DEF ck
  <2> QED
    BY <1>4
<1>7. [ck EXCEPT ![b].prev = NextOf(b)] = [c EXCEPT ![b] = h]
  <2>1. [ck EXCEPT ![b].prev = NextOf(b)] = [ck EXCEPT ![b] = h]
    <3> HIDE DEF ck
    <3> QED
      BY <1>3, <1>5
  <2> QED
    BY <2>1 DEF Cells
<1>8. u = On([c EXCEPT ![b] = h])
  <2> HIDE DEF ck, u
  <2> QED
    BY <1>2, <1>6, <1>7
<1> QED
  BY <1>1, <1>8 DEF h

(* What hlist_del leaves. *)
Unlinked(c, b) ==
    [x \in Addrs |->
        IF c[x] = NULL THEN NULL
        ELSE [next |-> IF x = b THEN 0 ELSE IF c[b].prev = NextOf(x) THEN c[b].next ELSE c[x].next,
              prev |-> IF x = b THEN NextOf(b) ELSE IF x = c[b].next THEN c[b].prev ELSE c[x].prev,
              children |-> IF c[b].prev = ChildrenOf(x) THEN c[b].next ELSE c[x].children]]

(* It writes no memory but that of blocks. *)
LEMMA DelIs ==
    ASSUME NEW c \in Cells, NEW b \in Addrs, c[b] # NULL,
           c[b].next = 0 \/ c[c[b].next] # NULL, c[c[b].prev.of] # NULL
    PROVE  /\ hlist_del(On(c), b) = On(Unlinked(c, b)) /\ Unlinked(c, b) \in Cells
           /\ \A x \in Addrs : Unlinked(c, b)[x] = NULL <=> c[x] = NULL
<1> DEFINE n == c[b].next
           back == c[b].prev
           c1 == PrevPut(c, n, back)
           c2 == Put(c1, back, n)
<1>1. n \in 0..MaxAddr /\ back \in Refs
  BY CellIs
<1>2. back.of \in Addrs
  BY <1>1, RefIs
<1>3. SetPrev(On(c), n, back) = On(c1) /\ c1 \in Cells /\ \A x \in Addrs : c1[x] = NULL <=> c[x] = NULL
  BY <1>1, SetPrevIs
<1>4. Store(On(c1), back, n) = On(c2) /\ c2 \in Cells /\ \A x \in Addrs : c2[x] = NULL <=> c1[x] = NULL
  <2>1. c1[back.of] # NULL
    BY <1>2, <1>3
  <2> HIDE DEF c1, n, back
  <2> QED
    BY <1>1, <1>3, <2>1, StoreIs
<1>5. hlist_del(On(c), b) = hlist_init_item(On(c2), b)
  <2>1. On(c).cells = c
    BY DEF On
  <2>2. hlist_del(On(c), b) = hlist_init_item(Store(SetPrev(On(c), n, back), back, n), b)
    BY <2>1 DEF hlist_del
  <2> HIDE DEF c1, c2, n, back
  <2> QED
    BY <1>3, <1>4, <2>2
<1> DEFINE h == [next |-> 0, prev |-> NextOf(b), children |-> c2[b].children]
<1>6. hlist_init_item(On(c2), b) = On([c2 EXCEPT ![b] = h])
  <2>1. c2[b] # NULL
    BY <1>3, <1>4
  <2> HIDE DEF c2
  <2> QED
    BY <1>4, <2>1, InitIs
<1>7. /\ [c2 EXCEPT ![b] = h] \in Cells
      /\ \A x \in Addrs : [c2 EXCEPT ![b] = h][x] = NULL <=> c[x] = NULL
  <2>1. h \in Headers
    <3>1. c2[b].children \in 0..MaxAddr
      <4> HIDE DEF c2
      <4> QED
        BY <1>3, <1>4, CellIs
    <3>2. 0 \in 0..MaxAddr /\ NextOf(b) \in Refs
      BY HallocAssumption, CellsApart
    <3> HIDE DEF c2
    <3> QED
      BY <3>1, <3>2 DEF Headers
  <2>2. h # NULL
    <3> HIDE DEF h
    <3> QED
      BY <2>1, HallocAssumption
  <2>3. c[b] # NULL /\ \A x \in Addrs : c2[x] = NULL <=> c[x] = NULL
    <3> HIDE DEF c1, c2
    <3> QED
      BY <1>3, <1>4
  <2> HIDE DEF c2, h
  <2> QED
    BY <1>4, <2>1, <2>2, <2>3 DEF Cells
<1>8. ASSUME NEW x \in Addrs
      PROVE  [c2 EXCEPT ![b] = h][x] = Unlinked(c, b)[x]
  <2>1. [c2 EXCEPT ![b] = h][x] = IF x = b THEN h ELSE c2[x]
    <3> HIDE DEF c2, h
    <3> QED
      BY <1>4 DEF Cells
  <2>2. CASE c[x] = NULL
    <3>1. c2[x] = NULL /\ x # b
      BY <1>3, <1>4, <2>2
    <3> QED
      BY <2>1, <2>2, <3>1 DEF Unlinked
  <2>3. CASE c[x] # NULL
    <3>1. c1[x] = [next |-> c[x].next, prev |-> IF x = n THEN back ELSE c[x].prev,
                   children |-> c[x].children]
      BY <2>3, CellIs DEF PrevPut
    <3>2. c1[x].next = c[x].next /\ c1[x].children = c[x].children
          /\ c1[x].prev = IF x = n THEN back ELSE c[x].prev
      BY <3>1
    <3>3. /\ x = back.of /\ back.cell = "next" <=> back = NextOf(x)
          /\ x = back.of /\ back.cell = "children" <=> back = ChildrenOf(x)
      BY <1>1, RefIs, CellsApart
    <3>4. c2[x] = IF x # back.of THEN c1[x] ELSE
                  [next |-> IF back.cell = "next" THEN n ELSE c1[x].next, prev |-> c1[x].prev,
                   children |-> IF back.cell = "children" THEN n ELSE c1[x].children]
      BY DEF Put
    <3>5. c2[x] = [next |-> IF back = NextOf(x) THEN n ELSE c[x].next,
                   prev |-> IF x = n THEN back ELSE c[x].prev,
                   children |-> IF back = ChildrenOf(x) THEN n ELSE c[x].children]
      <4> HIDE DEF c1, c2
      <4> QED
        BY <3>1, <3>2, <3>3, <3>4
    <3>6. Unlinked(c, b)[x] =
            [next |-> IF x = b THEN 0 ELSE IF back = NextOf(x) THEN n ELSE c[x].next,
             prev |-> IF x = b THEN NextOf(b) ELSE IF x = n THEN back ELSE c[x].prev,
             children |-> IF back = ChildrenOf(x) THEN n ELSE c[x].children]
      BY <2>3 DEF Unlinked
    <3> HIDE DEF c1, c2
    <3> QED
      BY <2>1, <3>5, <3>6
  <2> QED
    BY <2>2, <2>3
<1>9. [c2 EXCEPT ![b] = h] = Unlinked(c, b)
  <2>1. Unlinked(c, b) = [x \in Addrs |-> Unlinked(c, b)[x]]
    BY DEF Unlinked
  <2> HIDE DEF c2, h
  <2>2. [c2 EXCEPT ![b] = h] = [x \in Addrs |-> [c2 EXCEPT ![b] = h][x]]
    BY <1>7 DEF Cells
  <2> QED
    BY <1>8, <2>1, <2>2
<1> HIDE DEF c2, h
<1> QED
  BY <1>5, <1>6, <1>7, <1>9

-----------------------------------------------------------------------------
(* hattach(b, NULL), and the first half of hattach: a block is taken off its list. *)

(* Where the prev of a block points, and that a block is not its own neighbour. *)
LEMMA BackIs ==
    ASSUME NEW c, NEW q, Families(c, q), NEW b \in Addrs, c[b] # NULL
    PROVE  /\ \A x \in Addrs : c[b].prev = NextOf(x) /\ x # b =>
                  q[b] # 0 /\ HasNext(c, q, x) /\ c[x].next = b /\ q[x] = q[b]
           /\ \A x \in Addrs : c[b].prev = ChildrenOf(x) =>
                  q[b] = x /\ c[x] # NULL /\ c[x].children = b
           /\ c[b].prev = NextOf(b) => q[b] = 0
           /\ q[b] # 0 => c[b].next # b
           /\ q[b] = 0 => c[b].prev = NextOf(b) /\ c[b].next \in {0, b}
           /\ c[b].next # 0 => Live(c, c[b].next)
           /\ Live(c, c[b].prev.of)
<1>1. q[b] \in 0..MaxAddr /\ b # 0 /\ c[b].prev \in Refs
  <2>1. Typed(c, q)
    BY DEF Families
  <2>2. q[b] \in 0..MaxAddr
    BY <2>1 DEF Typed
  <2> QED
    <3>1. b # 0
      BY HallocAssumption DEF Addrs
    <3>2. c[b].prev \in Refs
      BY <2>1, HeaderFacts
    <3> QED
      BY <2>2, <3>1, <3>2
<1>2. q[b] = 0 => c[b].prev = NextOf(b) /\ c[b].next \in {0, b}
  BY DEF Families, Roots
<1>3. q[b] # 0 => Live(c, q[b]) /\ (IsFirst(c, q, b) \/ Follows(c, b))
  BY DEF Families, Prevs
<1>4. q[b] # 0 => c[b].next # b
  <2> SUFFICES ASSUME q[b] # 0, c[b].next = b
               PROVE  FALSE
    OBVIOUS
  <2>1. PICK r \in Ranks : Upwards(c, q, r)
    BY DEF Families, Begins
  <2>2. HasNext(c, q, b)
    BY <1>1 DEF HasNext
  <2>3. r[b] < r[b] /\ r[b] \in Nat
    BY <2>1, <2>2 DEF Upwards, Ranks
  <2> QED
    BY <2>3
<1>5. ASSUME q[b] # 0, IsFirst(c, q, b)
      PROVE  c[b].prev = ChildrenOf(q[b]) /\ c[q[b]] # NULL /\ c[q[b]].children = b /\ q[b] \in Addrs
  BY <1>3, <1>5 DEF IsFirst, Live
<1>6. ASSUME q[b] # 0, Follows(c, b)
      PROVE  \E e \in Addrs : e # b /\ c[b].prev = NextOf(e) /\ HasNext(c, q, e) /\ c[e].next = b /\ q[e] = q[b]
  <2>1. PICK e \in Addrs : c[e] # NULL /\ c[b].prev = NextOf(e) /\ c[e].next = b
    BY <1>6 DEF Follows
  <2>2. HasNext(c, q, e) /\ q[e] = q[b]
    BY <1>6, <2>1, Sibling
  <2> QED
    BY <1>4, <1>6, <2>1, <2>2
<1>7. ASSUME NEW x \in Addrs, c[b].prev = NextOf(x), x # b
      PROVE  q[b] # 0 /\ HasNext(c, q, x) /\ c[x].next = b /\ q[x] = q[b]
  <2>1. q[b] # 0
    BY <1>2, <1>7, CellsApart
  <2>2. ~ IsFirst(c, q, b)
    BY <1>7, CellsApart DEF IsFirst
  <2> QED
    BY <1>3, <1>6, <1>7, <2>1, <2>2, CellsApart
<1>8. ASSUME NEW x \in Addrs, c[b].prev = ChildrenOf(x)
      PROVE  q[b] = x /\ c[x] # NULL /\ c[x].children = b
  <2>1. q[b] # 0
    BY <1>2, <1>8, CellsApart
  <2>2. ~ Follows(c, b)
    BY <1>8, CellsApart DEF Follows
  <2>3. IsFirst(c, q, b)
    BY <1>3, <2>1, <2>2
  <2> QED
    BY <1>5, <1>8, <2>1, <2>3, CellsApart
<1>9. c[b].prev = NextOf(b) => q[b] = 0
  <2> SUFFICES ASSUME c[b].prev = NextOf(b), q[b] # 0
               PROVE  FALSE
    OBVIOUS
  <2>1. ~ IsFirst(c, q, b)
    BY CellsApart DEF IsFirst
  <2> QED
    BY <1>3, <1>6, <2>1, CellsApart
<1>10. c[b].next # 0 => Live(c, c[b].next)
  <2>1. CASE q[b] = 0
    BY <1>2, <2>1 DEF Live
  <2>2. CASE q[b] # 0
    BY <2>2 DEF Families, Nexts, HasNext
  <2> QED
    BY <2>1, <2>2
<1>11. Live(c, c[b].prev.of)
  <2>1. PICK x \in Addrs : x = c[b].prev.of
    BY <1>1, RefIs
  <2>2. CASE c[b].prev = NextOf(x)
    BY <1>7, <2>1, <2>2 DEF Live, HasNext
  <2>3. CASE c[b].prev = ChildrenOf(x)
    BY <1>8, <2>1, <2>3 DEF Live
  <2> QED
    BY <1>1, <2>1, <2>2, <2>3, RefIs
<1> QED
  BY <1>2, <1>4, <1>7, <1>8, <1>9, <1>10, <1>11

(* So hlist_del is what Unlinked says. *)
LEMMA DelOf ==
    ASSUME NEW c, NEW q, Families(c, q), NEW b \in Addrs, c[b] # NULL
    PROVE  /\ hlist_del(On(c), b) = On(Unlinked(c, b)) /\ Unlinked(c, b) \in Cells
           /\ \A x \in Addrs : Unlinked(c, b)[x] = NULL <=> c[x] = NULL
<1>1. c \in Cells
  BY DEF Families, Typed, Cells
<1>2. c[b].next = 0 \/ c[c[b].next] # NULL
  BY BackIs DEF Live
<1>3. c[c[b].prev.of] # NULL
  BY BackIs DEF Live
<1> QED
  BY <1>1, <1>2, <1>3, DelIs

(* The fields that it leaves. *)
LEMMA UnlinkedIs ==
    ASSUME NEW c, NEW b, NEW x \in Addrs, c[x] # NULL
    PROVE  LET u == Unlinked(c, b) IN
           /\ u[x].next = IF x = b THEN 0 ELSE IF c[b].prev = NextOf(x) THEN c[b].next ELSE c[x].next
           /\ u[x].prev = IF x = b THEN NextOf(b) ELSE IF x = c[b].next THEN c[b].prev ELSE c[x].prev
           /\ u[x].children = IF c[b].prev = ChildrenOf(x) THEN c[b].next ELSE c[x].children
BY DEF Unlinked

(* Families stay sound when a block is taken from its parent. *)
LEMMA Detached ==
    ASSUME NEW c, NEW q, Families(c, q), NEW b \in Addrs, c[b] # NULL
    PROVE  Families(Unlinked(c, b), [q EXCEPT ![b] = 0])
<1> DEFINE u == Unlinked(c, b)
           p == [q EXCEPT ![b] = 0]
           n == c[b].next
           back == c[b].prev
<1>1. u \in Cells /\ \A x \in Addrs : u[x] = NULL <=> c[x] = NULL
  BY DelOf
<1>2. q \in [Addrs -> 0..MaxAddr] /\ p \in [Addrs -> 0..MaxAddr]
      /\ \A x \in Addrs : p[x] = IF x = b THEN 0 ELSE q[x]
  BY HallocAssumption DEF Families, Typed
<1>3. ASSUME NEW x \in Addrs, c[x] # NULL
      PROVE  /\ u[x].next = IF x = b THEN 0 ELSE IF back = NextOf(x) THEN n ELSE c[x].next
             /\ u[x].prev = IF x = b THEN NextOf(b) ELSE IF x = n THEN back ELSE c[x].prev
             /\ u[x].children = IF back = ChildrenOf(x) THEN n ELSE c[x].children
  BY <1>3, UnlinkedIs
<1>4. /\ \A x \in Addrs : back = NextOf(x) /\ x # b =>
            q[b] # 0 /\ HasNext(c, q, x) /\ c[x].next = b /\ q[x] = q[b]
      /\ \A x \in Addrs : back = ChildrenOf(x) => q[b] = x /\ c[x] # NULL /\ c[x].children = b
      /\ back = NextOf(b) => q[b] = 0
      /\ q[b] # 0 => n # b
      /\ q[b] = 0 => back = NextOf(b) /\ n \in {0, b}
  BY BackIs
<1>5. n # 0 /\ q[b] # 0 => Live(c, n) /\ c[n].prev = NextOf(b) /\ q[n] = q[b]
  BY DEF Families, Nexts, HasNext
<1>6. 0 \notin Addrs
  BY HallocAssumption DEF Addrs
<1> HIDE DEF u, p, n, back
<1>7. ASSUME NEW a \in Addrs, HasNext(u, p, a)
      PROVE  /\ Live(u, u[a].next) /\ u[u[a].next].prev = NextOf(a) /\ p[u[a].next] = p[a]
             /\ a # b /\ HasNext(c, q, a)
             /\ \/ u[a].next = c[a].next
                \/ c[a].next = b /\ HasNext(c, q, b) /\ u[a].next = c[b].next
  <2>1. a # b /\ c[a] # NULL /\ p[a] = q[a] /\ q[a] # 0
    BY <1>1, <1>2, <1>7 DEF HasNext
  <2>2. CASE back = NextOf(a)
    <3>1. u[a].next = n /\ n # 0 /\ q[b] # 0 /\ HasNext(c, q, a) /\ c[a].next = b /\ q[a] = q[b]
      BY <1>3, <1>4, <1>7, <2>1, <2>2 DEF HasNext
    <3>2. Live(c, n) /\ q[n] = q[b] /\ n # b /\ HasNext(c, q, b)
      BY <1>4, <1>5, <3>1 DEF HasNext, n
    <3>3. Live(u, n) /\ u[n].prev = back /\ p[n] = q[b]
      BY <1>1, <1>2, <1>3, <3>2 DEF Live
    <3> QED
      BY <2>1, <2>2, <3>1, <3>2, <3>3 DEF n
  <2>3. CASE back # NextOf(a)
    <3> DEFINE m == c[a].next
    <3>1. u[a].next = m /\ HasNext(c, q, a)
      BY <1>3, <1>7, <2>1, <2>3 DEF HasNext
    <3>2. Live(c, m) /\ c[m].prev = NextOf(a) /\ q[m] = q[a]
      BY <3>1 DEF Families, Nexts
    <3>3. m # b
      BY <2>3, <3>2 DEF back
    <3>4. m # n
      <4> SUFFICES ASSUME m = n
                   PROVE  FALSE
        OBVIOUS
      <4>1. n # 0 /\ q[b] # 0
        BY <1>4, <1>6, <3>2, <3>3 DEF Live
      <4> QED
        BY <1>5, <2>1, <3>2, <4>1, CellsApart
    <3>5. Live(u, m) /\ u[m].prev = NextOf(a) /\ p[m] = q[a]
      BY <1>1, <1>2, <1>3, <3>2, <3>3, <3>4 DEF Live
    <3> QED
      BY <2>1, <3>1, <3>5
  <2> QED
    BY <2>2, <2>3
<1>8. ASSUME NEW a \in Addrs, u[a] # NULL, u[a].children # 0
      PROVE  Live(u, u[a].children) /\ u[u[a].children].prev = ChildrenOf(a) /\ p[u[a].children] = a
  <2>1. c[a] # NULL
    BY <1>1, <1>8
  <2>2. CASE back = ChildrenOf(a)
    <3>1. u[a].children = n /\ n # 0 /\ q[b] = a /\ q[b] # 0
      BY <1>3, <1>4, <1>6, <1>8, <2>1, <2>2
    <3>2. Live(c, n) /\ q[n] = a /\ n # b
      BY <1>4, <1>5, <3>1
    <3>3. Live(u, n) /\ u[n].prev = back /\ p[n] = a
      BY <1>1, <1>2, <1>3, <3>2 DEF Live
    <3> QED
      BY <2>2, <3>1, <3>3
  <2>3. CASE back # ChildrenOf(a)
    <3> DEFINE m == c[a].children
    <3>1. u[a].children = m
      BY <1>3, <2>1, <2>3
    <3>2. Live(c, m) /\ c[m].prev = ChildrenOf(a) /\ q[m] = a
      BY <1>8, <2>1, <3>1 DEF Families, Firsts
    <3>3. m # b
      BY <2>3, <3>2 DEF back
    <3>4. m # n
      <4> SUFFICES ASSUME m = n
                   PROVE  FALSE
        OBVIOUS
      <4>1. n # 0 /\ q[b] # 0
        BY <1>4, <1>6, <3>2, <3>3 DEF Live
      <4> QED
        BY <1>5, <3>2, <4>1, CellsApart
    <3>5. Live(u, m) /\ u[m].prev = ChildrenOf(a) /\ p[m] = a
      BY <1>1, <1>2, <1>3, <3>2, <3>3, <3>4 DEF Live
    <3> QED
      BY <3>1, <3>5
  <2> QED
    BY <2>2, <2>3
<1>9. ASSUME NEW a \in Addrs, u[a] # NULL, p[a] # 0
      PROVE  Live(u, p[a]) /\ (IsFirst(u, p, a) \/ Follows(u, a))
  <2>1. a # b /\ c[a] # NULL /\ p[a] = q[a] /\ q[a] # 0
    BY <1>1, <1>2, <1>9
  <2>2. Live(c, q[a]) /\ (IsFirst(c, q, a) \/ Follows(c, a))
    BY <2>1 DEF Families, Prevs
  <2>3. Live(u, p[a])
    BY <1>1, <2>1, <2>2 DEF Live
  <2>4. CASE a = n
    <3>1. n # 0 /\ q[b] # 0
      BY <1>4, <1>6, <2>1, <2>4
    <3>2. q[b] = q[a] /\ u[a].prev = back
      BY <1>3, <1>5, <2>1, <2>4, <3>1
    <3>3. Live(c, q[b]) /\ (IsFirst(c, q, b) \/ Follows(c, b))
      BY <3>1 DEF Families, Prevs
    <3>4. CASE IsFirst(c, q, b)
      <4>1. back = ChildrenOf(q[a]) /\ q[a] \in Addrs /\ c[q[a]] # NULL
        BY <3>2, <3>3, <3>4 DEF IsFirst, Live, back
      <4>2. u[q[a]].children = a
        BY <1>3, <2>4, <4>1
      <4> QED
        BY <2>1, <2>3, <3>2, <4>1, <4>2 DEF IsFirst
    <3>5. CASE Follows(c, b)
      <4>1. PICK e \in Addrs : c[e] # NULL /\ back = NextOf(e) /\ c[e].next = b
        BY <3>5 DEF Follows, back
      <4>2. e # b
        BY <1>4, <3>1, <4>1
      <4>3. u[e] # NULL /\ u[e].next = a
        BY <1>1, <1>3, <2>4, <4>1, <4>2
      <4> QED
        BY <2>3, <3>2, <4>1, <4>3 DEF Follows
    <3> QED
      BY <3>3, <3>4, <3>5
  <2>5. CASE a # n
    <3>1. u[a].prev = c[a].prev
      BY <1>3, <2>1, <2>5
    <3>2. CASE IsFirst(c, q, a)
      <4>1. c[q[a]].children = a /\ c[a].prev = ChildrenOf(q[a]) /\ q[a] \in Addrs /\ c[q[a]] # NULL
        BY <2>2, <3>2 DEF IsFirst, Live
      <4>2. back # ChildrenOf(q[a])
        BY <1>4, <2>1, <4>1
      <4>3. u[q[a]].children = a
        BY <1>3, <4>1, <4>2
      <4> QED
        BY <2>1, <2>3, <3>1, <4>1, <4>3 DEF IsFirst
    <3>3. CASE Follows(c, a)
      <4>1. PICK e \in Addrs : c[e] # NULL /\ c[a].prev = NextOf(e) /\ c[e].next = a
        BY <3>3 DEF Follows
      <4>2. e # b
        BY <2>5, <4>1 DEF n
      <4>3. back # NextOf(e)
        BY <1>4, <2>1, <4>1, <4>2
      <4>4. u[e] # NULL /\ u[e].next = a
        BY <1>1, <1>3, <4>1, <4>2, <4>3
      <4> QED
        BY <2>3, <3>1, <4>1, <4>4 DEF Follows
    <3> QED
      BY <2>2, <3>2, <3>3
  <2> QED
    BY <2>4, <2>5
<1>10. ASSUME NEW a \in Addrs, u[a] # NULL, p[a] = 0
       PROVE  u[a].prev = NextOf(a) /\ u[a].next \in {0, a}
  <2>1. CASE a = b
    BY <1>1, <1>3, <1>10, <2>1
  <2>2. CASE a # b
    <3>1. c[a] # NULL /\ q[a] = 0
      BY <1>1, <1>2, <1>10, <2>2
    <3>2. c[a].prev = NextOf(a) /\ c[a].next \in {0, a}
      BY <3>1 DEF Families, Roots
    <3>3. a # n
      BY <1>4, <1>5, <1>6, <2>2, <3>1
    <3>4. back # NextOf(a)
      BY <1>4, <2>2, <3>1 DEF HasNext
    <3> QED
      BY <1>3, <2>2, <3>1, <3>2, <3>3, <3>4
  <2> QED
    BY <2>1, <2>2
<1>11. Begins(u, p)
  <2>1. PICK r \in Ranks : Upwards(c, q, r)
    BY DEF Families, Begins
  <2>2. ASSUME NEW a \in Addrs, HasNext(u, p, a)
        PROVE  r[a] < r[u[a].next]
    <3>1. r[a] \in Nat /\ r[b] \in Nat /\ u[a].next \in Addrs /\ r[u[a].next] \in Nat
      BY <1>7, <2>2 DEF Ranks, Live
    <3> QED
      BY <1>7, <2>1, <2>2, <3>1 DEF Upwards
  <2> QED
    BY <2>2 DEF Begins, Upwards
<1>12. Ends(u, p)
  <2>1. PICK r \in Ranks : Downwards(c, q, r)
    BY DEF Families, Ends
  <2>2. ASSUME NEW a \in Addrs, HasNext(u, p, a)
        PROVE  r[u[a].next] < r[a]
    <3>1. r[a] \in Nat /\ r[b] \in Nat /\ u[a].next \in Addrs /\ r[u[a].next] \in Nat
      BY <1>7, <2>2 DEF Ranks, Live
    <3> QED
      BY <1>7, <2>1, <2>2, <3>1 DEF Downwards
  <2> QED
    BY <2>2 DEF Ends, Downwards
<1>13. Deep(u, p)
  <2>1. PICK d \in Ranks : Deeper(c, q, d)
    BY DEF Families, Deep
  <2>2. Deeper(u, p, d)
    BY <1>1, <1>2, <2>1 DEF Deeper
  <2> QED
    BY <2>2 DEF Deep
<1>14. Typed(u, p)
  BY <1>1, <1>2 DEF Typed, Cells
<1>15. Nexts(u, p) /\ Firsts(u, p) /\ Prevs(u, p) /\ Roots(u, p)
  BY <1>7, <1>8, <1>9, <1>10 DEF Nexts, Firsts, Prevs, Roots
<1>16. Families(u, p)
  BY <1>11, <1>12, <1>13, <1>14, <1>15 DEF Families
<1> QED
  BY <1>16 DEF u, p

-----------------------------------------------------------------------------
(* The second half of hattach: a block without parent becomes the first child of another. *)
Linked(c, p, b) ==
    [x \in Addrs |->
        IF c[x] = NULL THEN NULL
        ELSE [next |-> IF x = b THEN c[p].children ELSE c[x].next,
              prev |-> IF x = b THEN ChildrenOf(p) ELSE IF x = c[p].children THEN NextOf(b) ELSE c[x].prev,
              children |-> IF x = p THEN b ELSE c[x].children]]

(* The fields that hlist_add leaves. *)
LEMMA LinkedIs ==
    ASSUME NEW c, NEW p, NEW b, NEW x \in Addrs, c[x] # NULL
    PROVE  LET u == Linked(c, p, b) IN
           /\ u[x].next = IF x = b THEN c[p].children ELSE c[x].next
           /\ u[x].prev = IF x = b THEN ChildrenOf(p) ELSE IF x = c[p].children THEN NextOf(b) ELSE c[x].prev
           /\ u[x].children = IF x = p THEN b ELSE c[x].children
BY DEF Linked

(* hlist_add writes no memory but that of blocks. *)
LEMMA AddIs ==
    ASSUME NEW c \in Cells, NEW p \in Addrs, NEW b \in Addrs, c[b] # NULL, c[p] # NULL, p # b,
           c[p].children = 0 \/ c[c[p].children] # NULL
    PROVE  /\ hlist_add(On(c), p, b) = On(Linked(c, p, b)) /\ Linked(c, p, b) \in Cells
           /\ \A x \in Addrs : Linked(c, p, b)[x] = NULL <=> c[x] = NULL
<1> DEFINE n == c[p].children
           w0 == On(c)
           w1 == [w0 EXCEPT !.cells[b].next = n]
           w2 == SetPrev(w1, n, NextOf(b))
           w3 == [w2 EXCEPT !.cells[p].children = b]
           w4 == [w3 EXCEPT !.cells[b].prev = ChildrenOf(p)]
           h1 == [next |-> n, prev |-> c[b].prev, children |-> c[b].children]
           c1 == [c EXCEPT ![b] = h1]
           c2 == PrevPut(c1, n, NextOf(b))
           h3 == [next |-> c2[p].next, prev |-> c2[p].prev, children |-> b]
           c3 == [c2 EXCEPT ![p] = h3]
           h4 == [next |-> c3[b].next, prev |-> ChildrenOf(p), children |-> c3[b].children]
           c4 == [c3 EXCEPT ![b] = h4]
           f == FALSE
<1>1. hlist_add(On(c), p, b) = w4
  BY DEF hlist_add, On
<1>2. \A d : On(d) = [cells |-> d, wild |-> f]
  BY DEF On
<1>3. n \in 0..MaxAddr /\ b \in 0..MaxAddr /\ NextOf(b) \in Refs /\ ChildrenOf(p) \in Refs
  <2>1. n \in 0..MaxAddr
    BY CellIs
  <2>2. b \in 0..MaxAddr
    BY HallocAssumption DEF Addrs
  <2> QED
    BY <2>1, <2>2, CellsApart
<1> HIDE DEF f, n
<1>4. w1 = On(c1) /\ c1 \in Cells /\ \A x \in Addrs : c1[x] = NULL <=> c[x] = NULL
  <2>1. c[b] = [next |-> c[b].next, prev |-> c[b].prev, children |-> c[b].children]
        /\ DOMAIN c[b] = {"next", "prev", "children"}
        /\ c[b].prev \in Refs /\ c[b].children \in 0..MaxAddr
    BY CellIs
  <2>2. [c[b] EXCEPT !.next = n] = h1
    BY <2>1
  <2>3. h1 \in Headers
    BY <1>3, <2>1 DEF Headers
  <2> HIDE DEF h1
  <2>4. [c EXCEPT ![b].next = n] = c1
    BY <2>2 DEF Cells
  <2>5. w1 = [cells |-> [c EXCEPT ![b].next = n], wild |-> f]
    <3>1. w0 = [cells |-> c, wild |-> f]
      BY <1>2
    <3> HIDE DEF w0
    <3> QED
      BY <3>1
  <2>6. c1 \in Cells /\ \A x \in Addrs : c1[x] = NULL <=> c[x] = NULL
    BY <2>3, HallocAssumption DEF Cells
  <2> HIDE DEF c1, w1
  <2> QED
    BY <1>2, <2>4, <2>5, <2>6
<1> HIDE DEF w1
<1>5. w2 = On(c2) /\ c2 \in Cells /\ \A x \in Addrs : c2[x] = NULL <=> c1[x] = NULL
  <2>1. n = 0 \/ c1[n] # NULL
    <3>1. n = 0 \/ (n \in Addrs /\ c[n] # NULL)
      BY <1>3, AddrIs DEF n
    <3> HIDE DEF c1
    <3> QED
      BY <1>4, <3>1
  <2> HIDE DEF c1
  <2> QED
    BY <1>3, <1>4, <2>1, SetPrevIs
<1> HIDE DEF w2
<1>6. w3 = On(c3) /\ c3 \in Cells /\ \A x \in Addrs : c3[x] = NULL <=> c2[x] = NULL
  <2>0. c2[p] # NULL
    <3> HIDE DEF c2, c1
    <3> QED
      BY <1>4, <1>5
  <2> HIDE DEF c2
  <2>1. c2[p] = [next |-> c2[p].next, prev |-> c2[p].prev, children |-> c2[p].children]
        /\ DOMAIN c2[p] = {"next", "prev", "children"}
        /\ c2[p].prev \in Refs /\ c2[p].next \in 0..MaxAddr
    BY <1>5, <2>0, CellIs
  <2>2. [c2[p] EXCEPT !.children = b] = h3
    BY <2>1
  <2>3. h3 \in Headers
    BY <1>3, <2>1 DEF Headers
  <2> HIDE DEF h3
  <2>4. [c2 EXCEPT ![p].children = b] = c3
    BY <1>5, <2>2 DEF Cells
  <2>5. w3 = [cells |-> [c2 EXCEPT ![p].children = b], wild |-> f]
    <3>1. w2 = [cells |-> c2, wild |-> f]
      BY <1>2, <1>5
    <3> QED
      BY <3>1
  <2>6. c3 \in Cells /\ \A x \in Addrs : c3[x] = NULL <=> c2[x] = NULL
    BY <1>5, <2>0, <2>3, HallocAssumption DEF Cells
  <2> HIDE DEF c3, w3
  <2> QED
    BY <1>2, <2>4, <2>5, <2>6
<1> HIDE DEF w3
<1>7. w4 = On(c4) /\ c4 \in Cells /\ \A x \in Addrs : c4[x] = NULL <=> c3[x] = NULL
  <2>0. c3[b] # NULL
    <3> HIDE DEF c1, c2, c3
    <3> QED
      BY <1>4, <1>5, <1>6
  <2> HIDE DEF c3
  <2>1. c3[b] = [next |-> c3[b].next, prev |-> c3[b].prev, children |-> c3[b].children]
        /\ DOMAIN c3[b] = {"next", "prev", "children"}
        /\ c3[b].children \in 0..MaxAddr /\ c3[b].next \in 0..MaxAddr
    BY <1>6, <2>0, CellIs
  <2>2. [c3[b] EXCEPT !.prev = ChildrenOf(p)] = h4
    BY <2>1
  <2>3. h4 \in Headers
    BY <1>3, <2>1 DEF Headers
  <2> HIDE DEF h4
  <2>4. [c3 EXCEPT ![b].prev = ChildrenOf(p)] = c4
    BY <1>6, <2>2 DEF Cells
  <2>5. w4 = [cells |-> [c3 EXCEPT ![b].prev = ChildrenOf(p)], wild |-> f]
    <3>1. w3 = [cells |-> c3, wild |-> f]
      BY <1>2, <1>6
    <3> QED
      BY <3>1
  <2>6. c4 \in Cells /\ \A x \in Addrs : c4[x] = NULL <=> c3[x] = NULL
    BY <1>6, <2>0, <2>3, HallocAssumption DEF Cells
  <2> HIDE DEF c4, w4
  <2> QED
    BY <1>2, <2>4, <2>5, <2>6
<1>8. ASSUME NEW x \in Addrs
      PROVE  c4[x] = Linked(c, p, b)[x] /\ (c4[x] = NULL <=> c[x] = NULL)
  <2>0. c4[x] = NULL <=> c[x] = NULL
    <3> HIDE DEF c1, c2, c3, c4
    <3> QED
      BY <1>4, <1>5, <1>6, <1>7
  <2>1. CASE c[x] = NULL
    <3> HIDE DEF c4
    <3> QED
      BY <2>0, <2>1 DEF Linked
  <2>2. CASE c[x] # NULL
    <3>1. c1[x] = [next |-> IF x = b THEN n ELSE c[x].next, prev |-> c[x].prev, children |-> c[x].children]
      BY <2>2, CellIs DEF Cells
    <3>2. c1[x].next = (IF x = b THEN n ELSE c[x].next) /\ c1[x].prev = c[x].prev
          /\ c1[x].children = c[x].children
      BY <3>1
    <3>3. c2[x] = [next |-> IF x = b THEN n ELSE c[x].next, prev |-> IF x = n THEN NextOf(b) ELSE c[x].prev,
                   children |-> c[x].children]
      <4> HIDE DEF c1
      <4> QED
        BY <3>1, <3>2 DEF PrevPut
    <3>4. c2[x].next = (IF x = b THEN n ELSE c[x].next)
          /\ c2[x].prev = (IF x = n THEN NextOf(b) ELSE c[x].prev) /\ c2[x].children = c[x].children
      BY <3>3
    <3>5. c3[x] = [next |-> IF x = b THEN n ELSE c[x].next, prev |-> IF x = n THEN NextOf(b) ELSE c[x].prev,
                   children |-> IF x = p THEN b ELSE c[x].children]
      <4> HIDE DEF c2
      <4>1. c3[x] = IF x = p THEN h3 ELSE c2[x]
        BY <1>5 DEF Cells
      <4> QED
        BY <3>3, <3>4, <4>1
    <3>6. c3[x].next = (IF x = b THEN n ELSE c[x].next)
          /\ c3[x].children = (IF x = p THEN b ELSE c[x].children)
      <4> HIDE DEF c3
      <4> QED
        BY <3>5
    <3>7. c4[x] = [next |-> IF x = b THEN n ELSE c[x].next,
                   prev |-> IF x = b THEN ChildrenOf(p) ELSE IF x = n THEN NextOf(b) ELSE c[x].prev,
                   children |-> IF x = p THEN b ELSE c[x].children]
      <4> HIDE DEF c3
      <4>1. c4[x] = IF x = b THEN h4 ELSE c3[x]
        BY <1>6 DEF Cells
      <4> QED
        BY <3>5, <3>6, <4>1
    <3> HIDE DEF c4
    <3> QED
      BY <2>0, <2>2, <3>7 DEF Linked, n
  <2> QED
    BY <2>1, <2>2
<1>9. c4 = Linked(c, p, b)
  <2>1. Linked(c, p, b) = [x \in Addrs |-> Linked(c, p, b)[x]]
    BY DEF Linked
  <2> HIDE DEF c4
  <2>2. c4 = [x \in Addrs |-> c4[x]]
    BY <1>7 DEF Cells
  <2> QED
    BY <1>8, <2>1, <2>2
<1> HIDE DEF c4, w4
<1> QED
  BY <1>1, <1>7, <1>8, <1>9

(* Families stay sound when a block without parent is given one that is not of its family. *)
LEMMA Attached ==
    ASSUME NEW c, NEW q, Families(c, q), NEW b \in Addrs, c[b] # NULL, q[b] = 0,
           NEW p \in Addrs, c[p] # NULL, p # b, NEW F \in SUBSET Addrs, p \notin F,
           \A x \in Addrs : c[x] # NULL /\ (q[x] = b \/ q[x] \in F) => x \in F
    PROVE  Families(Linked(c, p, b), [q EXCEPT ![b] = p])
<1> DEFINE u == Linked(c, p, b)
           s == [q EXCEPT ![b] = p]
           h == c[p].children
<1>1. h # 0 => Live(c, h) /\ c[h].prev = ChildrenOf(p) /\ q[h] = p
  BY DEF Families, Firsts
<1>2. u \in Cells /\ \A x \in Addrs : u[x] = NULL <=> c[x] = NULL
  <2>1. c \in Cells
    BY DEF Families, Typed, Cells
  <2>2. h = 0 \/ c[h] # NULL
    BY <1>1 DEF Live
  <2> QED
    BY <2>1, <2>2, AddIs
<1>3. q \in [Addrs -> 0..MaxAddr] /\ s \in [Addrs -> 0..MaxAddr]
      /\ \A x \in Addrs : s[x] = IF x = b THEN p ELSE q[x]
  BY HallocAssumption DEF Families, Typed, Addrs
<1>4. ASSUME NEW x \in Addrs, c[x] # NULL
      PROVE  /\ u[x].next = IF x = b THEN h ELSE c[x].next
             /\ u[x].prev = IF x = b THEN ChildrenOf(p) ELSE IF x = h THEN NextOf(b) ELSE c[x].prev
             /\ u[x].children = IF x = p THEN b ELSE c[x].children
  BY <1>4, LinkedIs
<1>5. 0 \notin Addrs /\ p # 0 /\ b # 0
  BY HallocAssumption DEF Addrs
<1>6. h # b
  BY <1>1, <1>5
<1> HIDE DEF u, s, h
<1>7. ASSUME NEW a \in Addrs, HasNext(u, s, a)
      PROVE  /\ Live(u, u[a].next) /\ u[u[a].next].prev = NextOf(a) /\ s[u[a].next] = s[a]
             /\ u[a].next # b
             /\ \/ a = b /\ u[a].next = h
                \/ a # b /\ HasNext(c, q, a) /\ u[a].next = c[a].next
  <2>1. c[a] # NULL /\ u[a].next # 0
    BY <1>2, <1>7 DEF HasNext
  <2>2. CASE a = b
    <3>1. u[a].next = h /\ h # 0 /\ Live(c, h) /\ q[h] = p
      BY <1>1, <1>4, <2>1, <2>2 DEF h
    <3>2. Live(u, h) /\ u[h].prev = NextOf(b) /\ s[h] = p
      BY <1>2, <1>3, <1>4, <1>6, <3>1 DEF Live
    <3> QED
      BY <1>3, <1>6, <2>2, <3>1, <3>2
  <2>3. CASE a # b
    <3> DEFINE m == c[a].next
    <3>1. u[a].next = m /\ HasNext(c, q, a) /\ s[a] = q[a]
      BY <1>3, <1>4, <1>7, <2>1, <2>3 DEF HasNext
    <3>2. Live(c, m) /\ c[m].prev = NextOf(a) /\ q[m] = q[a] /\ q[a] # 0
      BY <3>1 DEF Families, Nexts, HasNext
    <3>3. m # b
      BY <3>2
    <3>4. m # h
      BY <1>1, <1>5, <3>2, CellsApart DEF h, Live
    <3>5. Live(u, m) /\ u[m].prev = NextOf(a) /\ s[m] = q[a]
      BY <1>2, <1>3, <1>4, <3>2, <3>3, <3>4 DEF Live
    <3> QED
      BY <2>3, <3>1, <3>3, <3>5
  <2> QED
    BY <2>2, <2>3
<1>8. ASSUME NEW a \in Addrs, u[a] # NULL, u[a].children # 0
      PROVE  Live(u, u[a].children) /\ u[u[a].children].prev = ChildrenOf(a) /\ s[u[a].children] = a
  <2>1. c[a] # NULL
    BY <1>2, <1>8
  <2>2. CASE a = p
    BY <1>2, <1>3, <1>4, <2>1, <2>2 DEF Live
  <2>3. CASE a # p
    <3> DEFINE m == c[a].children
    <3>1. u[a].children = m
      BY <1>4, <2>1, <2>3
    <3>2. Live(c, m) /\ c[m].prev = ChildrenOf(a) /\ q[m] = a
      BY <1>8, <2>1, <3>1 DEF Families, Firsts
    <3>3. m # b /\ m # h
      BY <1>1, <1>5, <2>3, <3>2 DEF h, Live
    <3>4. Live(u, m) /\ u[m].prev = ChildrenOf(a) /\ s[m] = a
      BY <1>2, <1>3, <1>4, <3>2, <3>3 DEF Live
    <3> QED
      BY <3>1, <3>4
  <2> QED
    BY <2>2, <2>3
<1>9. ASSUME NEW a \in Addrs, u[a] # NULL, s[a] # 0
      PROVE  Live(u, s[a]) /\ (IsFirst(u, s, a) \/ Follows(u, a))
  <2>1. c[a] # NULL
    BY <1>2, <1>9
  <2>2. CASE a = b
    BY <1>2, <1>3, <1>4, <2>1, <2>2 DEF Live, IsFirst
  <2>3. CASE a # b
    <3>1. s[a] = q[a] /\ q[a] # 0
      BY <1>3, <1>9, <2>3
    <3>2. Live(c, q[a]) /\ (IsFirst(c, q, a) \/ Follows(c, a))
      BY <2>1, <3>1 DEF Families, Prevs
    <3>3. Live(u, s[a])
      BY <1>2, <3>1, <3>2 DEF Live
    <3>4. CASE a = h
      <4>1. u[a].prev = NextOf(b)
        BY <1>4, <2>1, <2>3, <3>4
      <4>2. u[b] # NULL /\ u[b].next = a
        BY <1>2, <1>4, <3>4
      <4> QED
        BY <3>3, <4>1, <4>2 DEF Follows
    <3>5. CASE a # h
      <4>1. u[a].prev = c[a].prev
        BY <1>4, <2>1, <2>3, <3>5
      <4>2. CASE IsFirst(c, q, a)
        <5>1. c[a].prev = ChildrenOf(q[a]) /\ c[q[a]].children = a /\ q[a] # p
          BY <3>5, <4>2 DEF IsFirst, h
        <5>2. u[q[a]].children = a
          BY <1>4, <3>2, <5>1 DEF Live
        <5> QED
          BY <3>1, <3>3, <4>1, <5>1, <5>2 DEF IsFirst
      <4>3. CASE Follows(c, a)
        <5>1. PICK e \in Addrs : c[e] # NULL /\ c[a].prev = NextOf(e) /\ c[e].next = a
          BY <4>3 DEF Follows
        <5>2. e # b
          BY <2>1, <3>1, <5>1, Sibling
        <5>3. u[e] # NULL /\ u[e].next = a
          BY <1>2, <1>4, <5>1, <5>2
        <5> QED
          BY <3>3, <4>1, <5>1, <5>3 DEF Follows
      <4> QED
        BY <3>2, <4>2, <4>3
    <3> QED
      BY <3>4, <3>5
  <2> QED
    BY <2>2, <2>3
<1>10. ASSUME NEW a \in Addrs, u[a] # NULL, s[a] = 0
       PROVE  u[a].prev = NextOf(a) /\ u[a].next \in {0, a}
  <2>1. a # b /\ c[a] # NULL /\ q[a] = 0
    BY <1>2, <1>3, <1>5, <1>10
  <2>2. c[a].prev = NextOf(a) /\ c[a].next \in {0, a}
    BY <2>1 DEF Families, Roots
  <2>3. a # h
    BY <1>1, <1>5, <2>1 DEF h
  <2> QED
    BY <1>4, <2>1, <2>2, <2>3
<1>11. Begins(u, s)
  <2>1. PICK r \in Ranks : Upwards(c, q, r)
    BY DEF Families, Begins
  <2> DEFINE r2 == [x \in Addrs |-> IF x = b THEN 0 ELSE r[x] + 1]
  <2>2. \A x \in Addrs : r[x] \in Nat /\ r2[x] \in Nat /\ r2[x] = IF x = b THEN 0 ELSE r[x] + 1
    BY <2>1 DEF Ranks
  <2>3. r2 \in Ranks
    BY <2>2 DEF Ranks
  <2> HIDE DEF r2
  <2>4. ASSUME NEW a \in Addrs, HasNext(u, s, a)
        PROVE  r2[a] < r2[u[a].next]
    <3>1. u[a].next \in Addrs /\ u[a].next # b
      BY <1>7, <2>4 DEF Live
    <3>2. a # b => r[a] < r[u[a].next]
      BY <1>7, <2>1, <2>4 DEF Upwards
    <3> QED
      BY <2>2, <3>1, <3>2
  <2> QED
    BY <2>3, <2>4 DEF Begins, Upwards
<1>12. Ends(u, s)
  <2>1. PICK r \in Ranks : Downwards(c, q, r)
    BY DEF Families, Ends
  <2> DEFINE r2 == [x \in Addrs |-> IF x = b THEN IF h = 0 THEN 0 ELSE r[h] + 1 ELSE r[x]]
  <2>2. \A x \in Addrs : r[x] \in Nat
    BY <2>1 DEF Ranks
  <2>3. h # 0 => h \in Addrs
    BY <1>1 DEF h, Live
  <2>4. \A x \in Addrs : r2[x] \in Nat /\ r2[x] = IF x = b THEN IF h = 0 THEN 0 ELSE r[h] + 1 ELSE r[x]
    BY <2>2, <2>3
  <2>5. r2 \in Ranks
    BY <2>4 DEF Ranks
  <2> HIDE DEF r2
  <2>6. ASSUME NEW a \in Addrs, HasNext(u, s, a)
        PROVE  r2[u[a].next] < r2[a]
    <3>1. u[a].next \in Addrs /\ u[a].next # b
      BY <1>7, <2>6 DEF Live
    <3>2. a # b => r[u[a].next] < r[a]
      BY <1>7, <2>1, <2>6 DEF Downwards
    <3>3. a = b => u[a].next = h /\ h # 0
      BY <1>7, <2>6 DEF HasNext
    <3> QED
      BY <2>2, <2>4, <3>1, <3>2, <3>3
  <2> QED
    BY <2>5, <2>6 DEF Ends, Downwards
<1>13. Deep(u, s)
  <2>1. PICK d \in Ranks : Deeper(c, q, d)
    BY DEF Families, Deep
  <2> DEFINE d2 == [x \in Addrs |-> IF x = b \/ x \in F THEN d[x] + d[p] + 1 ELSE d[x]]
  <2>2. \A x \in Addrs : d[x] \in Nat
    BY <2>1 DEF Ranks
  <2>3. \A x \in Addrs : d2[x] \in Nat /\ d2[x] = IF x = b \/ x \in F THEN d[x] + d[p] + 1 ELSE d[x]
    BY <2>2
  <2>4. d2 \in Ranks
    BY <2>3 DEF Ranks
  <2> HIDE DEF d2
  <2>5. ASSUME NEW a \in Addrs, u[a] # NULL, s[a] # 0
        PROVE  d2[s[a]] < d2[a]
    <3>1. CASE a = b
      BY <1>3, <2>2, <2>3, <3>1
    <3>2. CASE a # b
      <4>1. c[a] # NULL /\ s[a] = q[a] /\ q[a] # 0
        BY <1>2, <1>3, <2>5, <3>2
      <4>2. q[a] \in Addrs
        BY <4>1 DEF Families, Prevs, Live
      <4>3. d[q[a]] < d[a]
        BY <2>1, <4>1 DEF Deeper
      <4>4. q[a] = b \/ q[a] \in F => a \in F
        BY <4>1
      <4> QED
        BY <2>2, <2>3, <4>1, <4>2, <4>3, <4>4
    <3> QED
      BY <3>1, <3>2
  <2> QED
    BY <2>4, <2>5 DEF Deep, Deeper
<1>14. Typed(u, s)
  BY <1>2, <1>3 DEF Typed, Cells
<1>15. Nexts(u, s) /\ Firsts(u, s) /\ Prevs(u, s) /\ Roots(u, s)
  BY <1>7, <1>8, <1>9, <1>10 DEF Nexts, Firsts, Prevs, Roots
<1>16. Families(u, s)
  BY <1>11, <1>12, <1>13, <1>14, <1>15 DEF Families
<1> QED
  BY <1>16 DEF u, s

-----------------------------------------------------------------------------
(* halloc(NULL, len): families stay sound with a block where nothing was allocated. *)
LEMMA Allocated ==
    ASSUME NEW c, NEW q, Families(c, q), NEW b \in Addrs, c[b] = NULL
    PROVE  Families([c EXCEPT ![b] = FreshBlock(b)], [q EXCEPT ![b] = 0])
<1> DEFINE u == [c EXCEPT ![b] = FreshBlock(b)]
           s == [q EXCEPT ![b] = 0]
<1>1. FreshBlock(b) \in Headers /\ FreshBlock(b) # NULL
      /\ FreshBlock(b).next = 0 /\ FreshBlock(b).prev = NextOf(b) /\ FreshBlock(b).children = 0
  <2>1. FreshBlock(b) \in Headers
    BY HallocAssumption, CellsApart DEF FreshBlock, Headers
  <2> QED
    BY <2>1, HallocAssumption DEF FreshBlock
<1>2. \A x \in Addrs : u[x] = IF x = b THEN FreshBlock(b) ELSE c[x]
  BY DEF Families, Typed
<1>3. \A x \in Addrs : s[x] = IF x = b THEN 0 ELSE q[x]
  BY DEF Families, Typed
<1>4. Typed(u, s)
  BY <1>1, HallocAssumption DEF Families, Typed
<1> HIDE DEF u, s
<1>5. \A x : Live(c, x) => x # b /\ Live(u, x) /\ u[x] = c[x]
  BY <1>2 DEF Live
<1>6. \A x \in Addrs : u[x] # NULL => x = b \/ (x # b /\ Live(c, x) /\ u[x] = c[x] /\ s[x] = q[x])
  BY <1>2, <1>3 DEF Live
<1>7. ASSUME NEW a \in Addrs, HasNext(u, s, a)
      PROVE  a # b /\ HasNext(c, q, a) /\ u[a] = c[a] /\ s[a] = q[a]
  BY <1>3, <1>6, <1>7 DEF HasNext
<1>8. Nexts(u, s)
  <2> SUFFICES ASSUME NEW a \in Addrs, HasNext(u, s, a)
               PROVE  Live(u, u[a].next) /\ u[u[a].next].prev = NextOf(a) /\ s[u[a].next] = s[a]
    BY DEF Nexts
  <2>1. Live(c, c[a].next) /\ c[c[a].next].prev = NextOf(a) /\ q[c[a].next] = q[a]
    BY <1>7 DEF Families, Nexts
  <2> QED
    BY <1>3, <1>5, <1>7, <2>1 DEF Live
<1>9. Firsts(u, s)
  <2> SUFFICES ASSUME NEW a \in Addrs, u[a] # NULL, u[a].children # 0
               PROVE  Live(u, u[a].children) /\ u[u[a].children].prev = ChildrenOf(a) /\ s[u[a].children] = a
    BY DEF Firsts
  <2>1. a # b
    BY <1>1, <1>2
  <2>2. Live(c, c[a].children) /\ c[c[a].children].prev = ChildrenOf(a) /\ q[c[a].children] = a
    BY <1>2, <2>1 DEF Families, Firsts
  <2>3. u[a] = c[a]
    BY <1>2, <2>1
  <2> QED
    BY <1>3, <1>5, <2>2, <2>3 DEF Live
<1>10. Prevs(u, s)
  <2> SUFFICES ASSUME NEW a \in Addrs, u[a] # NULL, s[a] # 0
               PROVE  Live(u, s[a]) /\ (IsFirst(u, s, a) \/ Follows(u, a))
    BY DEF Prevs
  <2>1. a # b /\ c[a] # NULL /\ u[a] = c[a] /\ s[a] = q[a]
    BY <1>2, <1>3
  <2>2. Live(c, q[a]) /\ (IsFirst(c, q, a) \/ Follows(c, a))
    BY <2>1 DEF Families, Prevs
  <2>3. IsFirst(c, q, a) => IsFirst(u, s, a)
    BY <1>5, <2>1, <2>2 DEF IsFirst
  <2>4. Follows(c, a) => Follows(u, a)
    BY <1>5, <2>1 DEF Follows, Live
  <2> QED
    BY <1>5, <2>1, <2>2, <2>3, <2>4
<1>11. Roots(u, s)
  BY <1>1, <1>2, <1>3 DEF Families, Roots
<1>12. Begins(u, s)
  BY <1>7 DEF Families, Begins, Upwards
<1>13. Ends(u, s)
  BY <1>7 DEF Families, Ends, Downwards
<1>14. Deep(u, s)
  BY <1>2, <1>3 DEF Families, Deep, Deeper
<1>15. Families(u, s)
  BY <1>4, <1>8, <1>9, <1>10, <1>11, <1>12, <1>13, <1>14 DEF Families
<1> QED
  BY <1>15 DEF u, s

-----------------------------------------------------------------------------
(* halloc(ptr, 0): families stay sound without some whole ones. *)
Without(c, S) == [x \in Addrs |-> IF x \in S THEN NULL ELSE c[x]]

(* Whoever stays has its parent and its siblings, if the set is closed under children and siblings. *)
LEMMA Pruned ==
    ASSUME NEW c, NEW q, Families(c, q), NEW S \in SUBSET Addrs,
           \A x \in Addrs : c[x] # NULL /\ q[x] \in S => x \in S,
           \A x \in S : c[x] # NULL => q[x] \in S \cup {0}
    PROVE  Families(Without(c, S), q)
<1> DEFINE u == Without(c, S)
<1>1. \A x \in Addrs : u[x] = IF x \in S THEN NULL ELSE c[x]
  BY DEF Without
<1>2. Typed(u, q)
  BY DEF Families, Typed, Without
<1> HIDE DEF u
<1>3. \A x \in Addrs : u[x] # NULL => x \notin S /\ Live(c, x) /\ u[x] = c[x]
  BY <1>1 DEF Live
<1>4. \A x : Live(c, x) /\ x \notin S => Live(u, x) /\ u[x] = c[x]
  BY <1>1 DEF Live
<1>5. \A x \in Addrs : u[x] # NULL => q[x] \notin S
  BY <1>3 DEF Live
<1>6. ASSUME NEW a \in Addrs, HasNext(u, q, a)
      PROVE  HasNext(c, q, a) /\ u[a] = c[a]
  BY <1>3, <1>6 DEF HasNext
<1>7. Nexts(u, q)
  <2> SUFFICES ASSUME NEW a \in Addrs, HasNext(u, q, a)
               PROVE  Live(u, u[a].next) /\ u[u[a].next].prev = NextOf(a) /\ q[u[a].next] = q[a]
    BY DEF Nexts
  <2>1. Live(c, c[a].next) /\ c[c[a].next].prev = NextOf(a) /\ q[c[a].next] = q[a]
    BY <1>6 DEF Families, Nexts
  <2>2. c[a].next \notin S
    BY <1>5, <2>1 DEF HasNext, Live
  <2> QED
    BY <1>4, <1>6, <2>1, <2>2
<1>8. Firsts(u, q)
  <2> SUFFICES ASSUME NEW a \in Addrs, u[a] # NULL, u[a].children # 0
               PROVE  Live(u, u[a].children) /\ u[u[a].children].prev = ChildrenOf(a) /\ q[u[a].children] = a
    BY DEF Firsts
  <2>1. a \notin S /\ u[a] = c[a]
    BY <1>3
  <2>2. Live(c, c[a].children) /\ c[c[a].children].prev = ChildrenOf(a) /\ q[c[a].children] = a
    BY <2>1 DEF Families, Firsts
  <2>3. a # 0
    BY HallocAssumption DEF Addrs
  <2>4. c[a].children \notin S
    BY <2>1, <2>2, <2>3 DEF Live
  <2> QED
    BY <1>4, <2>1, <2>2, <2>4
<1>9. Prevs(u, q)
  <2> SUFFICES ASSUME NEW a \in Addrs, u[a] # NULL, q[a] # 0
               PROVE  Live(u, q[a]) /\ (IsFirst(u, q, a) \/ Follows(u, a))
    BY DEF Prevs
  <2>1. u[a] = c[a] /\ c[a] # NULL /\ q[a] \notin S
    BY <1>3, <1>5 DEF Live
  <2>2. Live(c, q[a]) /\ (IsFirst(c, q, a) \/ Follows(c, a))
    BY <2>1 DEF Families, Prevs
  <2>3. Live(u, q[a]) /\ u[q[a]] = c[q[a]]
    BY <1>4, <2>1, <2>2
  <2>4. IsFirst(c, q, a) => IsFirst(u, q, a)
    BY <2>1, <2>3 DEF IsFirst
  <2>5. ASSUME Follows(c, a)
        PROVE  Follows(u, a)
    <3>1. PICK e \in Addrs : c[e] # NULL /\ c[a].prev = NextOf(e) /\ c[e].next = a
      BY <2>5 DEF Follows
    <3>2. q[e] = q[a]
      BY <2>1, <3>1, Sibling
    <3>3. e \notin S
      BY <2>1, <3>1, <3>2
    <3>4. u[e] = c[e]
      BY <1>1, <3>3
    <3> QED
      BY <2>1, <3>1, <3>4 DEF Follows
  <2> QED
    BY <2>2, <2>3, <2>4, <2>5
<1>10. Roots(u, q)
  BY <1>3 DEF Families, Roots, Live
<1>11. Begins(u, q)
  BY <1>6 DEF Families, Begins, Upwards
<1>12. Ends(u, q)
  BY <1>6 DEF Families, Ends, Downwards
<1>13. Deep(u, q)
  BY <1>3 DEF Families, Deep, Deeper, Live
<1>14. Families(u, q)
  BY <1>2, <1>7, <1>8, <1>9, <1>10, <1>11, <1>12, <1>13 DEF Families
<1> QED
  BY <1>14 DEF u

-----------------------------------------------------------------------------
(* halloc(ptr, len): a block that moves changes its name, and every pointer to it is told. *)
Swap(from, to, v) == IF v = from THEN to ELSE IF v = to THEN from ELSE v

Renamed(c, from, to) ==
    [x \in Addrs |->
        LET h == c[Swap(from, to, x)] IN
        IF h = NULL THEN NULL
        ELSE [next |-> Swap(from, to, h.next),
              prev |-> [cell |-> h.prev.cell, of |-> Swap(from, to, h.prev.of)],
              children |-> Swap(from, to, h.children)]]

(* The names are swapped. *)
LEMMA SwapIs ==
    ASSUME NEW from \in Addrs, NEW to \in Addrs
    PROVE  /\ \A v \in Addrs : Swap(from, to, v) \in Addrs
           /\ \A v \in 0..MaxAddr : Swap(from, to, v) \in 0..MaxAddr
           /\ \A v : Swap(from, to, Swap(from, to, v)) = v
           /\ \A v, w : Swap(from, to, v) = Swap(from, to, w) => v = w
           /\ Swap(from, to, 0) = 0
           /\ \A v : v = 0 <=> Swap(from, to, v) = 0
<1>1. from \in 0..MaxAddr /\ to \in 0..MaxAddr /\ from # 0 /\ to # 0
  BY HallocAssumption DEF Addrs
<1>2. \A v : Swap(from, to, Swap(from, to, v)) = v
  BY DEF Swap
<1>3. \A v, w : Swap(from, to, v) = Swap(from, to, w) => v = w
  BY DEF Swap
<1>4. /\ \A v \in Addrs : Swap(from, to, v) \in Addrs
      /\ \A v \in 0..MaxAddr : Swap(from, to, v) \in 0..MaxAddr
  BY <1>1 DEF Swap
<1>5. Swap(from, to, 0) = 0 /\ \A v : v = 0 <=> Swap(from, to, v) = 0
  BY <1>1 DEF Swap
<1> QED
  BY <1>2, <1>3, <1>4, <1>5

(* The fields of a block under its new name. *)
Under(h, g, from, to) ==
    /\ h.next = Swap(from, to, g.next)
    /\ h.children = Swap(from, to, g.children)
    /\ \A a \in Addrs : g.prev = NextOf(a) => h.prev = NextOf(Swap(from, to, a))
    /\ \A a \in Addrs : g.prev = ChildrenOf(a) => h.prev = ChildrenOf(Swap(from, to, a))

(* A block is under its new name what it was under the old one. *)
LEMMA RenamedIs ==
    ASSUME NEW c \in Cells, NEW from \in Addrs, NEW to \in Addrs
    PROVE  /\ Renamed(c, from, to) \in Cells
           /\ \A x \in Addrs :
                /\ Renamed(c, from, to)[Swap(from, to, x)] = NULL <=> c[x] = NULL
                /\ c[x] # NULL =>
                     Under(Renamed(c, from, to)[Swap(from, to, x)], c[x], from, to)
<1> DEFINE u == Renamed(c, from, to)
           S(v) == Swap(from, to, v)
           H(x) == [next |-> S(c[x].next), prev |-> [cell |-> c[x].prev.cell, of |-> S(c[x].prev.of)],
                    children |-> S(c[x].children)]
<1>1. ASSUME NEW x \in Addrs, c[x] # NULL
      PROVE  H(x) \in Headers /\ H(x) # NULL
  <2>1. c[x].next \in 0..MaxAddr /\ c[x].children \in 0..MaxAddr /\ c[x].prev \in Refs
    BY <1>1, CellIs
  <2>2. S(c[x].next) \in 0..MaxAddr /\ S(c[x].children) \in 0..MaxAddr
    BY <2>1, SwapIs
  <2>3. S(c[x].prev.of) \in Addrs /\ c[x].prev.cell \in {"next", "children"}
    BY <2>1, SwapIs DEF Refs
  <2> HIDE DEF S
  <2>4. H(x) \in Headers
    BY <2>2, <2>3 DEF Headers, Refs
  <2> HIDE DEF H
  <2> QED
    BY <2>4, HallocAssumption
<1>2. \A x \in Addrs : S(x) \in Addrs /\ S(S(x)) = x
  BY SwapIs
<1>3. \A x \in Addrs : u[x] = IF c[S(x)] = NULL THEN NULL ELSE H(S(x))
  BY DEF Renamed
<1>4. u = [x \in Addrs |-> u[x]]
  BY DEF Renamed
<1> HIDE DEF u, S, H
<1>5. u \in Cells
  <2>1. \A x \in Addrs : u[x] \in Headers \cup {NULL}
    BY <1>1, <1>2, <1>3
  <2> QED
    BY <1>4, <2>1 DEF Cells
<1>6. ASSUME NEW x \in Addrs
      PROVE  /\ u[S(x)] = NULL <=> c[x] = NULL
             /\ c[x] # NULL => Under(u[S(x)], c[x], from, to)
  <2>1. u[S(x)] = IF c[x] = NULL THEN NULL ELSE H(x)
    BY <1>2, <1>3
  <2>2. u[S(x)] = NULL <=> c[x] = NULL
    BY <1>1, <2>1
  <2>3. ASSUME c[x] # NULL
        PROVE  /\ u[S(x)].next = S(c[x].next)
               /\ u[S(x)].children = S(c[x].children)
               /\ u[S(x)].prev = [cell |-> c[x].prev.cell, of |-> S(c[x].prev.of)]
    BY <2>1, <2>3 DEF H
  <2>4. ASSUME c[x] # NULL, NEW a \in Addrs, c[x].prev = NextOf(a)
        PROVE  u[S(x)].prev = NextOf(S(a))
    BY <2>3, <2>4 DEF NextOf
  <2>5. ASSUME c[x] # NULL, NEW a \in Addrs, c[x].prev = ChildrenOf(a)
        PROVE  u[S(x)].prev = ChildrenOf(S(a))
    BY <2>3, <2>5 DEF ChildrenOf
  <2> QED
    BY <2>2, <2>3, <2>4, <2>5 DEF Under, S
<1> QED
  BY <1>5, <1>6 DEF u, S

(* Families stay sound. *)
LEMMA RenamedSound ==
    ASSUME NEW c, NEW q, Families(c, q), NEW from \in Addrs, NEW to \in Addrs,
           NEW p \in [Addrs -> 0..MaxAddr],
           \A x \in Addrs : c[x] # NULL => p[Swap(from, to, x)] = Swap(from, to, q[x])
    PROVE  Families(Renamed(c, from, to), p)
<1> DEFINE u == Renamed(c, from, to)
           S(v) == Swap(from, to, v)
<1>1. c \in Cells /\ q \in [Addrs -> 0..MaxAddr]
  BY DEF Families, Typed, Cells
<1>2. u \in Cells
  BY <1>1, RenamedIs
<1>3. ASSUME NEW x \in Addrs
      PROVE  /\ u[S(x)] = NULL <=> c[x] = NULL
             /\ c[x] # NULL =>
                  /\ u[S(x)].next = S(c[x].next) /\ u[S(x)].children = S(c[x].children)
                  /\ \A a \in Addrs : c[x].prev = NextOf(a) => u[S(x)].prev = NextOf(S(a))
                  /\ \A a \in Addrs : c[x].prev = ChildrenOf(a) => u[S(x)].prev = ChildrenOf(S(a))
                  /\ p[S(x)] = S(q[x])
  <2>1. u[S(x)] = NULL <=> c[x] = NULL
    BY <1>1, RenamedIs
  <2>2. c[x] # NULL => Under(u[S(x)], c[x], from, to)
    BY <1>1, RenamedIs
  <2> HIDE DEF u
  <2>3. c[x] # NULL =>
           /\ u[S(x)].next = S(c[x].next) /\ u[S(x)].children = S(c[x].children)
           /\ \A a \in Addrs : c[x].prev = NextOf(a) => u[S(x)].prev = NextOf(S(a))
           /\ \A a \in Addrs : c[x].prev = ChildrenOf(a) => u[S(x)].prev = ChildrenOf(S(a))
    BY <2>2 DEF Under
  <2> QED
    BY <2>1, <2>3
<1>4. /\ \A v \in Addrs : S(v) \in Addrs
      /\ \A v : S(S(v)) = v
      /\ \A v : v = 0 <=> S(v) = 0
  BY SwapIs
<1>5. \A a \in Addrs : S(a) \in Addrs /\ a = S(S(a))
  BY <1>4
<1> HIDE DEF u, S
<1>6. ASSUME NEW a \in Addrs, HasNext(u, p, a)
      PROVE  HasNext(c, q, S(a)) /\ u[a].next = S(c[S(a)].next)
  <2>1. S(a) \in Addrs /\ c[S(a)] # NULL /\ u[a].next = S(c[S(a)].next) /\ p[a] = S(q[S(a)])
    BY <1>3, <1>5, <1>6 DEF HasNext
  <2> QED
    BY <1>4, <1>6, <2>1 DEF HasNext
<1>7. \A v : Live(c, v) => Live(u, S(v))
  BY <1>3, <1>4 DEF Live
<1>8. Nexts(u, p)
  <2> SUFFICES ASSUME NEW a \in Addrs, HasNext(u, p, a)
               PROVE  Live(u, u[a].next) /\ u[u[a].next].prev = NextOf(a) /\ p[u[a].next] = p[a]
    BY DEF Nexts
  <2> DEFINE x == S(a)
             n == c[x].next
  <2>1. x \in Addrs /\ S(x) = a /\ HasNext(c, q, x) /\ u[a].next = S(n)
    BY <1>5, <1>6
  <2>2. Live(c, n) /\ c[n].prev = NextOf(x) /\ q[n] = q[x] /\ c[x] # NULL
    BY <2>1 DEF Families, Nexts, HasNext
  <2> HIDE DEF n, x
  <2>3. u[S(n)].prev = NextOf(a) /\ p[S(n)] = S(q[n]) /\ p[a] = S(q[x])
    BY <1>3, <2>1, <2>2 DEF Live
  <2> QED
    BY <1>7, <2>1, <2>2, <2>3
<1>9. Firsts(u, p)
  <2> SUFFICES ASSUME NEW a \in Addrs, u[a] # NULL, u[a].children # 0
               PROVE  Live(u, u[a].children) /\ u[u[a].children].prev = ChildrenOf(a) /\ p[u[a].children] = a
    BY DEF Firsts
  <2> DEFINE x == S(a)
             f == c[x].children
  <2>1. x \in Addrs /\ S(x) = a
    BY <1>5
  <2>2. c[x] # NULL /\ u[a].children = S(f) /\ f # 0
    BY <1>3, <1>4, <2>1
  <2>3. Live(c, f) /\ c[f].prev = ChildrenOf(x) /\ q[f] = x
    BY <2>1, <2>2 DEF Families, Firsts
  <2> HIDE DEF f, x
  <2>4. u[S(f)].prev = ChildrenOf(a) /\ p[S(f)] = a
    BY <1>3, <2>1, <2>3 DEF Live
  <2> QED
    BY <1>7, <2>2, <2>3, <2>4
<1>10. Prevs(u, p)
  <2> SUFFICES ASSUME NEW a \in Addrs, u[a] # NULL, p[a] # 0
               PROVE  Live(u, p[a]) /\ (IsFirst(u, p, a) \/ Follows(u, a))
    BY DEF Prevs
  <2> DEFINE x == S(a)
  <2>1. x \in Addrs /\ S(x) = a
    BY <1>5
  <2>2. c[x] # NULL /\ p[a] = S(q[x]) /\ q[x] # 0
    BY <1>3, <1>4, <2>1
  <2> HIDE DEF x
  <2>3. Live(c, q[x]) /\ (IsFirst(c, q, x) \/ Follows(c, x))
    BY <2>1, <2>2 DEF Families, Prevs
  <2>4. ASSUME IsFirst(c, q, x)
        PROVE  IsFirst(u, p, a)
    <3>1. c[x].prev = ChildrenOf(q[x]) /\ c[q[x]].children = x /\ q[x] \in Addrs /\ c[q[x]] # NULL
      BY <2>3, <2>4 DEF IsFirst, Live
    <3>2. u[a].prev = ChildrenOf(S(q[x]))
      BY <1>3, <2>1, <2>2, <3>1
    <3>3. u[S(q[x])].children = a
      BY <1>3, <2>1, <3>1
    <3> QED
      BY <2>2, <3>2, <3>3 DEF IsFirst
  <2>5. ASSUME Follows(c, x)
        PROVE  Follows(u, a)
    <3>1. PICK e \in Addrs : c[e] # NULL /\ c[x].prev = NextOf(e) /\ c[e].next = x
      BY <2>5 DEF Follows
    <3>2. u[a].prev = NextOf(S(e)) /\ u[S(e)].next = a /\ u[S(e)] # NULL /\ S(e) \in Addrs
      BY <1>3, <1>4, <2>1, <2>2, <3>1
    <3> QED
      BY <3>2 DEF Follows
  <2> QED
    BY <1>7, <2>2, <2>3, <2>4, <2>5
<1>11. Roots(u, p)
  <2> SUFFICES ASSUME NEW a \in Addrs, u[a] # NULL, p[a] = 0
               PROVE  u[a].prev = NextOf(a) /\ u[a].next \in {0, a}
    BY DEF Roots
  <2> DEFINE x == S(a)
  <2>1. x \in Addrs /\ S(x) = a
    BY <1>5
  <2>2. c[x] # NULL /\ q[x] = 0
    BY <1>3, <1>4, <2>1
  <2>3. c[x].prev = NextOf(x) /\ c[x].next \in {0, x}
    BY <2>1, <2>2 DEF Families, Roots
  <2> HIDE DEF x
  <2> QED
    BY <1>3, <1>4, <2>1, <2>2, <2>3
<1>12. ASSUME NEW r \in Ranks
       PROVE  /\ [x \in Addrs |-> r[S(x)]] \in Ranks
              /\ \A x \in Addrs : [y \in Addrs |-> r[S(y)]][S(x)] = r[x]
  BY <1>4 DEF Ranks
<1>13. Begins(u, p)
  <2>1. PICK r \in Ranks : Upwards(c, q, r)
    BY DEF Families, Begins
  <2> DEFINE r2 == [x \in Addrs |-> r[S(x)]]
  <2>2. r2 \in Ranks /\ \A x \in Addrs : r2[S(x)] = r[x]
    BY <1>12
  <2> HIDE DEF r2
  <2>3. ASSUME NEW a \in Addrs, HasNext(u, p, a)
        PROVE  r2[a] < r2[u[a].next]
    <3>1. S(a) \in Addrs /\ S(S(a)) = a /\ HasNext(c, q, S(a)) /\ u[a].next = S(c[S(a)].next)
      BY <1>5, <1>6, <2>3
    <3>2. Live(c, c[S(a)].next) /\ r[S(a)] < r[c[S(a)].next]
      BY <2>1, <3>1 DEF Families, Nexts, Upwards
    <3>3. r2[a] = r[S(a)] /\ r2[S(c[S(a)].next)] = r[c[S(a)].next]
      BY <2>2, <3>1, <3>2 DEF Live
    <3> QED
      BY <3>1, <3>2, <3>3
  <2> QED
    BY <2>2, <2>3 DEF Begins, Upwards
<1>14. Ends(u, p)
  <2>1. PICK r \in Ranks : Downwards(c, q, r)
    BY DEF Families, Ends
  <2> DEFINE r2 == [x \in Addrs |-> r[S(x)]]
  <2>2. r2 \in Ranks /\ \A x \in Addrs : r2[S(x)] = r[x]
    BY <1>12
  <2> HIDE DEF r2
  <2>3. ASSUME NEW a \in Addrs, HasNext(u, p, a)
        PROVE  r2[u[a].next] < r2[a]
    <3>1. S(a) \in Addrs /\ S(S(a)) = a /\ HasNext(c, q, S(a)) /\ u[a].next = S(c[S(a)].next)
      BY <1>5, <1>6, <2>3
    <3>2. Live(c, c[S(a)].next) /\ r[c[S(a)].next] < r[S(a)]
      BY <2>1, <3>1 DEF Families, Nexts, Downwards
    <3>3. r2[a] = r[S(a)] /\ r2[S(c[S(a)].next)] = r[c[S(a)].next]
      BY <2>2, <3>1, <3>2 DEF Live
    <3> QED
      BY <3>1, <3>2, <3>3
  <2> QED
    BY <2>2, <2>3 DEF Ends, Downwards
<1>15. Deep(u, p)
  <2>1. PICK d \in Ranks : Deeper(c, q, d)
    BY DEF Families, Deep
  <2> DEFINE d2 == [x \in Addrs |-> d[S(x)]]
  <2>2. d2 \in Ranks /\ \A x \in Addrs : d2[S(x)] = d[x]
    BY <1>12
  <2> HIDE DEF d2
  <2>3. ASSUME NEW a \in Addrs, u[a] # NULL, p[a] # 0
        PROVE  d2[p[a]] < d2[a]
    <3>1. S(a) \in Addrs /\ S(S(a)) = a
      BY <1>5
    <3>2. c[S(a)] # NULL /\ p[a] = S(q[S(a)]) /\ q[S(a)] # 0
      BY <1>3, <1>4, <2>3, <3>1
    <3>3. Live(c, q[S(a)]) /\ d[q[S(a)]] < d[S(a)]
      BY <2>1, <3>1, <3>2 DEF Families, Prevs, Deeper
    <3>4. d2[a] = d[S(a)] /\ d2[S(q[S(a)])] = d[q[S(a)]]
      BY <2>2, <3>1, <3>3 DEF Live
    <3> QED
      BY <3>2, <3>3, <3>4
  <2> QED
    BY <2>2, <2>3 DEF Deep, Deeper
<1>16. Typed(u, p)
  BY <1>2 DEF Typed, Cells
<1>17. Families(u, p)
  BY <1>8, <1>9, <1>10, <1>11, <1>13, <1>14, <1>15, <1>16 DEF Families
<1> QED
  BY <1>17 DEF u

(* hlist_relink and hlist_relink_head write no memory but that of blocks. *)
RelinkedOnce(c, a) == Put(c, c[a].prev, a)
RelinkedTwice(c, a) == PrevPut(RelinkedOnce(c, a), RelinkedOnce(c, a)[a].next, NextOf(a))
Relinked(c, a) == PrevPut(RelinkedTwice(c, a), RelinkedTwice(c, a)[a].children, ChildrenOf(a))

Sound(c, i) == i \in 0..MaxAddr /\ (i = 0 \/ c[i] # NULL)

(* The two calls at the end of halloc(ptr, len) amount to three stores. *)
LEMMA RelinkIs ==
    ASSUME NEW c \in Cells, NEW a \in Addrs, c[a] # NULL, c[c[a].prev.of] # NULL,
           Sound(c, RelinkedOnce(c, a)[a].next), Sound(c, RelinkedTwice(c, a)[a].children)
    PROVE  /\ hlist_relink_head(hlist_relink(On(c), a), a) = On(Relinked(c, a))
           /\ Relinked(c, a) \in Cells
           /\ \A x \in Addrs : Relinked(c, a)[x] = NULL <=> c[x] = NULL
<1> DEFINE c1 == RelinkedOnce(c, a)
           c2 == RelinkedTwice(c, a)
           c3 == Relinked(c, a)
<1>1. c[a].prev \in Refs /\ a \in 0..MaxAddr /\ NextOf(a) \in Refs /\ ChildrenOf(a) \in Refs
  <2>1. c[a].prev \in Refs
    BY CellIs
  <2>2. a \in 0..MaxAddr
    BY HallocAssumption DEF Addrs
  <2> QED
    BY <2>1, <2>2, CellsApart
<1>2. \A d : On(d).cells = d
  BY DEF On
<1>3. Store(On(c), c[a].prev, a) = On(c1) /\ c1 \in Cells /\ \A x \in Addrs : c1[x] = NULL <=> c[x] = NULL
  BY <1>1, StoreIs DEF RelinkedOnce
<1>4. SetPrev(On(c1), c1[a].next, NextOf(a)) = On(c2) /\ c2 \in Cells
      /\ \A x \in Addrs : c2[x] = NULL <=> c1[x] = NULL
  <2> DEFINE i == c1[a].next
  <2>1. i \in 0..MaxAddr /\ (i = 0 \/ c1[i] # NULL)
    <3>1. i \in 0..MaxAddr /\ (i = 0 \/ c[i] # NULL)
      BY DEF Sound
    <3>2. i # 0 => i \in Addrs
      BY <3>1, AddrIs
    <3> QED
      BY <1>3, <3>1, <3>2
  <2>2. c2 = PrevPut(c1, i, NextOf(a))
    BY DEF RelinkedTwice
  <2> HIDE DEF i, c1, c2
  <2> QED
    BY <1>1, <1>3, <2>1, <2>2, SetPrevIs DEF i
<1>5. SetPrev(On(c2), c2[a].children, ChildrenOf(a)) = On(c3) /\ c3 \in Cells
      /\ \A x \in Addrs : c3[x] = NULL <=> c2[x] = NULL
  <2> DEFINE i == c2[a].children
  <2>1. i \in 0..MaxAddr /\ (i = 0 \/ c2[i] # NULL)
    <3>1. i \in 0..MaxAddr /\ (i = 0 \/ c[i] # NULL)
      BY DEF Sound
    <3>2. i # 0 => i \in Addrs
      BY <3>1, AddrIs
    <3> QED
      BY <1>3, <1>4, <3>1, <3>2
  <2>2. c3 = PrevPut(c2, i, ChildrenOf(a))
    BY DEF Relinked
  <2> HIDE DEF i, c2, c3
  <2> QED
    BY <1>1, <1>4, <2>1, <2>2, SetPrevIs DEF i
<1> HIDE DEF c1, c2, c3
<1>6. hlist_relink(On(c), a) = On(c2)
  BY <1>2, <1>3, <1>4 DEF hlist_relink
<1>7. hlist_relink_head(On(c2), a) = On(c3)
  BY <1>2, <1>5 DEF hlist_relink_head
<1> QED
  BY <1>3, <1>4, <1>5, <1>6, <1>7 DEF c3

(* The fields that they leave. *)
LEMMA RelinkedIs ==
    ASSUME NEW c \in Cells, NEW a \in Addrs, NEW x \in Addrs, c[x] # NULL, c[a] # NULL
    PROVE  LET back == c[a].prev
               n == RelinkedOnce(c, a)[a].next
               f == RelinkedTwice(c, a)[a].children IN
           /\ n = IF back = NextOf(a) THEN a ELSE c[a].next
           /\ f = IF back = ChildrenOf(a) THEN a ELSE c[a].children
           /\ Relinked(c, a)[x].next = IF back = NextOf(x) THEN a ELSE c[x].next
           /\ Relinked(c, a)[x].prev =
                IF x = f THEN ChildrenOf(a) ELSE IF x = n THEN NextOf(a) ELSE c[x].prev
           /\ Relinked(c, a)[x].children = IF back = ChildrenOf(x) THEN a ELSE c[x].children
<1> DEFINE c1 == RelinkedOnce(c, a)
           c2 == RelinkedTwice(c, a)
           n == c1[a].next
           f == c2[a].children
           back == c[a].prev
<1>1. back \in Refs
  BY CellIs
<1> HIDE DEF back
<1>2. ASSUME NEW y \in Addrs
      PROVE  /\ c1[y].next = IF back = NextOf(y) THEN a ELSE c[y].next
             /\ c1[y].prev = c[y].prev
             /\ c1[y].children = IF back = ChildrenOf(y) THEN a ELSE c[y].children
  <2>1. /\ y = back.of /\ back.cell = "next" <=> back = NextOf(y)
        /\ y = back.of /\ back.cell = "children" <=> back = ChildrenOf(y)
    BY <1>1, RefIs, CellsApart
  <2>2. c1[y] = IF y # back.of THEN c[y]
                ELSE [next |-> IF back.cell = "next" THEN a ELSE c[y].next, prev |-> c[y].prev,
                      children |-> IF back.cell = "children" THEN a ELSE c[y].children]
    BY DEF RelinkedOnce, Put, back
  <2> HIDE DEF c1
  <2> QED
    BY <2>1, <2>2
<1> HIDE DEF c1, n
<1>3. ASSUME NEW y \in Addrs
      PROVE  /\ c2[y].next = c1[y].next
             /\ c2[y].prev = IF y = n THEN NextOf(a) ELSE c1[y].prev
             /\ c2[y].children = c1[y].children
  <2>1. c2[y] = IF y = n THEN [next |-> c1[y].next, prev |-> NextOf(a), children |-> c1[y].children]
                ELSE c1[y]
    BY DEF RelinkedTwice, PrevPut, c1, n
  <2> HIDE DEF c2
  <2> QED
    BY <2>1
<1> HIDE DEF c2, f
<1>4. /\ Relinked(c, a)[x].next = c2[x].next
      /\ Relinked(c, a)[x].prev = IF x = f THEN ChildrenOf(a) ELSE c2[x].prev
      /\ Relinked(c, a)[x].children = c2[x].children
  <2>1. Relinked(c, a)[x] =
            IF x = f THEN [next |-> c2[x].next, prev |-> ChildrenOf(a), children |-> c2[x].children]
            ELSE c2[x]
    BY DEF Relinked, PrevPut, c2, f
  <2> DEFINE r == Relinked(c, a)[x]
  <2> HIDE DEF r
  <2>2. r = IF x = f THEN [next |-> c2[x].next, prev |-> ChildrenOf(a), children |-> c2[x].children]
            ELSE c2[x]
    BY <2>1 DEF r
  <2>3. r.next = c2[x].next /\ r.prev = (IF x = f THEN ChildrenOf(a) ELSE c2[x].prev)
        /\ r.children = c2[x].children
    BY <2>2
  <2> QED
    BY <2>3 DEF r
<1>5. n = IF back = NextOf(a) THEN a ELSE c[a].next
  BY <1>2 DEF n
<1>6. f = IF back = ChildrenOf(a) THEN a ELSE c[a].children
  BY <1>2, <1>3 DEF f
<1>7. /\ Relinked(c, a)[x].next = IF back = NextOf(x) THEN a ELSE c[x].next
      /\ Relinked(c, a)[x].prev = IF x = f THEN ChildrenOf(a) ELSE IF x = n THEN NextOf(a) ELSE c[x].prev
      /\ Relinked(c, a)[x].children = IF back = ChildrenOf(x) THEN a ELSE c[x].children
  BY <1>2, <1>3, <1>4
<1> QED
  BY <1>5, <1>6, <1>7 DEF n, f, back, c1, c2

MovedCells(c, from, to) == [[c EXCEPT ![from] = NULL] EXCEPT ![to] = c[from]]

(* No pointer goes where nothing is allocated, none from a block to its own cell but a *)
(* root's, and a block is not its own parent.                                          *)
LEMMA PointsTo ==
    ASSUME NEW c, NEW q, Families(c, q), NEW x \in Addrs, c[x] # NULL
    PROVE  /\ c[x].next # 0 => Live(c, c[x].next)
           /\ c[x].children # 0 => Live(c, c[x].children)
           /\ Live(c, c[x].prev.of)
           /\ q[x] # 0 => Live(c, q[x]) /\ q[x] # x /\ c[x].next # x /\ c[x].prev.of # x
           /\ c[x].children # x
<1>1. c[x].next # 0 => Live(c, c[x].next)
  BY BackIs
<1>2. Live(c, c[x].prev.of)
  BY BackIs
<1>3. c[x].children # 0 => Live(c, c[x].children) /\ q[c[x].children] = x
  BY DEF Families, Firsts
<1>4. q[x] # x
  BY FamilyIs
<1>5. q[x] # 0 => Live(c, q[x])
  BY DEF Families, Prevs
<1>6. q[x] # 0 => c[x].next # x
  BY BackIs
<1>7. q[x] # 0 => c[x].prev.of # x
  <2> SUFFICES ASSUME q[x] # 0, c[x].prev.of = x
               PROVE  FALSE
    OBVIOUS
  <2>1. c[x].prev \in Refs
    BY HeaderFacts DEF Families
  <2>2. c[x].prev = NextOf(x) \/ c[x].prev = ChildrenOf(x)
    BY <2>1, RefIs
  <2>3. c[x].prev # NextOf(x)
    BY BackIs
  <2>4. c[x].prev # ChildrenOf(x)
    BY <1>4, BackIs
  <2> QED
    BY <2>2, <2>3, <2>4
<1>8. c[x].children # x
  BY <1>3, <1>4, HallocAssumption DEF Addrs
<1> QED
  BY <1>1, <1>2, <1>3, <1>4, <1>5, <1>6, <1>7, <1>8

(* A block with a parent that moves, or stays where it is: it is renamed. *)
LEMMA MovedIs ==
    ASSUME NEW c, NEW q, Families(c, q), NEW from \in Addrs, NEW to \in Addrs,
           c[from] # NULL, q[from] # 0, to = from \/ c[to] = NULL
    PROVE  LET m == MovedCells(c, from, to) IN
           hlist_relink_head(hlist_relink(On(m), to), to) = On(Renamed(c, from, to))
<1> DEFINE m == MovedCells(c, from, to)
           u == Renamed(c, from, to)
           v == Relinked(m, to)
           back == c[from].prev
           n == c[from].next
           f == c[from].children
           S(i) == Swap(from, to, i)
<1>1. c \in Cells
  BY DEF Families, Typed, Cells
<1>2. m \in Cells /\ \A x \in Addrs : m[x] = IF x = to THEN c[from] ELSE IF x = from THEN NULL ELSE c[x]
  BY <1>1 DEF MovedCells, Cells
<1>3. u \in Cells
  BY <1>1, RenamedIs
<1>4. ASSUME NEW x \in Addrs, c[x] # NULL
      PROVE  u[S(x)] # NULL /\ Under(u[S(x)], c[x], from, to)
  BY <1>1, <1>4, RenamedIs
<1>5. \A x \in Addrs : c[x] = NULL => u[S(x)] = NULL
  BY <1>1, RenamedIs
<1>6. /\ n # 0 => Live(c, n) /\ n # from /\ n # to
      /\ f # 0 => Live(c, f) /\ f # from /\ f # to
      /\ Live(c, back.of) /\ back.of # from /\ back.of # to
      /\ Live(c, q[from]) /\ q[from] # from /\ q[from] # to
  BY PointsTo DEF Live
<1>7. n \in 0..MaxAddr /\ f \in 0..MaxAddr /\ back \in Refs
  BY <1>1, CellIs
<1>8. from # 0 /\ to # 0
  BY HallocAssumption DEF Addrs
<1>9. back # NextOf(to) /\ back # ChildrenOf(to) /\ back # NextOf(from) /\ back # ChildrenOf(from)
  BY <1>6, CellsApart
<1>10. m[to] = c[from]
  BY <1>2
<1> HIDE DEF m, u, v, S
<1>11. RelinkedOnce(m, to)[to].next = n /\ RelinkedTwice(m, to)[to].children = f
  BY <1>2, <1>9, <1>10, RelinkedIs
<1>12. Sound(m, n) /\ Sound(m, f) /\ m[to] # NULL /\ m[m[to].prev.of] # NULL
  BY <1>2, <1>6, <1>7, <1>10 DEF Sound, Live
<1>13. hlist_relink_head(hlist_relink(On(m), to), to) = On(v) /\ v \in Cells
       /\ \A x \in Addrs : v[x] = NULL <=> m[x] = NULL
  BY <1>2, <1>11, <1>12, RelinkIs DEF v
<1>14. ASSUME NEW x \in Addrs, m[x] # NULL
       PROVE  /\ v[x].next = IF back = NextOf(x) THEN to ELSE m[x].next
              /\ v[x].prev = IF x = f THEN ChildrenOf(to) ELSE IF x = n THEN NextOf(to) ELSE m[x].prev
              /\ v[x].children = IF back = ChildrenOf(x) THEN to ELSE m[x].children
  BY <1>2, <1>10, <1>11, <1>12, <1>14, RelinkedIs DEF v
<1>15. ASSUME NEW x \in Addrs
       PROVE  v[x] = u[x]
  <2>1. CASE x = to
    <3>1. S(from) = to /\ S(n) = n /\ S(f) = f /\ S(back.of) = back.of
      BY <1>6, <1>8 DEF S, Swap
    <3>2. Under(u[to], c[from], from, to) /\ u[to] # NULL
      BY <1>4, <3>1
    <3>3. u[to].next = n /\ u[to].children = f
      BY <3>1, <3>2 DEF Under, S
    <3>4. u[to].prev = back
      <4>1. back.of \in Addrs /\ (back = NextOf(back.of) \/ back = ChildrenOf(back.of))
        BY <1>7, RefIs
      <4> QED
        BY <3>1, <3>2, <4>1 DEF Under, S
    <3>5. v[to] # NULL /\ v[to].next = n /\ v[to].children = f /\ v[to].prev = back
      BY <1>6, <1>8, <1>9, <1>10, <1>12, <1>13, <1>14
    <3>6. /\ u[to] = [next |-> u[to].next, prev |-> u[to].prev, children |-> u[to].children]
          /\ v[to] = [next |-> v[to].next, prev |-> v[to].prev, children |-> v[to].children]
      BY <1>3, <1>13, <3>2, <3>5, CellIs
    <3> QED
      BY <2>1, <3>3, <3>4, <3>5, <3>6
  <2>2. CASE x # to /\ x = from
    <3>1. S(to) = from
      BY DEF S, Swap
    <3>2. v[x] = NULL
      BY <1>2, <1>13, <2>2
    <3> QED
      BY <1>5, <2>2, <3>1, <3>2
  <2>3. CASE x # to /\ x # from
    <3>1. S(x) = x /\ m[x] = c[x]
      BY <1>2, <2>3 DEF S, Swap
    <3>2. CASE c[x] = NULL
      BY <1>5, <1>13, <3>1, <3>2
    <3>3. CASE c[x] # NULL
      <4>1. u[x] # NULL /\ Under(u[x], c[x], from, to) /\ v[x] # NULL
        BY <1>4, <1>13, <3>1, <3>3
      <4>2. /\ v[x].next = IF back = NextOf(x) THEN to ELSE c[x].next
            /\ v[x].prev = IF x = f THEN ChildrenOf(to) ELSE IF x = n THEN NextOf(to) ELSE c[x].prev
            /\ v[x].children = IF back = ChildrenOf(x) THEN to ELSE c[x].children
        BY <1>14, <3>1, <3>3
      <4>3. u[x].next = S(c[x].next) /\ u[x].children = S(c[x].children)
        BY <4>1 DEF Under, S
      <4>4. v[x].next = u[x].next
        <5>1. back = NextOf(x) => c[x].next = from
          BY <2>3, BackIs
        <5>2. c[x].next = from => back = NextOf(x)
          BY <3>3, Sibling
        <5>3. c[x].next # from => c[x].next # to
          BY <1>8, <3>3, PointsTo DEF Live
        <5> QED
          BY <4>2, <4>3, <5>1, <5>2, <5>3 DEF S, Swap
      <4>5. v[x].children = u[x].children
        <5>1. back = ChildrenOf(x) => c[x].children = from
          BY BackIs
        <5>2. c[x].children = from => back = ChildrenOf(x)
          BY <1>8, <3>3 DEF Families, Firsts
        <5>3. c[x].children # from => c[x].children # to
          BY <1>8, <3>3, PointsTo DEF Live
        <5> QED
          BY <4>2, <4>3, <5>1, <5>2, <5>3 DEF S, Swap
      <4>6. v[x].prev = u[x].prev
        <5> DEFINE y == c[x].prev.of
        <5>1. c[x].prev \in Refs
          BY <1>1, <3>3, CellIs
        <5>2. y \in Addrs /\ c[y] # NULL /\ (c[x].prev = NextOf(y) \/ c[x].prev = ChildrenOf(y))
          BY <3>3, <5>1, PointsTo, RefIs DEF Live
        <5>3. u[x].prev = IF c[x].prev = NextOf(y) THEN NextOf(S(y)) ELSE ChildrenOf(S(y))
          BY <4>1, <5>2 DEF Under, S
        <5>4. x = f => c[x].prev = ChildrenOf(from)
          <6> SUFFICES ASSUME x = f
                       PROVE  c[f].prev = ChildrenOf(from)
            OBVIOUS
          <6> QED
            BY HallocAssumption DEF Families, Firsts, Addrs
        <5>5. x = n => c[x].prev = NextOf(from)
          <6> SUFFICES ASSUME x = n
                       PROVE  c[n].prev = NextOf(from)
            OBVIOUS
          <6>1. HasNext(c, q, from)
            BY HallocAssumption DEF HasNext, Addrs
          <6> QED
            BY <6>1 DEF Families, Nexts
        <5>6. c[x].prev = ChildrenOf(from) => x = f
          BY <3>3, BackIs
        <5>7. c[x].prev = NextOf(from) => x = n
          BY <2>3, <3>3, BackIs
        <5>8. CASE y = from
          <6>1. S(y) = to
            BY <5>8 DEF S, Swap
          <6>2. CASE c[x].prev = NextOf(y)
            <7>1. x = n /\ x # f
              BY <5>4, <5>7, <5>8, <6>2, CellsApart
            <7> QED
              BY <4>2, <5>3, <6>1, <6>2, <7>1
          <6>3. CASE c[x].prev = ChildrenOf(y)
            <7>1. x = f /\ c[x].prev # NextOf(y)
              BY <5>6, <5>8, <6>3, CellsApart
            <7> QED
              BY <4>2, <5>3, <6>1, <7>1
          <6> QED
            BY <5>2, <6>2, <6>3
        <5>9. CASE y # from
          <6>1. y # to
            BY <5>2, <5>9
          <6>2. S(y) = y
            BY <5>9, <6>1 DEF S, Swap
          <6>3. x # f /\ x # n
            BY <5>4, <5>5, <5>9, CellsApart
          <6> QED
            BY <4>2, <5>2, <5>3, <6>2, <6>3
        <5> QED
          BY <5>8, <5>9
      <4> QED
        BY <1>3, <1>13, <4>1, <4>4, <4>5, <4>6, CellIs
    <3> QED
      BY <3>2, <3>3
  <2> QED
    BY <2>1, <2>2, <2>3
<1>16. v = u
  BY <1>3, <1>13, <1>15 DEF Cells
<1> QED
  BY <1>13, <1>16 DEF m, u

(* A block without parent that stays where it is becomes its own next. *)
LEMMA StaysIs ==
    ASSUME NEW c, NEW q, Families(c, q), NEW a \in Addrs, c[a] # NULL, q[a] = 0
    PROVE  LET u == Relinked(c, a) IN
           /\ MovedCells(c, a, a) = c
           /\ hlist_relink_head(hlist_relink(On(c), a), a) = On(u)
           /\ Families(u, q)
<1> DEFINE u == Relinked(c, a)
           f == c[a].children
<1>1. c \in Cells
  BY DEF Families, Typed, Cells
<1>2. MovedCells(c, a, a) = c
  BY <1>1 DEF MovedCells, Cells
<1>3. c[a].prev = NextOf(a) /\ c[a].next \in {0, a}
  BY DEF Families, Roots
<1>4. f \in 0..MaxAddr /\ (f # 0 => Live(c, f) /\ c[f].prev = ChildrenOf(a) /\ q[f] = a)
  BY <1>1, CellIs DEF Families, Firsts
<1>5. a # 0 /\ a \in 0..MaxAddr
  BY HallocAssumption DEF Addrs
<1>6. RelinkedOnce(c, a)[a].next = a /\ RelinkedTwice(c, a)[a].children = f
  BY <1>1, <1>3, CellsApart, RelinkedIs
<1>7. Sound(c, a) /\ Sound(c, f) /\ c[c[a].prev.of] # NULL
  BY <1>3, <1>4, <1>5, CellsApart DEF Sound, Live
<1>8. hlist_relink_head(hlist_relink(On(c), a), a) = On(u) /\ u \in Cells
      /\ \A x \in Addrs : u[x] = NULL <=> c[x] = NULL
  BY <1>1, <1>6, <1>7, RelinkIs
<1>9. ASSUME NEW x \in Addrs, c[x] # NULL
      PROVE  /\ u[x].next = IF x = a THEN a ELSE c[x].next
             /\ u[x].prev = c[x].prev /\ u[x].children = c[x].children
  <2>1. /\ u[x].next = IF c[a].prev = NextOf(x) THEN a ELSE c[x].next
        /\ u[x].prev = IF x = f THEN ChildrenOf(a) ELSE IF x = a THEN NextOf(a) ELSE c[x].prev
        /\ u[x].children = IF c[a].prev = ChildrenOf(x) THEN a ELSE c[x].children
    BY <1>1, <1>6, <1>9, RelinkedIs
  <2>2. x = f => c[x].prev = ChildrenOf(a)
    BY <1>4, HallocAssumption DEF Addrs
  <2> HIDE DEF u, f
  <2> QED
    BY <1>3, <2>1, <2>2, CellsApart
<1> HIDE DEF u
<1>10. \A x : Live(u, x) <=> Live(c, x)
  BY <1>8 DEF Live
<1>11. ASSUME NEW x \in Addrs
       PROVE  HasNext(u, q, x) <=> HasNext(c, q, x)
  BY <1>8, <1>9 DEF HasNext
<1>12. \A x \in Addrs : HasNext(c, q, x) => u[x].next = c[x].next
  BY <1>9 DEF HasNext
<1>13. Nexts(u, q)
  BY <1>9, <1>10, <1>11, <1>12 DEF Families, Nexts, Live
<1>14. Firsts(u, q)
  BY <1>8, <1>9, <1>10 DEF Families, Firsts, Live
<1>15. Prevs(u, q)
  <2> SUFFICES ASSUME NEW x \in Addrs, u[x] # NULL, q[x] # 0
               PROVE  Live(u, q[x]) /\ (IsFirst(u, q, x) \/ Follows(u, x))
    BY DEF Prevs
  <2>1. c[x] # NULL
    BY <1>8
  <2>2. Live(c, q[x]) /\ (IsFirst(c, q, x) \/ Follows(c, x))
    BY <2>1 DEF Families, Prevs
  <2>3. IsFirst(c, q, x) => IsFirst(u, q, x)
    BY <1>9, <2>1, <2>2 DEF IsFirst, Live
  <2>4. ASSUME Follows(c, x)
        PROVE  Follows(u, x)
    <3>1. PICK e \in Addrs : c[e] # NULL /\ c[x].prev = NextOf(e) /\ c[e].next = x
      BY <2>4 DEF Follows
    <3>2. HasNext(c, q, e)
      BY <2>1, <3>1, Sibling
    <3>3. u[x].prev = NextOf(e) /\ u[e].next = x /\ u[e] # NULL
      BY <1>8, <1>9, <1>12, <2>1, <3>1, <3>2
    <3> QED
      BY <3>3 DEF Follows
  <2> QED
    BY <1>10, <2>2, <2>3, <2>4
<1>16. Roots(u, q)
  BY <1>8, <1>9 DEF Families, Roots
<1>17. Begins(u, q)
  BY <1>11, <1>12 DEF Families, Begins, Upwards
<1>18. Ends(u, q)
  BY <1>11, <1>12 DEF Families, Ends, Downwards
<1>19. Deep(u, q)
  BY <1>8 DEF Families, Deep, Deeper
<1>20. Typed(u, q)
  BY <1>8 DEF Families, Typed, Cells
<1>21. Families(u, q)
  BY <1>13, <1>14, <1>15, <1>16, <1>17, <1>18, <1>19, <1>20 DEF Families
<1> QED
  BY <1>2, <1>8, <1>21 DEF u

-----------------------------------------------------------------------------
(* The operations. *)

(* The family of a freed block is gone, and so is the block. *)
LEMMA FreedIs ==
    ASSUME NEW c, NEW q, Families(c, q), NEW b \in Addrs, c[b] # NULL
    PROVE  LET F == Family(On(c), b)
               u == [Unlinked(Without(c, F), b) EXCEPT ![b] = NULL] IN
           /\ _free_children(On(c), b) = On(Without(c, F))
           /\ hlist_del(On(Without(c, F)), b) = On(Unlinked(Without(c, F), b))
           /\ Families(u, [q EXCEPT ![b] = 0])
<1> DEFINE F == Family(On(c), b)
           s == [q EXCEPT ![b] = 0]
           w == Without(c, F)
           n == c[b].next
           back == c[b].prev
<1>1. /\ F \in SUBSET Addrs
      /\ \A x \in Addrs : c[x] # NULL /\ (q[x] = b \/ q[x] \in F) => x \in F
      /\ \A x \in F : c[x] # NULL /\ (q[x] = b \/ q[x] \in F)
      /\ b \notin F /\ q[b] \notin F /\ q[b] # b
  BY FamilyIs
<1>2. _free_children(On(c), b) = On(w)
  <2> DEFINE f == FALSE
             v == On(c)
  <2>1. \A d : On(d) = [cells |-> d, wild |-> f]
    BY DEF On
  <2>2. Family(v, b) = F /\ w = [a \in Addrs |-> IF a \in F THEN NULL ELSE c[a]]
    BY DEF Without
  <2>3. v = [cells |-> c, wild |-> f] /\ v.cells = c
    BY <2>1
  <2> HIDE DEF f, v, F, w
  <2>4. _free_children(v, b) = [v EXCEPT !.cells = w]
    BY <2>2, <2>3 DEF _free_children
  <2>5. [v EXCEPT !.cells = w] = [cells |-> w, wild |-> f]
    BY <2>3
  <2> QED
    BY <2>1, <2>4, <2>5 DEF v
<1> HIDE DEF F
<1>3. c \in Cells /\ q \in [Addrs -> 0..MaxAddr]
  BY DEF Families, Typed, Cells
<1>4. w \in Cells /\ \A x \in Addrs : w[x] = IF x \in F THEN NULL ELSE c[x]
  BY <1>3 DEF Without, Cells
<1>5. w[b] = c[b] /\ w[b] # NULL
  BY <1>1, <1>4
<1>6. n # 0 => Live(c, n) /\ n \notin F
  <2> SUFFICES ASSUME n # 0
               PROVE  Live(c, n) /\ n \notin F
    OBVIOUS
  <2>1. Live(c, n)
    BY BackIs
  <2>2. CASE q[b] = 0
    <3>1. n = b
      BY <2>2 DEF Families, Roots
    <3> QED
      BY <1>1, <2>1, <3>1
  <2>3. CASE q[b] # 0
    <3>1. q[n] = q[b]
      BY <2>3 DEF Families, Nexts, HasNext
    <3> QED
      BY <1>1, <2>1, <3>1
  <2> QED
    BY <2>2, <2>3
<1>7. Live(c, back.of) /\ back.of \notin F
  <2>1. Live(c, back.of) /\ back \in Refs
    BY <1>3, BackIs, CellIs
  <2>2. PICK y \in Addrs : y = back.of /\ (back = NextOf(y) \/ back = ChildrenOf(y))
    BY <2>1, RefIs
  <2>3. CASE back = NextOf(y)
    <3>1. y = b \/ q[y] = q[b]
      BY <2>3, BackIs
    <3> QED
      BY <1>1, <2>1, <2>2, <3>1
  <2>4. CASE back = ChildrenOf(y)
    <3>1. y = q[b]
      BY <2>4, BackIs
    <3> QED
      BY <1>1, <2>1, <2>2, <3>1
  <2> QED
    BY <2>2, <2>3, <2>4
<1>8. hlist_del(On(w), b) = On(Unlinked(w, b)) /\ Unlinked(w, b) \in Cells
  <2>1. w[b].next = 0 \/ w[w[b].next] # NULL
    BY <1>4, <1>5, <1>6 DEF Live
  <2>2. w[w[b].prev.of] # NULL
    BY <1>4, <1>5, <1>7 DEF Live
  <2> HIDE DEF w
  <2> QED
    BY <1>4, <1>5, <2>1, <2>2, DelIs
<1> DEFINE u == [Unlinked(w, b) EXCEPT ![b] = NULL]
           G == F \cup {b}
           e == Without(Unlinked(c, b), G)
<1>9. u = e
  <2>1. ASSUME NEW x \in Addrs
        PROVE  u[x] = e[x]
    <3>1. u[x] = IF x = b THEN NULL ELSE Unlinked(w, b)[x]
      BY <1>8 DEF Cells
    <3>2. e[x] = IF x \in G THEN NULL ELSE Unlinked(c, b)[x]
      BY DEF Without
    <3>3. CASE x \in G
      <4>1. x \in F => Unlinked(w, b)[x] = NULL
        <5> HIDE DEF w
        <5> QED
          BY <1>4 DEF Unlinked
      <4> QED
        BY <3>1, <3>2, <3>3, <4>1
    <3>4. CASE x \notin G
      <4>1. w[x] = c[x]
        BY <1>4, <3>4
      <4>2. Unlinked(w, b)[x] = Unlinked(c, b)[x]
        <5> HIDE DEF w
        <5> QED
          BY <1>5, <4>1 DEF Unlinked
      <4> QED
        BY <3>1, <3>2, <3>4, <4>2
    <3> QED
      BY <3>3, <3>4
  <2>2. u = [x \in Addrs |-> u[x]]
    BY <1>8 DEF Cells
  <2>3. e = [x \in Addrs |-> e[x]]
    BY DEF Without
  <2> HIDE DEF u, e
  <2> QED
    BY <2>1, <2>2, <2>3
<1>10. Families(e, s)
  <2>1. Families(Unlinked(c, b), s)
    BY Detached
  <2>2. \A x \in Addrs : Unlinked(c, b)[x] = NULL <=> c[x] = NULL
    BY DelOf
  <2>3. \A x \in Addrs : s[x] = IF x = b THEN 0 ELSE q[x]
    BY <1>3
  <2>4. 0 \notin G
    BY <1>1, HallocAssumption DEF Addrs
  <2>5. \A x \in Addrs : Unlinked(c, b)[x] # NULL /\ s[x] \in G => x \in G
    BY <1>1, <2>2, <2>3, <2>4
  <2>6. \A x \in G : Unlinked(c, b)[x] # NULL => s[x] \in G \cup {0}
    BY <1>1, <2>2, <2>3
  <2>7. G \in SUBSET Addrs
    BY <1>1
  <2> HIDE DEF s, G
  <2> QED
    BY <2>1, <2>5, <2>6, <2>7, Pruned
<1> HIDE DEF u, e, s, w
<1>11. Families(u, s)
  BY <1>9, <1>10
<1> QED
  BY <1>2, <1>8, <1>11 DEF F, u, s, w

(* Families that are sound have no block whose parent is gone. *)
LEMMA ParentsAreThere ==
    ASSUME NEW c, NEW q, Families(c, q)
    PROVE  \A b \in {a \in Addrs : c[a] # NULL} : q[b] # 0 => c[q[b]] # NULL
BY DEF Families, Prevs, Live

(* halloc(NULL, len) keeps the families sound. *)
LEMMA StepMalloc ==
    ASSUME ~alone, ~strayed, Families(cells, parentOf), NEW a \in Addrs, h_malloc(a)
    PROVE  ~alone' /\ ~strayed' /\ Families(cells', parentOf')
BY Allocated DEF h_malloc

(* halloc(ptr, 0) keeps the families sound. *)
LEMMA StepFree ==
    ASSUME ~alone, ~strayed, Families(cells, parentOf), NEW b \in Addrs, h_free(b)
    PROVE  ~alone' /\ ~strayed' /\ Families(cells', parentOf')
<1> DEFINE F == Family(On(cells), b)
           w == Unlinked(Without(cells, F), b)
<1>1. cells[b] # NULL /\ Here = On(cells) /\ \A d : On(d).cells = d /\ On(d).wild = FALSE
  BY DEF h_free, Here, On
<1>2. /\ _free_children(On(cells), b) = On(Without(cells, F))
      /\ hlist_del(On(Without(cells, F)), b) = On(w)
      /\ Families([w EXCEPT ![b] = NULL], [parentOf EXCEPT ![b] = 0])
  BY <1>1, FreedIs
<1> HIDE DEF w, F
<1>3. hlist_del(_free_children(Here, b), b) = On(w)
  BY <1>1, <1>2
<1>4. cells' = [w EXCEPT ![b] = NULL] /\ ~strayed'
  <2>1. cells' = [On(w).cells EXCEPT ![b] = NULL] /\ strayed' = (strayed \/ On(w).wild)
    BY <1>3 DEF h_free
  <2> QED
    BY <1>1, <2>1
<1>5. parentOf' = [parentOf EXCEPT ![b] = 0] /\ alone' = alone
  BY DEF h_free
<1> QED
  BY <1>2, <1>4, <1>5

(* hattach keeps the families sound, with a parent and without. *)
LEMMA StepAttach ==
    ASSUME ~alone, ~strayed, Families(cells, parentOf), NEW b \in Addrs, NEW p \in Addrs \cup {0}, hattach(b, p)
    PROVE  ~alone' /\ ~strayed' /\ Families(cells', parentOf')
<1> DEFINE F == Family(On(cells), b)
           u == Unlinked(cells, b)
           s == [parentOf EXCEPT ![b] = 0]
<1>1. cells[b] # NULL /\ b # p /\ Here = On(cells) /\ \A d : On(d).cells = d /\ On(d).wild = FALSE
  BY DEF hattach, Here, On
<1>2. hlist_del(Here, b) = On(u) /\ u \in Cells /\ \A x \in Addrs : u[x] = NULL <=> cells[x] = NULL
  BY <1>1, DelOf
<1>3. Families(u, s)
  BY <1>1, Detached
<1>4. parentOf \in [Addrs -> 0..MaxAddr] /\ 0 \notin Addrs
  BY HallocAssumption DEF Families, Typed, Addrs
<1>5. \A x \in Addrs : s[x] = IF x = b THEN 0 ELSE parentOf[x]
  BY <1>4
<1>6. alone' = alone /\ parentOf' = [parentOf EXCEPT ![b] = p]
  BY DEF hattach
<1>7. CASE p = 0
  <2>1. cells' = On(u).cells /\ strayed' = (strayed \/ On(u).wild)
    BY <1>2, <1>7 DEF hattach
  <2> HIDE DEF u
  <2> QED
    BY <1>1, <1>3, <1>6, <1>7, <2>1
<1>8. CASE p # 0
  <2>1. p \in Addrs /\ cells[p] # NULL /\ p \notin F
    BY <1>1, <1>8 DEF hattach, _relate
  <2>2. F \in SUBSET Addrs /\ b \notin F
        /\ \A x \in Addrs : cells[x] # NULL /\ (parentOf[x] = b \/ parentOf[x] \in F) => x \in F
    BY <1>1, FamilyIs
  <2>3. s[b] = 0 /\ [s EXCEPT ![b] = p] = parentOf'
    BY <1>4, <1>6
  <2> HIDE DEF F, s, u
  <2>4. \A x \in Addrs : u[x] # NULL /\ (s[x] = b \/ s[x] \in F) => x \in F
    BY <1>2, <1>4, <1>5, <2>2
  <2>5. u[b] # NULL /\ u[p] # NULL
    BY <1>1, <1>2, <2>1
  <2>6. Families(Linked(u, p, b), parentOf')
    BY <1>1, <1>3, <2>1, <2>2, <2>3, <2>4, <2>5, Attached
  <2>7. hlist_add(On(u), p, b) = On(Linked(u, p, b))
    <3>1. u[p].children = 0 \/ u[u[p].children] # NULL
      BY <1>3, <2>1, <2>5 DEF Families, Firsts, Live
    <3> QED
      BY <1>1, <1>2, <2>1, <2>5, <3>1, AddIs
  <2>8. cells' = On(Linked(u, p, b)).cells /\ strayed' = (strayed \/ On(Linked(u, p, b)).wild)
    BY <1>2, <1>8, <2>7 DEF hattach
  <2> QED
    BY <1>1, <1>6, <2>6, <2>8
<1> QED
  BY <1>7, <1>8

(* halloc(ptr, len) of a block with a parent, or of one that stays, keeps the families sound. *)
LEMMA StepRealloc ==
    ASSUME ~alone, ~strayed, Families(cells, parentOf), NEW from \in Addrs, NEW to \in Addrs,
           h_realloc(from, to), parentOf[from] # 0 \/ to = from
    PROVE  ~alone' /\ ~strayed' /\ Families(cells', parentOf')
<1> DEFINE m == MovedCells(cells, from, to)
<1>1. cells[from] # NULL /\ (to = from \/ cells[to] = NULL) /\ \A d : On(d).cells = d /\ On(d).wild = FALSE
  BY DEF h_realloc, On
<1>2. Moved(from, to) = On(m)
  BY DEF Moved, On, MovedCells
<1>3. parentOf' = [a \in Addrs |-> IF a = to THEN parentOf[from]
                                   ELSE IF a = from THEN 0
                                   ELSE IF parentOf[a] = from THEN to ELSE parentOf[a]]
  BY DEF h_realloc
<1>4. ~alone'
  BY DEF h_realloc
<1>5. parentOf \in [Addrs -> 0..MaxAddr] /\ from # 0 /\ to # 0 /\ to \in 0..MaxAddr
  <2>1. parentOf \in [Addrs -> 0..MaxAddr]
    BY DEF Families, Typed
  <2> QED
    BY <2>1, HallocAssumption DEF Addrs
<1> HIDE DEF m
<1>6. ASSUME NEW v, hlist_relink_head(hlist_relink(On(m), to), to) = On(v)
      PROVE  cells' = v /\ ~strayed'
  BY <1>1, <1>2, <1>6 DEF h_realloc
<1>7. CASE parentOf[from] # 0
  <2>1. cells' = Renamed(cells, from, to) /\ ~strayed'
    <3>1. hlist_relink_head(hlist_relink(On(m), to), to) = On(Renamed(cells, from, to))
      BY <1>1, <1>7, MovedIs DEF m
    <3> QED
      BY <1>6, <3>1
  <2>2. parentOf' \in [Addrs -> 0..MaxAddr]
    BY <1>3, <1>5, HallocAssumption
  <2>3. ASSUME NEW x \in Addrs, cells[x] # NULL
        PROVE  parentOf'[Swap(from, to, x)] = Swap(from, to, parentOf[x])
    <3>1. Swap(from, to, x) \in Addrs
      BY SwapIs
    <3>2. parentOf[from] # from /\ (to # from => parentOf[from] # to)
      BY <1>1, <1>7, PointsTo DEF Live
    <3>3. to # from => parentOf[x] # to
      BY <1>1, <1>5, <2>3, PointsTo DEF Live
    <3>4. to # from => x # to
      BY <1>1, <2>3
    <3> QED
      BY <1>3, <3>1, <3>2, <3>3, <3>4 DEF Swap
  <2>4. Families(Renamed(cells, from, to), parentOf')
    BY <2>2, <2>3, RenamedSound
  <2> QED
    BY <1>4, <2>1, <2>4
<1>8. CASE parentOf[from] = 0
  <2>1. to = from
    BY <1>8
  <2>2. m = cells /\ hlist_relink_head(hlist_relink(On(cells), to), to) = On(Relinked(cells, to))
        /\ Families(Relinked(cells, to), parentOf)
    BY <1>1, <1>8, <2>1, StaysIs DEF m
  <2>3. cells' = Relinked(cells, to) /\ ~strayed'
    BY <1>6, <2>2
  <2>4. parentOf' = parentOf
    BY <1>3, <1>5, <2>1
  <2> QED
    BY <1>4, <2>2, <2>3, <2>4
<1> QED
  BY <1>7, <1>8

(* A block without parent that moves: memory of no block may be written, but no block is *)
(* lost, and none keeps a parent that is gone.                                           *)
World(c, t) == [cells |-> c, wild |-> t]

(* A store to the prev of a block leaves every block where it is. *)
LEMMA SetPrevKeeps ==
    ASSUME NEW c \in Cells, NEW t, NEW i \in 0..MaxAddr, i = 0 \/ c[i] # NULL, NEW ref \in Refs
    PROVE  \E d \in Cells : /\ SetPrev(World(c, t), i, ref) = World(d, t)
                            /\ \A x \in Addrs : d[x] = NULL <=> c[x] = NULL
<1>1. CASE i = 0
  BY <1>1 DEF SetPrev
<1>2. CASE i # 0
  <2> DEFINE w == World(c, t)
             h == [next |-> c[i].next, prev |-> ref, children |-> c[i].children]
             d == [c EXCEPT ![i] = h]
  <2>1. i \in Addrs /\ c[i] # NULL
    BY <1>2, AddrIs
  <2>2. c[i].next \in 0..MaxAddr /\ c[i].children \in 0..MaxAddr
        /\ c[i] = [next |-> c[i].next, prev |-> c[i].prev, children |-> c[i].children]
        /\ DOMAIN c[i] = {"next", "prev", "children"}
    BY <2>1, CellIs
  <2>3. h \in Headers
    BY <2>2 DEF Headers
  <2>4. [c[i] EXCEPT !.prev = ref] = h
    BY <2>2
  <2> HIDE DEF h
  <2>5. [c EXCEPT ![i].prev = ref] = d
    BY <2>1, <2>4 DEF Cells
  <2>6. w = [cells |-> c, wild |-> t] /\ w.cells = c
    BY DEF World
  <2> HIDE DEF w
  <2>7. SetPrev(w, i, ref) = [w EXCEPT !.cells[i].prev = ref]
    BY <1>2, <2>1, <2>6 DEF SetPrev
  <2>8. [w EXCEPT !.cells[i].prev = ref] = [cells |-> [c EXCEPT ![i].prev = ref], wild |-> t]
    BY <2>6
  <2>9. d \in Cells /\ \A x \in Addrs : d[x] = NULL <=> c[x] = NULL
    BY <2>1, <2>3, HallocAssumption DEF Cells
  <2> HIDE DEF d
  <2> QED
    BY <2>5, <2>7, <2>8, <2>9 DEF World, w
<1> QED
  BY <1>1, <1>2

(* halloc(ptr, len) of a block without parent that moves: every parent stays. *)
LEMMA StepAlone ==
    ASSUME ~alone, ~strayed, Families(cells, parentOf), NEW from \in Addrs, NEW to \in Addrs,
           h_realloc(from, to), parentOf[from] = 0, to # from
    PROVE  alone' /\ FreedWithFamily'
<1> DEFINE m == MovedCells(cells, from, to)
           back == cells[from].prev
           n == cells[from].next
           f == cells[from].children
           t == TRUE
<1>1. cells[from] # NULL /\ cells[to] = NULL
  BY DEF h_realloc
<1>2. cells \in Cells /\ parentOf \in [Addrs -> 0..MaxAddr] /\ from # 0 /\ to # 0
  <2>1. cells \in Cells /\ parentOf \in [Addrs -> 0..MaxAddr]
    BY DEF Families, Typed, Cells
  <2> QED
    BY <2>1, HallocAssumption DEF Addrs
<1>3. m \in Cells /\ \A x \in Addrs : m[x] = IF x = to THEN cells[from] ELSE IF x = from THEN NULL ELSE cells[x]
  BY <1>2 DEF MovedCells, Cells
<1>4. Moved(from, to) = On(m) /\ \A d : On(d).cells = d
  BY DEF Moved, On, MovedCells
<1>5. back = NextOf(from) /\ n \in {0, from}
  BY <1>1 DEF Families, Roots
<1>6. f \in 0..MaxAddr /\ (f # 0 => Live(cells, f) /\ f # from /\ f # to)
  BY <1>1, <1>2, CellIs, PointsTo DEF Live
<1>7. m[to] = cells[from] /\ m[from] = NULL
  BY <1>3
<1>8. NextOf(to) \in Refs /\ ChildrenOf(to) \in Refs /\ NextOf(from).of = from
  BY CellsApart
<1>9. f = 0 \/ m[f] # NULL
  BY <1>3, <1>6 DEF Live
<1> DEFINE w == hlist_relink_head(hlist_relink(On(m), to), to)
<1>10. cells' = w.cells
  BY <1>4 DEF h_realloc
<1>11. \E d \in Cells : w = World(d, t) /\ \A x \in Addrs : d[x] = NULL <=> m[x] = NULL
  <2> DEFINE told == Store(On(m), m[to].prev, to)
  <2>1. told = World(m, t)
    <3> DEFINE v == On(m)
               g == FALSE
    <3>1. v = [cells |-> m, wild |-> g] /\ v.cells = m
      BY DEF On
    <3> HIDE DEF v, t, g, m
    <3>2. Store(v, m[to].prev, to) = [v EXCEPT !.wild = TRUE]
      BY <1>5, <1>7, <1>8, <3>1 DEF Store
    <3>3. [v EXCEPT !.wild = t] = [cells |-> m, wild |-> t]
      BY <3>1
    <3>4. [v EXCEPT !.wild = TRUE] = [v EXCEPT !.wild = t]
      BY DEF t
    <3> QED
      BY <3>2, <3>3, <3>4 DEF World, v
  <2> HIDE DEF told, m
  <2>2. told.cells = m
    BY <2>1 DEF World
  <2>3. SetPrev(told, n, NextOf(to)) = World(m, t)
    <3>1. CASE n = 0
      BY <2>1, <3>1 DEF SetPrev
    <3>2. CASE n = from
      <4>1. SetPrev(told, n, NextOf(to)) = [told EXCEPT !.wild = TRUE]
        BY <1>2, <1>7, <2>2, <3>2 DEF SetPrev
      <4> HIDE DEF t
      <4>2. [told EXCEPT !.wild = t] = [cells |-> m, wild |-> t]
        BY <2>1 DEF World
      <4>3. [told EXCEPT !.wild = TRUE] = [told EXCEPT !.wild = t]
        BY DEF t
      <4> QED
        BY <4>1, <4>2, <4>3 DEF World
    <3> QED
      BY <1>5, <3>1, <3>2
  <2>4. hlist_relink(On(m), to) = World(m, t)
    <3>1. hlist_relink(On(m), to) = SetPrev(told, told.cells[to].next, NextOf(to))
      BY <1>4 DEF hlist_relink, told
    <3> QED
      BY <1>7, <2>2, <2>3, <3>1
  <2>5. w = SetPrev(World(m, t), f, ChildrenOf(to))
    <3>1. World(m, t).cells[to].children = f
      BY <1>7 DEF World
    <3> HIDE DEF t
    <3> QED
      BY <2>4, <3>1 DEF hlist_relink_head
  <2> HIDE DEF w, t
  <2> QED
    BY <1>3, <1>6, <1>8, <1>9, <2>5, SetPrevKeeps
<1>12. cells' \in Cells /\ \A x \in Addrs : cells'[x] = NULL <=> m[x] = NULL
  <2>1. PICK d \in Cells : w = World(d, t) /\ \A x \in Addrs : d[x] = NULL <=> m[x] = NULL
    BY <1>11
  <2> HIDE DEF m, w, t
  <2>2. World(d, t).cells = d
    BY DEF World
  <2> QED
    BY <1>10, <2>1, <2>2
<1>13. parentOf' = [a \in Addrs |-> IF a = to THEN parentOf[from]
                                    ELSE IF a = from THEN 0
                                    ELSE IF parentOf[a] = from THEN to ELSE parentOf[a]]
  BY DEF h_realloc
<1>14. ASSUME NEW b \in Addrs, cells'[b] # NULL, parentOf'[b] # 0
       PROVE  cells'[parentOf'[b]] # NULL
  <2>1. b # to /\ b # from /\ cells[b] # NULL /\ parentOf[b] # 0
    BY <1>2, <1>3, <1>12, <1>13, <1>14
  <2>2. Live(cells, parentOf[b])
    BY <2>1, PointsTo
  <2>3. CASE parentOf[b] = from
    <3>1. parentOf'[b] = to
      BY <1>13, <2>1, <2>3
    <3> HIDE DEF m
    <3> QED
      BY <1>1, <1>7, <1>12, <3>1
  <2>4. CASE parentOf[b] # from
    <3>1. parentOf'[b] = parentOf[b]
      BY <1>13, <2>1, <2>4
    <3>2. parentOf[b] # to
      BY <1>1, <2>2 DEF Live
    <3>3. m[parentOf[b]] # NULL
      BY <1>3, <2>2, <2>4, <3>2 DEF Live
    <3> HIDE DEF m
    <3> QED
      BY <1>12, <2>2, <3>1, <3>3 DEF Live
  <2> QED
    BY <2>3, <2>4
<1>15. alone'
  BY DEF h_realloc
<1> QED
  BY <1>14, <1>15 DEF FreedWithFamily, Blocks

-----------------------------------------------------------------------------
(* The first families are none. *)
LEMMA InitSound == HallocInit => Inv
<1> SUFFICES ASSUME HallocInit
             PROVE  Inv
  OBVIOUS
<1>1. Typed(cells, parentOf)
  BY HallocAssumption DEF HallocInit, Typed
<1>2. \A a \in Addrs : cells[a] = NULL
  BY DEF HallocInit
<1>3. [a \in Addrs |-> 0] \in Ranks
  BY DEF Ranks
<1>4. /\ Nexts(cells, parentOf) /\ Firsts(cells, parentOf) /\ Prevs(cells, parentOf) /\ Roots(cells, parentOf)
      /\ Begins(cells, parentOf) /\ Ends(cells, parentOf) /\ Deep(cells, parentOf)
  BY <1>2, <1>3 DEF Nexts, Firsts, Prevs, Roots, HasNext, Begins, Ends, Deep, Upwards, Downwards, Deeper
<1> QED
  BY <1>1, <1>2, <1>4 DEF HallocInit, Inv, Families, FreedWithFamily, Blocks

(* Every operation keeps the invariant. *)
LEMMA StepSound ==
    ASSUME Inv, [HallocNext]_hallocvars
    PROVE  Inv'
<1>1. CASE UNCHANGED hallocvars
  BY <1>1 DEF Inv, hallocvars, FreedWithFamily, Blocks
<1>2. CASE HallocNext
  <2>1. ~alone /\ ~strayed /\ Families(cells, parentOf)
    BY <1>2 DEF HallocNext, Inv
  <2>2. ASSUME ~alone' /\ ~strayed' /\ Families(cells', parentOf')
        PROVE  Inv'
    <3>1. FreedWithFamily'
      BY <2>2, ParentsAreThere DEF FreedWithFamily, Blocks
    <3> QED
      BY <2>2, <3>1 DEF Inv
  <2>3. PICK a \in Addrs : \/ h_malloc(a) \/ h_free(a)
                           \/ \E b \in Addrs \cup {0} : hattach(a, b)
                           \/ \E b \in Addrs : h_realloc(a, b)
    BY <1>2 DEF HallocNext
  <2>4. CASE h_malloc(a)
    BY <2>1, <2>2, <2>4, StepMalloc
  <2>5. CASE h_free(a)
    BY <2>1, <2>2, <2>5, StepFree
  <2>6. ASSUME NEW b \in Addrs \cup {0}, hattach(a, b)
        PROVE  Inv'
    BY <2>1, <2>2, <2>6, StepAttach
  <2>7. ASSUME NEW b \in Addrs, h_realloc(a, b)
        PROVE  Inv'
    <3>1. CASE parentOf[a] # 0 \/ b = a
      BY <2>1, <2>2, <2>7, <3>1, StepRealloc
    <3>2. CASE ~(parentOf[a] # 0 \/ b = a)
      <4>1. alone' /\ FreedWithFamily'
        BY <2>1, <2>7, <3>2, StepAlone
      <4> QED
        BY <4>1 DEF Inv
    <3> QED
      BY <3>1, <3>2
  <2> QED
    BY <2>3, <2>4, <2>5, <2>6, <2>7
<1> QED
  BY <1>1, <1>2

(* The invariant says what it is for. *)
LEMMA InvIsEnough == Inv => FamiliesSound
<1> SUFFICES ASSUME Inv, ~alone
             PROVE  FamiliesIntact
  BY DEF Inv, FamiliesSound, FamiliesIntact
<1>1. ~strayed /\ Families(cells, parentOf) /\ Here = On(cells)
  BY DEF Inv, Here, On
<1>2. ASSUME NEW a \in Blocks
      PROVE  LET list == ChildrenOn(Here, a)
                 first == cells[a].children IN
             /\ list = {b \in Blocks : parentOf[b] = a}
             /\ list # {} => \E b \in list : cells[b].next = 0
             /\ first # 0 => cells[first].prev = ChildrenOf(a)
             /\ \A b \in list : cells[b].next # 0 => cells[cells[b].next].prev = NextOf(b)
  <2> DEFINE list == ChildrenOn(Here, a)
             K == ChildrenOfBlock(cells, parentOf, a)
  <2>1. a \in Addrs /\ cells[a] # NULL /\ a # 0
    BY HallocAssumption DEF Blocks, Addrs
  <2>2. list = K
    BY <1>1, <2>1, ChildrenListed
  <2>3. K = {b \in Blocks : parentOf[b] = a}
    BY DEF ChildrenOfBlock, Blocks
  <2>4. K # {} => \E b \in K : cells[b].next = 0
    BY <1>1, <2>1, ListEnds
  <2>5. cells[a].children # 0 => cells[cells[a].children].prev = ChildrenOf(a)
    BY <1>1, <2>1 DEF Families, Firsts
  <2>6. \A b \in K : cells[b].next # 0 => cells[cells[b].next].prev = NextOf(b)
    BY <1>1, <2>1 DEF Families, Nexts, HasNext, ChildrenOfBlock
  <2> HIDE DEF K, list
  <2> QED
    BY <2>2, <2>3, <2>4, <2>5, <2>6 DEF list
<1> QED
  BY <1>1, <1>2 DEF FamiliesIntact

(* mem/halloc.c: through attaching, detaching, moving and freeing, the links among parent, *)
(* children and siblings agree, and no block keeps a parent that is gone.                  *)
THEOREM FamiliesAreSound == HallocSpec => []FamiliesSound
<1>1. Inv /\ [HallocNext]_hallocvars => Inv'
  BY StepSound
<1> QED
  BY InitSound, <1>1, InvIsEnough, PTL DEF HallocSpec
=============================================================================
