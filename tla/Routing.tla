------------------------------- MODULE Routing --------------------------------
(***************************************************************************)
(* The three tables that a request is looked up in (routing.c, host.c,     *)
(* server.c, mime.c): the hosts of a server, by suffix; the routes of a    *)
(* host, by prefix; the MIME types, by suffix.  Each is a ternary search   *)
(* tree filled once by the configuration and then only read.  table names  *)
(* the one a behaviour is about, tree is its ternary search tree, added    *)
(* the patterns put in so far.  With table = "patterns" there is no tree:  *)
(* a state is a pattern and a string for the matcher.                      *)
(***************************************************************************)
EXTENDS Integers, Sequences, FiniteSets, SequencesExt

(***************************************************************************)
(* The pattern matcher of pattern.c, Lua's without captures.  Characters   *)
(* are their codes, a string is a sequence of them that ends in NUL; a     *)
(* pointer into it is an index, NOMATCH the null pointer.  Patterns are    *)
(* well formed: a class is closed and an escape is followed by something.  *)
(***************************************************************************)

NUL == 0
NOMATCH == 0
L_ESC == 92       \* '\\'
OPEN == 40        \* '('
CLOSE == 41       \* ')'
DOLLAR == 36      \* '$'
DOT == 46         \* '.'
BRACKET == 91     \* '['
BRACKEND == 93    \* ']'
CARET == 94       \* '^'
MINUS == 45       \* '-'
STAR == 42        \* '*'
PLUS == 43        \* '+'
QUESTION == 63    \* '?'

At(s, i) == IF i \in DOMAIN s THEN s[i] ELSE NUL

Lower == 97 .. 122
Upper == 65 .. 90
Digit == 48 .. 57
ToLower(c) == IF c \in Upper THEN c + 32 ELSE c

(* The characters that the ctype function named by a class letter accepts. *)
ClassOf(letter) ==
    CASE letter = 97  -> Lower \cup Upper                                  \* a
      [] letter = 99  -> (0 .. 31) \cup {127}                              \* c
      [] letter = 100 -> Digit                                             \* d
      [] letter = 108 -> Lower                                             \* l
      [] letter = 112 -> (33 .. 126) \ (Lower \cup Upper \cup Digit)       \* p
      [] letter = 115 -> (9 .. 13) \cup {32}                               \* s
      [] letter = 117 -> Upper                                             \* u
      [] letter = 119 -> Lower \cup Upper \cup Digit                       \* w
      [] letter = 120 -> Digit \cup (97 .. 102) \cup (65 .. 70)            \* x
      [] letter = 122 -> {0}                                               \* z

match_class(c, cl) ==
    IF ToLower(cl) \notin {97, 99, 100, 108, 112, 115, 117, 119, 120, 122} THEN cl = c
    ELSE (c \in ClassOf(ToLower(cl))) <=> (cl \in Lower)

(* The index after the single character class that starts at i. *)
classend(p, i) ==
    LET RECURSIVE ToBracket(_)
        ToBracket(j) ==      \* j follows a character of the class
            LET next == IF p[j] = L_ESC /\ At(p, j + 1) # NUL THEN j + 2 ELSE j + 1
            IN  IF At(p, next) = BRACKEND THEN next + 1 ELSE ToBracket(next)
    IN  CASE p[i] = L_ESC -> i + 2
          [] p[i] = BRACKET -> ToBracket(IF At(p, i + 1) = CARET THEN i + 2 ELSE i + 1)
          [] OTHER -> i + 1

(* ec is the index of the closing bracket. *)
matchbracketclass(c, p, i, ec) ==
    LET first == IF p[i + 1] = CARET THEN i + 2 ELSE i + 1
        RECURSIVE Member(_)
        Member(j) ==
            IF j >= ec THEN FALSE
            ELSE IF p[j] = L_ESC THEN match_class(c, p[j + 1]) \/ Member(j + 2)
            ELSE IF p[j + 1] = MINUS /\ j + 2 < ec
                 THEN (p[j] <= c /\ c <= p[j + 2]) \/ Member(j + 3)
            ELSE p[j] = c \/ Member(j + 1)
    IN  Member(first) <=> (first = i + 1)

singlematch(c, p, i, ep) ==
    CASE p[i] = DOT -> TRUE
      [] p[i] = L_ESC -> match_class(c, p[i + 1])
      [] p[i] = BRACKET -> matchbracketclass(c, p, i, ep - 1)
      [] OTHER -> p[i] = c

(* The index after the balanced string that starts at s. *)
matchbalance(str, s, p, i) ==
    LET RECURSIVE Count(_, _)
        Count(j, cont) ==
            IF j > Len(str) THEN NOMATCH
            ELSE IF str[j] = p[i + 1] THEN IF cont = 1 THEN j + 1 ELSE Count(j + 1, cont - 1)
            ELSE Count(j + 1, IF str[j] = p[i] THEN cont + 1 ELSE cont)
    IN  IF At(str, s) # p[i] THEN NOMATCH ELSE Count(s + 1, 1)

RECURSIVE match(_, _, _, _), max_expand(_, _, _, _, _), min_expand(_, _, _, _, _)

Single(str, s, p, i) == s <= Len(str) /\ singlematch(str[s], p, i, classend(p, i))

max_expand(str, s, p, i, ep) ==
    LET RECURSIVE Longest(_), Shrink(_)
        Longest(n) == IF Single(str, s + n, p, i) THEN Longest(n + 1) ELSE n
        Shrink(n) == IF n < 0 THEN NOMATCH
                     ELSE LET res == match(str, s + n, p, ep + 1)
                          IN  IF res # NOMATCH THEN res ELSE Shrink(n - 1)
    IN  Shrink(Longest(0))

min_expand(str, s, p, i, ep) ==
    LET res == match(str, s, p, ep + 1)
    IN  IF res # NOMATCH THEN res
        ELSE IF Single(str, s, p, i) THEN min_expand(str, s + 1, p, i, ep) ELSE NOMATCH

(* A pattern item and its repetition. *)
MatchItem(str, s, p, i) ==
    LET ep == classend(p, i)
        m  == Single(str, s, p, i)
        once == match(str, s + 1, p, ep + 1)
    IN  CASE At(p, ep) = QUESTION -> IF m /\ once # NOMATCH THEN once ELSE match(str, s, p, ep + 1)
          [] At(p, ep) = STAR  -> max_expand(str, s, p, i, ep)
          [] At(p, ep) = PLUS  -> IF m THEN max_expand(str, s + 1, p, i, ep) ELSE NOMATCH
          [] At(p, ep) = MINUS -> min_expand(str, s, p, i, ep)
          [] OTHER -> IF m THEN match(str, s + 1, p, ep) ELSE NOMATCH

MatchFrontier(str, s, p, i) ==
    LET ep == classend(p, i)
        previous == IF s = 1 THEN NUL ELSE str[s - 1]
    IN  IF matchbracketclass(previous, p, i, ep - 1) \/ ~matchbracketclass(At(str, s), p, i, ep - 1)
        THEN NOMATCH ELSE match(str, s, p, ep)

match(str, s, p, i) ==
    LET balanced == matchbalance(str, s, p, i + 2)
    IN  CASE At(p, i) \in {OPEN, CLOSE} -> match(str, s, p, i + 1)
          [] At(p, i) = NUL -> s
          [] At(p, i) = DOLLAR /\ At(p, i + 1) = NUL -> IF s = Len(str) + 1 THEN s ELSE NOMATCH
          [] At(p, i) = L_ESC /\ p[i + 1] = 98 ->       \* \b
                IF balanced = NOMATCH THEN NOMATCH ELSE match(str, balanced, p, i + 4)
          [] At(p, i) = L_ESC /\ p[i + 1] = 102 -> MatchFrontier(str, s, p, i + 2)      \* \f
          [] OTHER -> MatchItem(str, s, p, i)

(* pattern_match and bstring_match: the index after the match. *)
pattern_match(str, p) == match(str, 1, p, 1)

-----------------------------------------------------------------------------

(***************************************************************************)
(* The ternary search tree of adt/tst.c, behind the routes, the hosts and  *)
(* the MIME types.  A node is <<[splitchar, low, equal, high, value]>>,    *)
(* the null pointer <<>>; a value is a sequence too, so that <<>> is the   *)
(* null value.                                                             *)
(***************************************************************************)

CONSTANT MAX_TRAVERSE_SIZE      \* 128 in the code

Char(s, i) == IF i \in DOMAIN s THEN s[i] ELSE 0       \* strings end in NUL

(* tst_insert of value under s from its ith character on; the empty key is *)
(* stored under the NUL that ends it.                                      *)
RECURSIVE tst_insert_base(_, _, _, _)
tst_insert_base(node, s, i, value) ==
    LET p == IF node # <<>> THEN node[1]
             ELSE [splitchar |-> Char(s, i), low |-> <<>>, equal |-> <<>>, high |-> <<>>,
                   value |-> <<>>]
    IN  IF Char(s, i) < p.splitchar
        THEN <<[p EXCEPT !.low = tst_insert_base(@, s, i, value)]>>
        ELSE IF Char(s, i) > p.splitchar
        THEN <<[p EXCEPT !.high = tst_insert_base(@, s, i, value)]>>
        ELSE IF i < Len(s) THEN <<[p EXCEPT !.equal = tst_insert_base(@, s, i + 1, value)]>>
        ELSE <<[p EXCEPT !.value = value]>>

tst_insert(root, s, value) == tst_insert_base(root, s, 1, value)

(* One step down, for the character c; a match is the node itself. *)
Turn(p, c) == IF c < p[1].splitchar THEN p[1].low ELSE p[1].high
ValueOf(p) == IF p = <<>> THEN <<>> ELSE p[1].value

tst_search(root, s) ==
    LET RECURSIVE Down(_, _)
        Down(p, i) == IF i > Len(s) \/ p = <<>> THEN p
                      ELSE IF s[i] # p[1].splitchar THEN Down(Turn(p, s[i]), i)
                      ELSE IF i < Len(s) THEN Down(p[1].equal, i + 1) ELSE p
    IN  ValueOf(Down(root, 1))

(* The node where the descent stops, and the last node with a value before *)
(* it.                                                                     *)
RECURSIVE PrefixDown(_, _, _, _)
PrefixDown(p, last, s, i) ==
    IF i > Len(s) \/ p = <<>> THEN [p |-> p, last |-> last]
    ELSE IF s[i] # p[1].splitchar THEN PrefixDown(Turn(p, s[i]), last, s, i)
    ELSE IF i < Len(s)
    THEN PrefixDown(p[1].equal, IF p[1].value # <<>> THEN p ELSE last, s, i + 1)
    ELSE [p |-> p, last |-> last]

tst_search_prefix(root, s) ==
    LET found == PrefixDown(root, <<>>, s, 1)
    IN  IF s = <<>> THEN <<>>
        ELSE IF found.p # <<>> THEN ValueOf(found.p) ELSE ValueOf(found.last)

(* From the last character to the second. *)
RECURSIVE SuffixDown(_, _, _, _)
SuffixDown(p, last, s, i) ==
    IF i <= 1 \/ p = <<>> THEN [p |-> p, last |-> last]
    ELSE IF s[i] # p[1].splitchar THEN SuffixDown(Turn(p, s[i]), last, s, i)
    ELSE SuffixDown(p[1].equal, IF p[1].value # <<>> THEN p ELSE last, s, i - 1)

tst_search_suffix(root, s) ==
    LET found == SuffixDown(root, <<>>, s, Len(s))
    IN  IF s = <<>> THEN <<>>
        ELSE IF found.p # <<>> THEN ValueOf(found.p) ELSE ValueOf(found.last)

(* Mutant: the ring is copied as it lies. *)
tst_resize_queue_Straight(queue, q_start, q_size, q_max, new_size) ==
    [i \in 0 .. new_size - 1 |-> IF i < q_size THEN queue[i] ELSE <<>>]

(* A ring of q_max places, copied to a larger one. *)
tst_resize_queue(queue, q_start, q_size, q_max, new_size) ==
    [i \in 0 .. new_size - 1 |->
        IF i < q_size THEN queue[(i + q_start) % q_max] ELSE <<>>]

(* The nodes with a value, breadth first. *)
RECURSIVE TraverseQueue(_, _, _, _)
TraverseQueue(queue, q_start, q_size, q_max) ==
    IF q_size = 0 THEN <<>>
    ELSE LET cur  == queue[q_start][1]
             start == (q_start + 1) % q_max
             full == q_size - 1 + 3 > q_max
             from == IF full THEN 0 ELSE start
             max  == IF full THEN q_max * 2 ELSE q_max
             room == IF full THEN tst_resize_queue(queue, start, q_size - 1, q_max, max) ELSE queue
             more == SelectSeq(<<cur.low, cur.equal, cur.high>>, LAMBDA child : child # <<>>)
             filled == [i \in 0 .. max - 1 |->
                          IF \E k \in DOMAIN more : (from + q_size - 2 + k) % max = i
                          THEN more[CHOOSE k \in DOMAIN more : (from + q_size - 2 + k) % max = i]
                          ELSE room[i]]
         IN  (IF cur.value = <<>> THEN <<>> ELSE <<cur.value>>)
             \o TraverseQueue(filled, from, q_size - 1 + Len(more), max)

tst_traverse(p) ==
    IF p = <<>> THEN <<>>
    ELSE TraverseQueue([i \in 0 .. MAX_TRAVERSE_SIZE - 1 |-> IF i = 0 THEN p ELSE <<>>],
                       0, 1, MAX_TRAVERSE_SIZE)

(* tst_collect: the values that are handed to the tester, those below the  *)
(* place where the prefix ends, or below the last value on the way to      *)
(* where it was lost.                                                      *)
Collected(root, s) ==
    LET found == PrefixDown(root, root, s, 1)
    IN  tst_traverse(IF found.p = <<>> THEN found.last ELSE found.p)

CONSTANTS Paths,        \* the route patterns a configuration may hold
          Hostnames,    \* the host patterns
          Extensions,   \* the file extensions
          Targets,      \* the paths and host names that are looked up
          Default,      \* default_hostname
          Items,        \* pattern items: their text and what they mean
          Subjects      \* the strings that patterns are tried on

VARIABLES table, tree, added, probe

routingvars == <<table, tree, added, probe>>

(* The index before the first '(' and after the last ')', if there is one. *)
FirstParen(p) == {i \in DOMAIN p : p[i] = OPEN /\ \A j \in 1 .. i - 1 : p[j] # OPEN}
LastParen(p)  == {i \in DOMAIN p : p[i] = CLOSE /\ \A j \in i + 1 .. Len(p) : p[j] # CLOSE}

(* Route: what a tree holds. *)
Route(pattern, has_pattern) == <<pattern, has_pattern>>

PrefixOf(p)   == IF FirstParen(p) = {} THEN p ELSE SubSeq(p, 1, (CHOOSE i \in FirstParen(p) : TRUE) - 1)
ReversedOf(p) == Reverse(IF LastParen(p) = {} THEN p
                         ELSE SubSeq(p, (CHOOSE i \in LastParen(p) : TRUE) + 1, Len(p)))

RouteKey(p) == CASE table = "routes" -> PrefixOf(p)
              [] table = "hosts"  -> ReversedOf(p)
              [] OTHER -> Reverse(p)

(* Key of the tree: the empty prefix is stored as the NUL that ends it. *)
Stored(p) == IF RouteKey(p) = <<>> THEN <<NUL>> ELSE RouteKey(p)

(* RouteMap_insert for a path of the configuration.  A key that is in use  *)
(* fails the assertion of tst_insert; a build without it is in Config.     *)
RouteMap_insert(p) ==
    /\ table = "routes"
    /\ tst_search(tree, Stored(p)) = <<>>
    /\ tree' = tst_insert(tree, PrefixOf(p), Route(p, FirstParen(p) # {}))

RouteMap_insert_reversed(p) ==
    /\ table = "hosts"
    /\ tst_search(tree, Stored(p)) = <<>>
    /\ tree' = tst_insert(tree, ReversedOf(p), Route(p, LastParen(p) # {}))

MIME_add_type(ext) ==
    /\ table = "types"
    /\ tst_search(tree, Reverse(ext)) = <<>>
    /\ tree' = tst_insert(tree, Reverse(ext), ext)

(* What a found route is worth: its pattern, if any, must match too. *)
Checked(route, target) ==
    IF route = <<>> THEN <<>>
    ELSE IF route[2] /\ pattern_match(target, route[1]) = NOMATCH THEN <<>> ELSE route

RouteMap_simple_prefix_match(target) == Checked(tst_search_prefix(tree, target), target)
RouteMap_match_suffix(target) == Checked(tst_search_suffix(tree, target), target)

Host_match_backend(target) == RouteMap_simple_prefix_match(target)

(* The host of the Host header: the default host answers to its name. *)
Server_match_backend(target) ==
    LET found == RouteMap_match_suffix(target)
    IN  IF found # <<>> THEN found
        ELSE IF pattern_match(target, Default) # NOMATCH THEN Route(Default, FALSE) ELSE <<>>

MIME_match_ext(path) == tst_search_suffix(tree, path)

RouteMap_match(path) ==
    SelectSeq(Collected(tree, path),
              LAMBDA route : ~route[2] \/ pattern_match(path, route[1]) # NOMATCH)

(* The order in which RouteMap_cleanup and MIME_traverse_destroy free. *)
Cleanup == tst_traverse(tree)

RouteMap_destroy ==
    /\ table # "patterns" /\ tree # <<>>
    /\ tree' = <<>> /\ added' = {}
    /\ UNCHANGED <<table, probe>>

Insert ==
    \E p \in Paths \cup Hostnames \cup Extensions :
        /\ \/ p \in Paths /\ RouteMap_insert(p)
           \/ p \in Hostnames /\ RouteMap_insert_reversed(p)
           \/ p \in Extensions /\ MIME_add_type(p)
        /\ added' = added \cup {p}
        /\ UNCHANGED <<table, probe>>

(* A pattern of up to two items, with or without '$', and a subject. *)
Render(items, anchored) ==
    FlattenSeq([i \in DOMAIN items |-> items[i].text]) \o (IF anchored THEN <<DOLLAR>> ELSE <<>>)

NoProbe == [items |-> <<>>, anchored |-> FALSE, subject |-> <<>>]
Probes == {[items |-> i, anchored |-> a, subject |-> s] :
              i \in SeqOf(Items, 2), a \in BOOLEAN, s \in Subjects}

RoutingInit ==
    /\ tree = <<>> /\ added = {}
    /\ \/ table \in {"routes", "hosts", "types"} /\ probe = NoProbe
       \/ table = "patterns" /\ probe \in Probes

RoutingNext == Insert \/ RouteMap_destroy
-----------------------------------------------------------------------------
Longest(keys) == CHOOSE k \in keys : \A j \in keys : Len(j) <= Len(k)
KeyPattern(k) == CHOOSE p \in added : Stored(p) = k
PrefixesOf(s) == {SubSeq(s, 1, i) : i \in 1 .. Len(s)}

(* The keys of added that a target goes through, and whether the target is *)
(* on the way to a longer key.                                             *)
Along(target) == {Stored(p) : p \in added} \cap PrefixesOf(target)
Beyond(target) == \E p \in added : Stored(p) # target /\ target \in PrefixesOf(Stored(p))

(* The route with the longest prefix of the target, if its pattern matches. *)
LongestRoute(target) ==
    LET best == KeyPattern(Longest(Along(target)))
        fits == FirstParen(best) # {} => pattern_match(target, best) # NOMATCH
    IN  IF Along(target) # {} /\ fits THEN Route(best, FirstParen(best) # {}) ELSE <<>>

(* What Host_match_backend answers (host.c:118): the longest route, or     *)
(* nothing for a path that is no prefix itself and the beginning of a      *)
(* longer one (tst.c:146), where LongestPrefixWins fails.                  *)
PrefixAnswer ==
    table = "routes" =>
        \A target \in Targets :
            \/ Host_match_backend(target) = LongestRoute(target)
            \/ /\ Beyond(target) /\ target \notin Along(target)
               /\ Host_match_backend(target) = <<>>

(* What tst_search_suffix finds for a host or a file name (server.c:173,   *)
(* mime.c:75), which never looks at the first character of the target: the *)
(* entry with the longest end of the target without it.  When an entry     *)
(* goes on from there (tst.c:115) it may also find an entry of the         *)
(* target's length that differs in the first character at most, or nothing.*)
SuffixAnswer ==
    table \in {"hosts", "types"} =>
        \A target \in Targets :
            LET found == tst_search_suffix(tree, target)
                stored == {Stored(p) : p \in added}
                short == Tail(target)
                Entry(k) == IF table = "hosts" THEN Route(KeyPattern(k), LastParen(KeyPattern(k)) # {})
                                               ELSE KeyPattern(k)
                on   == {k \in stored : IsStrictPrefix(Reverse(short), k)}
                ends == {k \in stored : IsPrefix(k, Reverse(short))}
                same == {k \in on : Len(k) = Len(target)}
            IN  \/ found = IF ends = {} THEN <<>> ELSE Entry(Longest(ends))
                \/ on # {} /\ found \in {<<>>} \cup {Entry(k) : k \in same}

(* tst_traverse reaches every entry once although its ring is enlarged on  *)
(* the way: RouteMap_destroy frees each route exactly once (routing.c:71). *)
CleanupFreesEachOnce ==
    /\ Len(Cleanup) = Cardinality(added)
    /\ Cardinality(ToSet(Cleanup)) = Cardinality(added)
    /\ \A p \in added : tst_search(tree, Stored(p)) # <<>>

(* RouteMap_match (routing.c:171) collects every route whose prefix goes   *)
(* on from the path, and no route whose pattern does not match.            *)
CollectIsComplete ==
    table = "routes" =>
        \A path \in Targets :
            LET collected == ToSet(RouteMap_match(path))
            IN  /\ \A p \in added :
                      /\ path \in PrefixesOf(Stored(p))
                      /\ FirstParen(p) # {} => pattern_match(path, p) # NOMATCH
                      => Route(p, FirstParen(p) # {}) \in collected
                /\ \A route \in collected : Checked(route, path) = route

-----------------------------------------------------------------------------
(* The meaning of a pattern: the places where a match from i on can end,   *)
(* the preferred one first.  * and + prefer more repetitions, - fewer.     *)
RECURSIVE EndsOf(_, _, _, _)
EndsOf(items, anchored, s, i) ==
    IF items = <<>> THEN IF anchored /\ i # Len(s) + 1 THEN <<>> ELSE <<i>>
    ELSE LET item == Head(items)
             most == CHOOSE n \in 0 .. Len(s) + 1 - i :
                        /\ \A k \in 0 .. n - 1 : s[i + k] \in item.chars
                        /\ i + n > Len(s) \/ s[i + n] \notin item.chars
             low  == IF item.repeat \in {"one", "plus"} THEN 1 ELSE 0
             high == IF item.repeat \in {"one", "option"} /\ most > 1 THEN 1 ELSE most
             times == [k \in 1 .. high - low + 1 |->
                          IF item.repeat = "minus" THEN low + k - 1 ELSE high - k + 1]
         IN  FlattenSeq([k \in DOMAIN times |->
                            EndsOf(Tail(items), anchored, s, i + times[k])])

(* pattern_match (pattern.c:167) answers with the preferred match of the   *)
(* documented meaning of the pattern (managing.tex:427), backtracking      *)
(* where a longest repetition leaves nothing for the rest.                 *)
MatcherIsExact ==
    table = "patterns" =>
        LET ends == EndsOf(probe.items, probe.anchored, probe.subject, 1)
        IN  pattern_match(probe.subject, Render(probe.items, probe.anchored)) =
                IF ends = <<>> THEN NOMATCH ELSE ends[1]

(* \bxy (pattern.c:103) takes the shortest beginning with as many x as y. *)
BalanceIsShortest ==
    table = "patterns" =>
        LET s == probe.subject
            Count(c, n) == Cardinality({i \in 1 .. n : s[i] = c})
            ends == {n \in 1 .. Len(s) : s[1] = 97 /\ Count(97, n) = Count(98, n)}
            found == pattern_match(s, <<L_ESC, 98, 97, 98>>)
        IN  IF ends = {} THEN found = NOMATCH
            ELSE found - 1 \in ends /\ \A n \in ends : found - 1 <= n

(***************************************************************************)
(* The tables of routes, hosts and MIME types (tst.c, routing.c, host.c)   *)
(* and their patterns (pattern.c): whatever was added in whatever order, a *)
(* search answers with the entry that its meaning chooses, every match is  *)
(* collected, and destroying the table frees every entry once.             *)
(***************************************************************************)
RoutesFaithful ==
    /\ PrefixAnswer /\ SuffixAnswer
    /\ CollectIsComplete /\ CleanupFreesEachOnce
    /\ MatcherIsExact /\ BalanceIsShortest

-----------------------------------------------------------------------------
(* What the manual says. *)

(***************************************************************************)
(* "Mongrel2 quickly finds the longest prefix that matches the URL, and    *)
(* then tests its pattern if there is one.  If the pattern is valid, the   *)
(* request goes through": of every path, whatever other routes there are.  *)
(***************************************************************************)
LongestPrefixWins ==
    table = "routes" =>
        \A target \in Targets : Host_match_backend(target) = LongestRoute(target)
=============================================================================
