----------------------------- MODULE MCStructures -----------------------------
(***************************************************************************)
(* The data structures that the server is built on, each in every sequence *)
(* of its operations: dictionaries, lists and hash tables (Containers),    *)
(* the search trees of routes, hosts and MIME types with their patterns    *)
(* (Routing), the blocks of the hierarchical allocator (Halloc), strings   *)
(* with their streams and codecs (Strings) and the large numbers of the    *)
(* SSL library (Numbers).  They share nothing; a behaviour is about one of *)
(* them and the others stay as they are.                                   *)
(***************************************************************************)
EXTENDS Containers, Routing, Halloc, Strings, Numbers

VARIABLE part   \* which one

structuresvars == <<part, containersvars, routingvars, hallocvars, stringsvars, numbersvars>>

NoContainer == kind = "none" /\ store = <<>> /\ model = <<>>
NoRoutes == table = "none" /\ tree = <<>> /\ added = {} /\ probe = NoProbe
NoNumbers ==
    /\ num = bi_initialize(0) /\ asked = None
    /\ key = NoKey /\ block = <<>> /\ plain = <<>> /\ blocks = 0

NoString ==
    /\ task = "none" /\ calls = 0 /\ torn = "" /\ by = <<>>
    /\ want = <<>> /\ str = bfromcstr(<<>>)
    /\ stream = bsopen(4) /\ file = <<>> /\ rest = <<>>
    /\ ws = bwsOpen(4) /\ written = <<>> /\ accepted = <<>>

StructuresInit ==
    \/ part = "containers" /\ ContainersInit /\ NoRoutes /\ HallocInit /\ NoString /\ NoNumbers
    \/ part = "routing" /\ NoContainer /\ RoutingInit /\ HallocInit /\ NoString /\ NoNumbers
    \/ part = "halloc" /\ NoContainer /\ NoRoutes /\ HallocInit /\ NoString /\ NoNumbers
    \/ part = "strings" /\ NoContainer /\ NoRoutes /\ HallocInit /\ StringsInit /\ NoNumbers
    \/ part = "numbers" /\ NoContainer /\ NoRoutes /\ HallocInit /\ NoString /\ NumbersInit

StructuresNext ==
    /\ part' = part
    /\ \/ /\ part = "containers" /\ ContainersNext
          /\ UNCHANGED <<routingvars, hallocvars, stringsvars, numbersvars>>
       \/ /\ part = "routing" /\ RoutingNext
          /\ UNCHANGED <<containersvars, hallocvars, stringsvars, numbersvars>>
       \/ /\ part = "halloc" /\ HallocNext
          /\ UNCHANGED <<containersvars, routingvars, stringsvars, numbersvars>>
       \/ /\ part = "strings" /\ StringsNext
          /\ UNCHANGED <<containersvars, routingvars, hallocvars, numbersvars>>
       \/ /\ part = "numbers" /\ NumbersNext
          /\ UNCHANGED <<containersvars, routingvars, hallocvars, stringsvars>>

StructuresSpec == StructuresInit /\ [][StructuresNext]_structuresvars

\* Six tree nodes with two pairs of equal keys, five list nodes with two equal ones, nine
\* hash nodes of which two collide, in a table of two chains at first, so that it grows
\* twice and shrinks.
MCKeyOf == <<1, 2, 2, 3, 4, 4>>
MCDataOf == <<2, 1, 2, 3, 1>>
MCHashOf == <<0, 1, 2, 3, 6, 6, 7, 4, 5>>

\* Letters a, b and a slash; routes with and without a pattern; hosts that differ in their
\* first letter only.
a == 97
b == 98
SLASH == 47

MCPaths == {<<SLASH>>, <<SLASH, a>>, <<SLASH, b, a>>, <<SLASH, b, OPEN, DOT, MINUS, CLOSE, DOLLAR>>,
            <<SLASH, a, a, OPEN, b, PLUS, CLOSE>>, <<OPEN, a, CLOSE>>}
MCHostnames == {<<a>>, <<b, a>>, <<a, a>>, <<a, b, a>>, <<OPEN, DOT, STAR, CLOSE, b, b>>}
MCExtensions == {<<DOT, a>>, <<DOT, b>>, <<DOT, b, a>>}
MCDefault == <<a, b>>
MCTargets == SeqOf({SLASH, a, b}, 4) \ {<<>>}
MCSubjects == SeqOf({a, b}, 4)

MCItems ==
    LET atoms == {<<<<a>>, {a}>>, <<<<DOT>>, {a, b}>>, <<<<BRACKET, CARET, a, BRACKEND>>, {b}>>,
                  <<<<BRACKET, a, MINUS, b, BRACKEND>>, {a, b}>>, <<<<L_ESC, 85>>, {a, b}>>,
                  <<<<BRACKET, L_ESC, 100, b, BRACKEND>>, {b}>>}
        marks == {<<"one", <<>>>>, <<"star", <<STAR>>>>, <<"plus", <<PLUS>>>>,
                  <<"minus", <<MINUS>>>>, <<"option", <<QUESTION>>>>}
    IN  {[text |-> at[1] \o m[2], chars |-> at[2], repeat |-> m[1]] : at \in atoms, m \in marks}

\* Texts at, below and above the size of the smallest block, with blanks and repeated
\* letters; arguments that repeat them.
MCTexts == {<<32, 97, 65>>, <<97, 97, 98, 97, 97, 98, 32>>}
MCPieces == {<<>>, <<97>>, <<97, 98, 97>>}
MCLetters == {32, 97}
MCFiles == {<<>>, <<97>>, <<98, 97, 98, 98, 98>>, <<98, 98, 98, 98, 98, 98, 32, 97, 97, 98>>}

\* Bytes of two bits, two of them a component; numbers of up to eight components.
\* The top component of 4093 is all ones.
MCModuli == {256, 3581, 4093, 65537, 983037}
MCLeft == {0, 1, 2, 9, 15, 16, 17, 31, 200, 255, 256, 1792, 4095, 65535, 65536, 1048575}
MCRight == {0, 1, 2, 15, 16, 31, 143, 239, 1500}
MCSquared == {0, 1, 15, 16, 239, 255, 256, 3855, 4080, 4095, 4097, 39321, 46340}
MCWide == {0, 1, 15, 16, 31} \cup {x * 16^i + y : x \in {1, 9, 15}, i \in 1..6, y \in {0, 213}}
          \cup {3581 * x : x \in {17, 4092, 4094}} \cup {983037 * x : x \in {2, 2047}}
MCExponents == {1, 5, 53}

\* Two primes of three components; the second modulus is a byte longer than its blocks; the
\* top components of the third are all ones.
MCKeys == {[m |-> Bytes(9497833, 12), e |-> Bytes(3, 2), d |-> Bytes(6327779, 12),
            p |-> Bytes(3167, 6), q |-> Bytes(2999, 6),
            dP |-> Bytes(2111, 6), dQ |-> Bytes(1999, 6), qInv |-> Bytes(886, 8)],
           [m |-> Bytes(235411361, 14), e |-> Bytes(11, 2), d |-> Bytes(213951011, 14),
            p |-> Bytes(61417, 8), q |-> Bytes(3833, 6),
            dP |-> Bytes(39083, 8), dQ |-> Bytes(2787, 6), qInv |-> Bytes(10351, 8)],
           [m |-> Bytes(268046411, 14), e |-> Bytes(11, 2), d |-> Bytes(170530691, 14),
            p |-> Bytes(65521, 8), q |-> Bytes(4091, 6),
            dP |-> Bytes(47651, 6), dQ |-> Bytes(2231, 6), qInv |-> Bytes(16128, 8)]}
MCPlain == {<<>>, <<0, 0>>, <<0, 2, 0>>}
=============================================================================
