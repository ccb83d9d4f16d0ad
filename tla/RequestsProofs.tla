---------------------------- MODULE RequestsProofs ----------------------------
(***************************************************************************)
(* Proofs about the requests of a connection (Requests), for any messages  *)
(* that the grammar lets through, of any length and with any headers.      *)
(*                                                                         *)
(* Two arguments meet.  The first is about texts: a function that is       *)
(* computed along a text does the same to the text without its last        *)
(* character, from which what the two replacements of the escaping and the *)
(* JSON reader do follows for every text by going up to its length.  The   *)
(* second is the invariant of the request: every string that it has is     *)
(* live and at one place, and what it has of the message together with the *)
(* callbacks that are left is the message.                                 *)
(***************************************************************************)
EXTENDS Requests, SequenceTheorems, WellFoundedInduction, TLAPS

-----------------------------------------------------------------------------
(* Functions that are computed along a text. *)

(* A set of numbers that is not empty has a least one. *)
LEMMA LeastNumber ==
    ASSUME NEW T, T \subseteq Nat, T # {}
    PROVE  \E x \in T : x \in Nat /\ \A y \in T : x <= y
<1> DEFINE R == OpToRel(<, Nat)
<1>1. IsWellFoundedOn(R, Nat)
  BY NatLessThanWellFounded
<1>2. \A x, y \in Nat : y < x => <<y, x>> \in R
  BY DEF OpToRel
<1> HIDE DEF R
<1>3. PICK x \in T : \A y \in T : ~ (<<y, x>> \in R)
  BY <1>1, WFMin
<1>4. x \in Nat
  OBVIOUS
<1>5. ASSUME NEW y \in T
      PROVE  x <= y
  <2>1. y \in Nat /\ ~(<<y, x>> \in R)
    BY <1>3
  <2>2. ~(y < x)
    BY <1>2, <1>4, <2>1
  <2> QED
    BY <1>4, <2>1, <2>2
<1> QED
  BY <1>4, <1>5

(* Induction up to n, for a set of numbers that has the ones for which a claim holds. *)
LEMMA Induction ==
    ASSUME NEW n \in Nat, NEW good, 0 \in good, \A i \in 0..(n - 1) : i \in good => i + 1 \in good
    PROVE  \A i \in 0..n : i \in good
<1> DEFINE bad == {i \in 0..n : i \notin good}
<1>1. bad \subseteq Nat
  OBVIOUS
<1>2. CASE bad = {}
  BY <1>2
<1>3. CASE bad # {}
  <2>1. PICK i \in bad : i \in Nat /\ \A j \in bad : i <= j
    <3> HIDE DEF bad
    <3> QED
      BY <1>1, <1>3, LeastNumber
  <2>2. i # 0 /\ i \in 0..n /\ i \notin good
    OBVIOUS
  <2>3. i - 1 \in 0..(n - 1)
    BY <2>1, <2>2
  <2>4. i - 1 \in 0..n
    BY <2>1, <2>2
  <2>5. i - 1 \in good
    BY <2>1, <2>4
  <2>6. (i - 1) + 1 \in good
    BY <2>3, <2>5
  <2> QED
    BY <2>1, <2>2, <2>6
<1> QED
  BY <1>2, <1>3

(* What n steps from base make, one after the other. *)
Steps(f, S, n, base, step) ==
    /\ f \in [0..n -> S]
    /\ \A i \in 0..n : f[i] = IF i = 0 THEN base ELSE step[<<f[i - 1], i>>]

(* There is a function that the steps make. *)
LEMMA StepsExist ==
    ASSUME NEW S, NEW base \in S, NEW n \in Nat, NEW step \in [S \X (1..n) -> S]
    PROVE  \E f : Steps(f, S, n, base, step)
<1> DEFINE good == {m \in Nat : m \in 0..n => \E f : Steps(f, S, m, base, step)}
<1>1. 0 \in good
  <2>1. [x \in 0..0 |-> base] \in [0..0 -> S]
    OBVIOUS
  <2>2. Steps([x \in 0..0 |-> base], S, 0, base, step)
    BY <2>1 DEF Steps
  <2> QED
    BY <2>2
<1>2. ASSUME NEW m \in 0..(n - 1), m \in good
      PROVE  m + 1 \in good
  <2>1. PICK g : Steps(g, S, m, base, step)
    BY <1>2
  <2> DEFINE h == [x \in 0..(m + 1) |-> IF x = m + 1 THEN step[<<g[m], m + 1>>] ELSE g[x]]
  <2>2. m \in 0..m /\ m + 1 \in 1..n /\ g \in [0..m -> S] /\ g[m] \in S
    BY <2>1 DEF Steps
  <2>3. step[<<g[m], m + 1>>] \in S
    BY <2>2
  <2>4. h \in [0..(m + 1) -> S]
    BY <2>2, <2>3
  <2>5. h[0] = base
    <3>1. 0 \in 0..m /\ 0 \in 0..(m + 1) /\ m + 1 # 0
      OBVIOUS
    <3>2. g[0] = base
      BY <2>1, <3>1 DEF Steps
    <3> QED
      BY <3>1, <3>2
  <2>6. ASSUME NEW i \in 1..(m + 1)
        PROVE  h[i] = step[<<h[i - 1], i>>]
    <3>1. i - 1 \in 0..m /\ h[i - 1] = g[i - 1]
      OBVIOUS
    <3>2. CASE i = m + 1
      <4>1. i - 1 = m /\ h[i] = step[<<g[m], m + 1>>]
        BY <3>2
      <4> QED
        BY <3>1, <3>2, <4>1
    <3>3. CASE i # m + 1
      <4>1. i \in 0..m /\ i # 0 /\ h[i] = g[i]
        BY <3>3
      <4>2. g[i] = step[<<g[i - 1], i>>]
        BY <2>1, <4>1 DEF Steps
      <4> QED
        BY <3>1, <4>1, <4>2
    <3> QED
      BY <3>2, <3>3
  <2>7. Steps(h, S, m + 1, base, step)
    <3> HIDE DEF h
    <3> QED
      BY <2>4, <2>5, <2>6 DEF Steps
  <2> QED
    BY <2>7
<1>3. \A i \in 0..n : i \in good
  <2> HIDE DEF good
  <2> QED
    BY <1>1, <1>2, Induction
<1> QED
  BY <1>3

SameSteps(S, n, step, other) == \A x \in S : \A i \in 1..n : step[<<x, i>>] = other[<<x, i>>]

(* And only one, as far as the steps are the same. *)
LEMMA StepsUnique ==
    ASSUME NEW S, NEW n \in Nat, NEW m \in Nat, n <= m, NEW base, NEW step, NEW other,
           NEW f, Steps(f, S, n, base, step), NEW g, Steps(g, S, m, base, other),
           SameSteps(S, n, step, other)
    PROVE  \A i \in 0..n : f[i] = g[i]
<1> DEFINE good == {i \in Nat : i \in 0..n => f[i] = g[i]}
<1>1. 0 \in good
  <2>1. 0 \in 0..n /\ 0 \in 0..m
    OBVIOUS
  <2>2. f[0] = base
    BY <2>1 DEF Steps
  <2>3. g[0] = base
    BY <2>1 DEF Steps
  <2> QED
    BY <2>2, <2>3
<1>2. ASSUME NEW i \in 0..(n - 1), i \in good
      PROVE  i + 1 \in good
  <2>1. f[i + 1] = step[<<f[i], i + 1>>] /\ g[i + 1] = other[<<g[i], i + 1>>]
    BY DEF Steps
  <2>2. f[i] \in S /\ i + 1 \in 1..n /\ f[i] = g[i]
    BY <1>2 DEF Steps
  <2>3. step[<<f[i], i + 1>>] = other[<<f[i], i + 1>>]
    BY <2>2 DEF SameSteps
  <2> QED
    BY <2>1, <2>2, <2>3
<1>3. \A i \in 0..n : i \in good
  <2> HIDE DEF good
  <2> QED
    BY <1>1, <1>2, Induction
<1> QED
  BY <1>3

-----------------------------------------------------------------------------
(* bfindreplace. *)
Replacement(x, ch, by) == IF x = ch THEN by ELSE <<x>>

ReplaceStep(C, text, ch, by) ==
    [p \in Seq(C) \X (1..Len(text)) |-> p[1] \o Replacement(text[p[2]], ch, by)]

(* Its steps are those of one function. *)
LEMMA ReplaceSteps ==
    ASSUME NEW C, NEW text \in Seq(C), NEW ch, NEW by \in Seq(C)
    PROVE  \E f :
               /\ Steps(f, Seq(C), Len(text), <<>>, ReplaceStep(C, text, ch, by))
               /\ bfindreplace(text, ch, by) = f[Len(text)]
<1> DEFINE n == Len(text)
           step == ReplaceStep(C, text, ch, by)
           Done(f) == f = [i \in 0..Len(text) |->
                              IF i = 0 THEN <<>> ELSE f[i - 1] \o (IF text[i] = ch THEN by ELSE <<text[i]>>)]
<1>1. n \in Nat /\ DOMAIN text = 1..n /\ \A i \in 1..n : text[i] \in C
  OBVIOUS
<1>2. step \in [Seq(C) \X (1..n) -> Seq(C)]
  <2>1. \A i \in 1..n : Replacement(text[i], ch, by) \in Seq(C)
    BY <1>1 DEF Replacement
  <2>2. \A p \in Seq(C) \X (1..n) : p[1] \o Replacement(text[p[2]], ch, by) \in Seq(C)
    BY <2>1
  <2> QED
    BY <2>2 DEF ReplaceStep
<1>3. <<>> \in Seq(C)
  OBVIOUS
<1>4. \A a \in Seq(C) : \A i \in 1..n :
          step[<<a, i>>] = a \o (IF text[i] = ch THEN by ELSE <<text[i]>>)
  BY DEF ReplaceStep, Replacement
<1>5. PICK f : Steps(f, Seq(C), n, <<>>, step)
  <2> HIDE DEF n, step
  <2> QED
    BY <1>1, <1>2, <1>3, StepsExist
<1>6. Done(f)
  <2>1. f \in [0..n -> Seq(C)]
    BY <1>5 DEF Steps
  <2>3. \A i \in 0..n : i # 0 => f[i - 1] \in Seq(C) /\ i \in 1..n
    BY <1>1, <2>1
  <2>2. \A i \in 0..n : (IF i = 0 THEN <<>> ELSE step[<<f[i - 1], i>>])
            = (IF i = 0 THEN <<>> ELSE f[i - 1] \o (IF text[i] = ch THEN by ELSE <<text[i]>>))
    <3> HIDE DEF n, step
    <3> QED
      BY <1>4, <2>3
  <2> QED
    BY <1>5, <2>1, <2>2 DEF Steps
<1> DEFINE g == CHOOSE h : Done(h)
<1>7. bfindreplace(text, ch, by) = g[n]
  BY DEF bfindreplace
<1>8. Done(g)
  BY <1>6
<1>9. g[n] = f[n]
  <2> DEFINE good == {i \in Nat : i \in 0..n => f[i] = g[i]}
  <2>1. 0 \in good
    <3> HIDE DEF g
    <3> QED
      BY <1>1, <1>6, <1>8
  <2>2. ASSUME NEW i \in 0..(n - 1), i \in good
        PROVE  i + 1 \in good
    <3> HIDE DEF g
    <3>1. f[i] = g[i] /\ i + 1 \in 0..n /\ i + 1 # 0
      BY <1>1, <2>2
    <3>2. (i + 1) - 1 = i
      BY <2>2, <1>1
    <3>3. f[i + 1] = f[i] \o (IF text[i + 1] = ch THEN by ELSE <<text[i + 1]>>)
      BY <1>6, <3>1, <3>2
    <3>4. g[i + 1] = g[i] \o (IF text[i + 1] = ch THEN by ELSE <<text[i + 1]>>)
      BY <1>8, <3>1, <3>2
    <3>5. f[i + 1] = g[i + 1]
      BY <3>1, <3>3, <3>4
    <3>6. i + 1 \in Nat
      BY <1>1, <2>2
    <3> QED
      BY <3>5, <3>6
  <2>3. \A i \in 0..n : i \in good
    <3> HIDE DEF good, n
    <3> QED
      BY <1>1, <2>1, <2>2, Induction
  <2>4. n \in 0..n
    BY <1>1
  <2>5. n \in good
    <3> HIDE DEF good, n
    <3> QED
      BY <2>3, <2>4
  <2> HIDE DEF n, g
  <2> QED
    BY <2>4, <2>5
<1> QED
  BY <1>5, <1>7, <1>9

(* What a text becomes of which the last character has been taken. *)
LEMMA ReplacedAppend ==
    ASSUME NEW C, NEW text \in Seq(C), NEW ch, NEW by \in Seq(C), NEW x \in C
    PROVE  /\ bfindreplace(<<>>, ch, by) = <<>>
           /\ bfindreplace(text, ch, by) \in Seq(C)
           /\ bfindreplace(Append(text, x), ch, by) = bfindreplace(text, ch, by) \o Replacement(x, ch, by)
<1> DEFINE longer == Append(text, x)
           n == Len(text)
<1>1. /\ longer \in Seq(C) /\ Len(longer) = n + 1 /\ n \in Nat
      /\ longer[n + 1] = x /\ \A i \in 1..n : longer[i] = text[i]
  OBVIOUS
<1>2. bfindreplace(<<>>, ch, by) = <<>>
  <2> DEFINE none == <<>>
  <2>1. none \in Seq(C) /\ Len(none) = 0
    OBVIOUS
  <2> HIDE DEF none
  <2>2. PICK f :
            Steps(f, Seq(C), Len(none), <<>>, ReplaceStep(C, none, ch, by)) /\ bfindreplace(none, ch, by) = f[Len(none)]
    BY <2>1, ReplaceSteps
  <2>3. f[0] = <<>>
    BY <2>1, <2>2 DEF Steps
  <2> QED
    BY <2>1, <2>2, <2>3 DEF none
<1> HIDE DEF longer, n
<1>0. longer \in Seq(C) /\ Len(longer) \in Nat /\ n \in Nat /\ n <= Len(longer)
  BY <1>1
<1>3. PICK f :
          Steps(f, Seq(C), n, <<>>, ReplaceStep(C, text, ch, by)) /\ bfindreplace(text, ch, by) = f[n]
  BY ReplaceSteps DEF n
<1>4. PICK g :
          Steps(g, Seq(C), Len(longer), <<>>, ReplaceStep(C, longer, ch, by))
          /\ bfindreplace(longer, ch, by) = g[Len(longer)]
  <2>1. longer \in Seq(C)
    BY <1>0
  <2> QED
    BY <2>1, ReplaceSteps
<1>5. SameSteps(Seq(C), n, ReplaceStep(C, text, ch, by), ReplaceStep(C, longer, ch, by))
  <2>1. Len(text) = n
    BY DEF n
  <2> QED
    BY <1>1, <2>1 DEF ReplaceStep, SameSteps
<1>6. f[n] = g[n]
  <2>1. n <= Len(longer) /\ n \in 0..n
    BY <1>1
  <2>2. \A i \in 0..n : f[i] = g[i]
    <3>1. /\ Steps(f, Seq(C), n, <<>>, ReplaceStep(C, text, ch, by))
          /\ Steps(g, Seq(C), Len(longer), <<>>, ReplaceStep(C, longer, ch, by))
      BY <1>3, <1>4
    <3> QED
      BY <1>0, <1>5, <3>1, StepsUnique
  <2> QED
    BY <2>1, <2>2
<1>7. g[n + 1] = g[n] \o Replacement(x, ch, by)
  <2>1. n + 1 \in 0..Len(longer) /\ n + 1 # 0 /\ (n + 1) - 1 = n /\ g[n] \in Seq(C) /\ n + 1 \in 1..Len(longer)
    BY <1>1, <1>4 DEF Steps
  <2>2. g[n + 1] = ReplaceStep(C, longer, ch, by)[<<g[n], n + 1>>]
    BY <1>4, <2>1 DEF Steps
  <2> QED
    BY <1>1, <2>1, <2>2 DEF ReplaceStep
<1>8. f[n] \in Seq(C)
  <2>1. n \in 0..n
    BY <1>0
  <2> QED
    BY <1>3, <2>1 DEF Steps
<1>9. bfindreplace(longer, ch, by) = bfindreplace(text, ch, by) \o Replacement(x, ch, by)
  BY <1>0, <1>1, <1>3, <1>4, <1>6, <1>7
<1> QED
  BY <1>2, <1>3, <1>8, <1>9 DEF longer
(* The last part of it alone. *)
LEMMA ReplacedLast ==
    ASSUME NEW C, NEW text \in Seq(C), NEW ch, NEW by \in Seq(C), NEW x \in C
    PROVE  bfindreplace(Append(text, x), ch, by) = bfindreplace(text, ch, by) \o Replacement(x, ch, by)
BY ReplacedAppend

-----------------------------------------------------------------------------
(* The reader of JSON. *)
Readings(C) == [out : Seq(C), escape : BOOLEAN, ended : BOOLEAN]

ReadStep(C, text) == [p \in Readings(C) \X (1..Len(text)) |-> JsonChar(p[1], text[p[2]])]

(* A reader that has one more character is a reader. *)
LEMMA JsonCharReads ==
    ASSUME NEW C, NEW acc \in Readings(C), NEW x \in C
    PROVE  JsonChar(acc, x) \in Readings(C)
<1>1. Append(acc.out, x) \in Seq(C)
  BY DEF Readings
<1> QED
  BY <1>1 DEF JsonChar, Readings

(* Its steps are those of one function. *)
LEMMA ReadSteps ==
    ASSUME NEW C, NEW text \in Seq(C)
    PROVE  \E f :
               /\ Steps(f, Readings(C), Len(text), JsonStart, ReadStep(C, text))
               /\ JsonRead(text) = f[Len(text)]
<1> DEFINE n == Len(text)
           S == Readings(C)
           step == ReadStep(C, text)
           Done(f) == f = [i \in 0..Len(text) |-> IF i = 0 THEN JsonStart ELSE JsonChar(f[i - 1], text[i])]
<1>1. n \in Nat /\ DOMAIN text = 1..n /\ \A i \in 1..n : text[i] \in C
  OBVIOUS
<1>2. step \in [S \X (1..n) -> S]
  <2>1. \A a \in S : \A i \in 1..n : JsonChar(a, text[i]) \in S
    BY <1>1, JsonCharReads
  <2>2. \A p \in S \X (1..n) : JsonChar(p[1], text[p[2]]) \in S
    <3> HIDE DEF S, n
    <3> QED
      BY <2>1
  <2>3. step = [p \in S \X (1..n) |-> JsonChar(p[1], text[p[2]])]
    BY DEF ReadStep
  <2> HIDE DEF S, n, step
  <2> QED
    BY <2>2, <2>3
<1>3. JsonStart \in S
  BY DEF JsonStart, Readings
<1>4. \A a \in S : \A i \in 1..n : step[<<a, i>>] = JsonChar(a, text[i])
  BY DEF ReadStep
<1>5. PICK f : Steps(f, S, n, JsonStart, step)
  <2> HIDE DEF n, step, S
  <2> QED
    BY <1>1, <1>2, <1>3, StepsExist
<1>6. Done(f)
  <2> HIDE DEF S
  <2>1. f \in [0..n -> S]
    BY <1>5 DEF Steps
  <2>3. \A i \in 0..n : i # 0 => f[i - 1] \in S /\ i \in 1..n
    BY <1>1, <2>1
  <2>2. \A i \in 0..n : (IF i = 0 THEN JsonStart ELSE step[<<f[i - 1], i>>])
            = (IF i = 0 THEN JsonStart ELSE JsonChar(f[i - 1], text[i]))
    <3> HIDE DEF n, step
    <3> QED
      BY <1>4, <2>3
  <2> QED
    BY <1>5, <2>1, <2>2 DEF Steps
<1> DEFINE g == CHOOSE h : Done(h)
<1>7. JsonRead(text) = g[n]
  BY DEF JsonRead
<1>8. Done(g)
  BY <1>6
<1>9. g[n] = f[n]
  <2> DEFINE good == {i \in Nat : i \in 0..n => f[i] = g[i]}
  <2>1. 0 \in good
    <3> HIDE DEF g
    <3> QED
      BY <1>1, <1>6, <1>8
  <2>2. ASSUME NEW i \in 0..(n - 1), i \in good
        PROVE  i + 1 \in good
    <3> HIDE DEF g
    <3>1. f[i] = g[i] /\ i + 1 \in 0..n /\ i + 1 # 0
      BY <1>1, <2>2
    <3>2. (i + 1) - 1 = i
      BY <2>2, <1>1
    <3>3. f[i + 1] = JsonChar(f[i], text[i + 1])
      BY <1>6, <3>1, <3>2
    <3>4. g[i + 1] = JsonChar(g[i], text[i + 1])
      BY <1>8, <3>1, <3>2
    <3>5. f[i + 1] = g[i + 1]
      BY <3>1, <3>3, <3>4
    <3>6. i + 1 \in Nat
      BY <1>1, <2>2
    <3> QED
      BY <3>5, <3>6
  <2>3. \A i \in 0..n : i \in good
    <3> HIDE DEF good, n
    <3> QED
      BY <1>1, <2>1, <2>2, Induction
  <2>4. n \in 0..n
    BY <1>1
  <2>5. n \in good
    <3> HIDE DEF good, n
    <3> QED
      BY <2>3, <2>4
  <2> HIDE DEF n, g
  <2> QED
    BY <2>4, <2>5
<1> QED
  BY <1>5, <1>7, <1>9

(* What is read of a text is what is read without its last character, and that one. *)
LEMMA ReadAppend ==
    ASSUME NEW C, NEW text \in Seq(C), NEW x \in C
    PROVE  /\ JsonRead(<<>>) = JsonStart
           /\ JsonRead(text) \in Readings(C)
           /\ JsonRead(Append(text, x)) = JsonChar(JsonRead(text), x)
<1> DEFINE longer == Append(text, x)
           n == Len(text)
           S == Readings(C)
<1>1. /\ longer \in Seq(C) /\ Len(longer) = n + 1 /\ n \in Nat
      /\ longer[n + 1] = x /\ \A i \in 1..n : longer[i] = text[i]
  OBVIOUS
<1>2. JsonRead(<<>>) = JsonStart
  <2> DEFINE none == <<>>
  <2>1. none \in Seq(C) /\ Len(none) = 0
    OBVIOUS
  <2> HIDE DEF none
  <2>2. PICK f : Steps(f, Readings(C), Len(none), JsonStart, ReadStep(C, none)) /\ JsonRead(none) = f[Len(none)]
    BY <2>1, ReadSteps
  <2>3. f[0] = JsonStart
    BY <2>1, <2>2 DEF Steps
  <2> QED
    BY <2>1, <2>2, <2>3 DEF none
<1> HIDE DEF longer, n, S
<1>0. longer \in Seq(C) /\ Len(longer) \in Nat /\ n \in Nat /\ n <= Len(longer)
  BY <1>1
<1>3. PICK f : Steps(f, S, n, JsonStart, ReadStep(C, text)) /\ JsonRead(text) = f[n]
  BY ReadSteps DEF n, S
<1>4. PICK g :
          Steps(g, S, Len(longer), JsonStart, ReadStep(C, longer)) /\ JsonRead(longer) = g[Len(longer)]
  <2>1. longer \in Seq(C)
    BY <1>0
  <2> QED
    BY <2>1, ReadSteps DEF S
<1>5. SameSteps(S, n, ReadStep(C, text), ReadStep(C, longer))
  <2>1. Len(text) = n
    BY DEF n
  <2> QED
    BY <1>1, <2>1 DEF ReadStep, SameSteps, S
<1>6. f[n] = g[n]
  <2>1. n <= Len(longer) /\ n \in 0..n
    BY <1>1
  <2>2. \A i \in 0..n : f[i] = g[i]
    <3>1. /\ Steps(f, S, n, JsonStart, ReadStep(C, text))
          /\ Steps(g, S, Len(longer), JsonStart, ReadStep(C, longer))
      BY <1>3, <1>4
    <3> QED
      BY <1>0, <1>5, <3>1, StepsUnique
  <2> QED
    BY <2>1, <2>2
<1>7. g[n + 1] = JsonChar(g[n], x)
  <2>1. n + 1 \in 0..Len(longer) /\ n + 1 # 0 /\ (n + 1) - 1 = n /\ g[n] \in S /\ n + 1 \in 1..Len(longer)
    BY <1>1, <1>4 DEF Steps
  <2>2. g[n + 1] = ReadStep(C, longer)[<<g[n], n + 1>>]
    BY <1>4, <2>1 DEF Steps
  <2> QED
    BY <1>1, <2>1, <2>2 DEF ReadStep, S
<1>8. f[n] \in S
  <2>1. n \in 0..n
    BY <1>0
  <2> QED
    BY <1>3, <2>1 DEF Steps
<1>9. JsonRead(longer) = JsonChar(JsonRead(text), x)
  BY <1>0, <1>1, <1>3, <1>4, <1>6, <1>7
<1> QED
  BY <1>2, <1>3, <1>8, <1>9 DEF longer, S

-----------------------------------------------------------------------------
(* A text that is not empty is a text and a last character. *)
LEMMA LastOf ==
    ASSUME NEW C, NEW text \in Seq(C), NEW n \in Nat, Len(text) = n + 1
    PROVE  /\ SubSeq(text, 1, n) \in Seq(C) /\ Len(SubSeq(text, 1, n)) = n /\ text[n + 1] \in C
           /\ text = Append(SubSeq(text, 1, n), text[n + 1])
           /\ \A i \in 1..n : SubSeq(text, 1, n)[i] = text[i]
OBVIOUS

(* Escaped, a character at a time. *)
EscapedChar(x) == IF x = BSLASH THEN <<BSLASH, BSLASH>> ELSE IF x = QUOTE THEN <<BSLASH, QUOTE>> ELSE <<x>>

(* The two replacements, one after the other, are one. *)
LEMMA EscapedAppend ==
    ASSUME NEW C, BSLASH \in C, QUOTE \in C, NEW text \in Seq(C), NEW x \in C
    PROVE  /\ Escaped(<<>>) = <<>> /\ Escaped(text) \in Seq(C)
           /\ Escaped(Append(text, x)) = Escaped(text) \o EscapedChar(x)
<1> DEFINE two == <<BSLASH, BSLASH>>
           quoted == <<BSLASH, QUOTE>>
           first == bfindreplace(text, BSLASH, two)
           after == bfindreplace(first, QUOTE, quoted)
<1>0. BSLASH # QUOTE
  BY DEF BSLASH, QUOTE
<1>1. two \in Seq(C) /\ quoted \in Seq(C)
  OBVIOUS
<1> HIDE DEF two, quoted
<1>2. bfindreplace(<<>>, BSLASH, two) = <<>> /\ bfindreplace(<<>>, QUOTE, quoted) = <<>> /\ first \in Seq(C)
  BY <1>1, ReplacedAppend
<1>3. ASSUME NEW t \in Seq(C), NEW c \in C
      PROVE  bfindreplace(Append(t, c), QUOTE, quoted) = bfindreplace(t, QUOTE, quoted) \o Replacement(c, QUOTE, quoted)
  BY <1>1, ReplacedLast
<1>4. bfindreplace(Append(text, x), BSLASH, two) = first \o Replacement(x, BSLASH, two)
  BY <1>1, ReplacedLast
<1> HIDE DEF first
<1>5. after \in Seq(C)
  BY <1>1, <1>2, ReplacedAppend
<1>12. Escaped(text) = after
  BY DEF Escaped, two, quoted, first
<1>6. Escaped(Append(text, x)) = bfindreplace(first \o Replacement(x, BSLASH, two), QUOTE, quoted)
  BY <1>4 DEF Escaped, two, quoted
<1>7. ASSUME x = BSLASH
      PROVE  Escaped(Append(text, x)) = after \o EscapedChar(x)
  <2>1. first \o Replacement(x, BSLASH, two) = Append(Append(first, BSLASH), BSLASH)
    BY <1>2, <1>7 DEF Replacement, two
  <2>2. Append(first, BSLASH) \in Seq(C)
    BY <1>2
  <2>3. Escaped(Append(text, x)) = (after \o <<BSLASH>>) \o <<BSLASH>>
    <3>1. bfindreplace(Append(Append(first, BSLASH), BSLASH), QUOTE, quoted)
              = bfindreplace(Append(first, BSLASH), QUOTE, quoted) \o Replacement(BSLASH, QUOTE, quoted)
      BY <1>3, <2>2
    <3>2. bfindreplace(Append(first, BSLASH), QUOTE, quoted) = after \o Replacement(BSLASH, QUOTE, quoted)
      BY <1>2, <1>3
    <3>3. Replacement(BSLASH, QUOTE, quoted) = <<BSLASH>>
      BY <1>0 DEF Replacement
    <3> QED
      BY <1>6, <2>1, <3>1, <3>2, <3>3
  <2> HIDE DEF after
  <2>4. (after \o <<BSLASH>>) \o <<BSLASH>> = after \o <<BSLASH, BSLASH>>
    BY <1>5
  <2>5. EscapedChar(x) = <<BSLASH, BSLASH>>
    BY <1>7 DEF EscapedChar
  <2> QED
    BY <2>3, <2>4, <2>5
<1>8. ASSUME x # BSLASH
      PROVE  Escaped(Append(text, x)) = after \o EscapedChar(x)
  <2>1. first \o Replacement(x, BSLASH, two) = Append(first, x)
    BY <1>2, <1>8 DEF Replacement
  <2>2. Escaped(Append(text, x)) = after \o Replacement(x, QUOTE, quoted)
    BY <1>2, <1>3, <1>6, <2>1
  <2>3. Replacement(x, QUOTE, quoted) = EscapedChar(x)
    BY <1>8 DEF Replacement, EscapedChar, quoted
  <2> QED
    BY <2>2, <2>3
<1>9. Escaped(Append(text, x)) = after \o EscapedChar(x)
  BY <1>7, <1>8
<1>10. Escaped(<<>>) = <<>>
  BY <1>2 DEF Escaped, two, quoted
<1> HIDE DEF after
<1> QED
  BY <1>5, <1>9, <1>10, <1>12

(* The reader that has read all of a text. *)
HasRead(text) == [out |-> text, escape |-> FALSE, ended |-> FALSE]

(* An escaped character is read as the character. *)
LEMMA EscapedCharReads ==
    ASSUME NEW C, BSLASH \in C, QUOTE \in C, NEW s \in Seq(C), NEW t \in Seq(C), NEW x \in C,
           JsonRead(s) = HasRead(t)
    PROVE  JsonRead(s \o EscapedChar(x)) = HasRead(Append(t, x))
<1>0. BSLASH # QUOTE
  BY DEF BSLASH, QUOTE
<1>1. \A u \in Seq(C) : \A c \in C : JsonRead(Append(u, c)) = JsonChar(JsonRead(u), c)
  BY ReadAppend
<1>2. CASE x = BSLASH \/ x = QUOTE
  <2>1. s \o EscapedChar(x) = Append(Append(s, BSLASH), x)
    BY <1>2 DEF EscapedChar
  <2>2. JsonRead(Append(s, BSLASH)) = [HasRead(t) EXCEPT !.escape = TRUE]
    <3>1. JsonRead(Append(s, BSLASH)) = JsonChar(HasRead(t), BSLASH)
      BY <1>1
    <3> QED
      BY <3>1 DEF JsonChar, HasRead
  <2>3. Append(s, BSLASH) \in Seq(C)
    OBVIOUS
  <2>4. JsonRead(Append(Append(s, BSLASH), x)) = JsonChar([HasRead(t) EXCEPT !.escape = TRUE], x)
    BY <1>1, <2>2, <2>3
  <2> QED
    BY <2>1, <2>4 DEF JsonChar, HasRead
<1>3. CASE x # BSLASH /\ x # QUOTE
  <2>1. s \o EscapedChar(x) = Append(s, x)
    BY <1>3 DEF EscapedChar
  <2>2. JsonRead(Append(s, x)) = JsonChar(HasRead(t), x)
    BY <1>1
  <2> QED
    BY <1>3, <2>1, <2>2 DEF JsonChar, HasRead
<1> QED
  BY <1>2, <1>3

(* What was escaped is read as it was. *)
LEMMA EscapedReads ==
    ASSUME NEW text, IsText(text)
    PROVE  JsonText(Escaped(text)) = text
<1> DEFINE C == {text[i] : i \in DOMAIN text} \cup {BSLASH, QUOTE}
           good == {n \in Nat : \A t \in Seq(C) : Len(t) = n => JsonRead(Escaped(t)) = HasRead(t)}
<1>1. text \in Seq(C) /\ BSLASH \in C /\ QUOTE \in C
  BY DEF IsText
<1> HIDE DEF C
<1>2. Escaped(<<>>) = <<>> /\ JsonRead(<<>>) = HasRead(<<>>)
  <2>1. <<>> \in Seq(C)
    OBVIOUS
  <2> QED
    BY <1>1, <2>1, EscapedAppend, ReadAppend DEF JsonStart, HasRead
<1>3. 0 \in good
  <2>1. \A t \in Seq(C) : Len(t) = 0 => t = <<>>
    OBVIOUS
  <2> QED
    BY <1>2, <2>1
<1>4. ASSUME NEW n \in Nat, n \in good
      PROVE  n + 1 \in good
  <2>1. ASSUME NEW t \in Seq(C), Len(t) = n + 1
        PROVE  JsonRead(Escaped(t)) = HasRead(t)
    <3> DEFINE u == SubSeq(t, 1, n)
    <3>1. u \in Seq(C) /\ Len(u) = n /\ t[n + 1] \in C /\ t = Append(u, t[n + 1])
      BY <2>1, LastOf
    <3> HIDE DEF u
    <3>2. JsonRead(Escaped(u)) = HasRead(u)
      BY <1>4, <3>1
    <3>3. Escaped(u) \in Seq(C) /\ Escaped(Append(u, t[n + 1])) = Escaped(u) \o EscapedChar(t[n + 1])
      BY <1>1, <3>1, EscapedAppend
    <3>4. JsonRead(Escaped(u) \o EscapedChar(t[n + 1])) = HasRead(Append(u, t[n + 1]))
      BY <1>1, <3>1, <3>2, <3>3, EscapedCharReads
    <3> QED
      BY <3>1, <3>3, <3>4
  <2> QED
    BY <1>4, <2>1
<1>5. Len(text) \in Nat /\ Len(text) \in 0..Len(text)
  BY <1>1
<1>6. Len(text) \in good
  <2>1. \A i \in 0..(Len(text) - 1) : i \in good => i + 1 \in good
    BY <1>4, <1>5
  <2> HIDE DEF good
  <2>2. \A i \in 0..Len(text) : i \in good
    BY <1>3, <1>5, <2>1, Induction
  <2> QED
    BY <1>5, <2>2
<1>7. JsonRead(Escaped(text)) = HasRead(text)
  BY <1>1, <1>6
<1> QED
  BY <1>7 DEF JsonText, HasRead

(* What has nothing to escape is read as it is. *)
LEMMA PlainReads ==
    ASSUME NEW text, IsText(text), ~Has(text, BSLASH), ~Has(text, QUOTE)
    PROVE  JsonText(text) = text
<1> DEFINE C == {text[i] : i \in DOMAIN text}
           good == {n \in Nat : \A t \in Seq(C) : Len(t) = n => JsonRead(t) = HasRead(t)}
<1>1. text \in Seq(C) /\ BSLASH \notin C /\ QUOTE \notin C
  BY DEF IsText, Has
<1> HIDE DEF C
<1>3. 0 \in good
  <2>1. \A t \in Seq(C) : Len(t) = 0 => t = <<>>
    OBVIOUS
  <2>2. JsonRead(<<>>) = HasRead(<<>>)
    <3> DEFINE D == {0}
    <3>1. <<>> \in Seq(D) /\ 0 \in D
      OBVIOUS
    <3> QED
      BY <3>1, ReadAppend DEF JsonStart, HasRead
  <2> QED
    BY <2>1, <2>2
<1>4. ASSUME NEW n \in Nat, n \in good
      PROVE  n + 1 \in good
  <2>1. ASSUME NEW t \in Seq(C), Len(t) = n + 1
        PROVE  JsonRead(t) = HasRead(t)
    <3> DEFINE u == SubSeq(t, 1, n)
    <3>1. u \in Seq(C) /\ Len(u) = n /\ t[n + 1] \in C /\ t = Append(u, t[n + 1])
      BY <2>1, LastOf
    <3> HIDE DEF u
    <3>2. JsonRead(u) = HasRead(u)
      BY <1>4, <3>1
    <3>3. JsonRead(Append(u, t[n + 1])) = JsonChar(HasRead(u), t[n + 1])
      BY <3>1, <3>2, ReadAppend
    <3>4. t[n + 1] # BSLASH /\ t[n + 1] # QUOTE
      BY <1>1, <3>1
    <3> QED
      BY <3>1, <3>3, <3>4 DEF JsonChar, HasRead
  <2> QED
    BY <1>4, <2>1
<1>5. Len(text) \in Nat /\ Len(text) \in 0..Len(text)
  BY <1>1
<1>6. Len(text) \in good
  <2>1. \A i \in 0..(Len(text) - 1) : i \in good => i + 1 \in good
    BY <1>4, <1>5
  <2> HIDE DEF good
  <2>2. \A i \in 0..Len(text) : i \in good
    BY <1>3, <1>5, <2>1, Induction
  <2> QED
    BY <1>5, <2>2
<1>7. JsonRead(text) = HasRead(text)
  BY <1>1, <1>6
<1> QED
  BY <1>7 DEF JsonText, HasRead
-----------------------------------------------------------------------------
(* The state.  r is the Request, h the heap, n the strings made so far and u the misused.  *)
World(r, h, n, u) == [req |-> r, heap |-> h, strings |-> n, misused |-> u]

Fields == {"request_method", "version", "uri", "path", "query_string", "fragment", "host_name",
           "host", "pattern", "headers", "content_len", "json_sent"}

Pairs == [key : Nat, value : Nat]

HeaderSides == {"key", "value"}

IsRequest(r) == DOMAIN r = Fields /\ r.headers \in Seq(Pairs)

IsHeap(h, n) == n \in Nat /\ DOMAIN h \subseteq 1..n

(* A string at a part was made for it, and one at a header for a header. *)
PartsOwned(r, h) == \A f \in Parts : r[f] # NULL => r[f] \in DOMAIN h /\ h[r[f]].by = f

HeadersOwned(r, h) ==
    \A i \in DOMAIN r.headers : \A a \in HeaderSides :
        r.headers[i][a] \in DOMAIN h /\ h[r.headers[i][a]].by = "header"

(* No string is at two headers, or at both sides of one. *)
HeadersApart(r) ==
    \A i, j \in DOMAIN r.headers : \A a, b \in HeaderSides :
        r.headers[i][a] = r.headers[j][b] => i = j /\ a = b

(* s is at a place of r, and only strings of paths are at none. *)
Held(r, s) ==
    \/ \E f \in Parts : r[f] = s
    \/ \E i \in DOMAIN r.headers : \E a \in HeaderSides : r.headers[i][a] = s

OnlyPathsLost(r, h) == \A s \in DOMAIN h : h[s].by = "path" \/ Held(r, s)

Owned(r, h, n) ==
    /\ IsRequest(r) /\ IsHeap(h, n)
    /\ PartsOwned(r, h) /\ HeadersOwned(r, h) /\ HeadersApart(r) /\ OnlyPathsLost(r, h)

(* The parts of the request line that a message has, and its headers. *)
Texts == {"request_method", "version", "uri", "path", "query_string", "fragment"}

(* The text of a part in a message. *)
Wanted(m, f) ==
    CASE f = "path" -> m.path
      [] f = "query_string" -> m.query
      [] f = "request_method" -> IF m.json THEN NULL ELSE m.method
      [] f = "version" -> IF m.json THEN NULL ELSE m.version
      [] f = "uri" -> IF m.json THEN NULL ELSE m.uri
      [] OTHER -> IF m.json THEN NULL ELSE m.fragment

(* The texts that a part may have: the path of a JSON message is told in two ways. *)
Wants(m, f) == IF f = "path" THEN PathsTold(m) ELSE {Wanted(m, f)}

Pair(key, text) == [key |-> key, text |-> text]

HeadersOf(m) == IF m.json THEN {} ELSE {Pair(m.headers[j].key, m.headers[j].text) : j \in DOMAIN m.headers}

(* The calls that a parser may make for m. *)
TellCall(f, text) == [name |-> f, text |-> text]
TextCall(m, f) == TellCall(f, Wanted(m, f))
WholeCall(m) == TellCall("path", WholePath(m))
HeaderCall(p) == [name |-> "header", key |-> p.key, text |-> p.text]
JsonCall == [name |-> "json"]
DoneCall == [name |-> "done"]

Calls(m) ==
    {TextCall(m, f) : f \in {g \in Texts : Wanted(m, g) # NULL}} \cup {HeaderCall(p) : p \in HeadersOf(m)}
    \cup {c \in {WholeCall(m), JsonCall} : m.json} \cup {DoneCall}

(* What is left of them: the last one is done, and only a path or a header is told again. *)
Once(s) ==
    \A i, j \in DOMAIN s : s[i].name = s[j].name /\ i # j => s[i].name \in {"path", "header"}

Left(s, m) == s \in Seq(Calls(m)) /\ Len(s) > 0 /\ s[Len(s)] = DoneCall /\ Once(s)

IsLeft(s, c) == \E i \in DOMAIN s : s[i] = c

(* A part is there as the message has it, or will be told; only a path is told again. *)
PartsFilled(r, h, m, s) ==
    \A f \in Texts :
        /\ r[f] # NULL => Wanted(m, f) # NULL /\ h[r[f]].text \in Wants(m, f)
        /\ r[f] = NULL => Wanted(m, f) = NULL \/ IsLeft(s, TextCall(m, f))
        /\ f # "path" /\ r[f] # NULL => ~IsLeft(s, TextCall(m, f))

(* The headers that the request has. *)
Listed(r, h) == {Pair(h[r.headers[i].key].text, h[r.headers[i].value].text) : i \in DOMAIN r.headers}

(* No header that is not the message's, and none of those forgotten. *)
HeadersFilled(r, h, m, s) ==
    /\ Listed(r, h) \subseteq HeadersOf(m)
    /\ \A p \in HeadersOf(m) : p \in Listed(r, h) \/ IsLeft(s, HeaderCall(p))

(* That a message is JSON is known, or will be told. *)
JsonFilled(r, m, s) ==
    /\ r.json_sent \in BOOLEAN /\ (r.json_sent => m.json)
    /\ m.json => r.json_sent \/ IsLeft(s, JsonCall)

(* What r has of m, and what s will still tell. *)
Filling(r, h, m, s) ==
    /\ m \in Messages /\ Left(s, m)
    /\ PartsFilled(r, h, m, s) /\ HeadersFilled(r, h, m, s) /\ JsonFilled(r, m, s)
    /\ r.host_name = NULL /\ r.content_len = 0

(* The request of a head that is complete. *)
Forwarded == Pair("X-Forwarded-For", <<"r">>)

Filled(r, h, m) ==
    /\ m \in Messages
    /\ \A f \in Texts : /\ r[f] = NULL <=> Wanted(m, f) = NULL
                        /\ r[f] # NULL => h[r[f]].text \in Wants(m, f)
    /\ Listed(r, h) = HeadersOf(m) \cup {Forwarded}
    /\ r.json_sent = m.json

(* HostIsItsOwn, of a request r. *)
HostTold(r, h, m) ==
    /\ r.host = NULL <=> m.json \/ {i \in DOMAIN m.headers : m.headers[i].key = "Host"} = {}
    /\ r.host # NULL => Held(r, r.host) /\ r.host \in DOMAIN h /\ h[r.host_name].text = HostName(h[r.host].text)
    /\ {i \in DOMAIN m.headers : m.headers[i].key = "Content-Length"} = {} => r.content_len = 0

(* While the parser calls back, and after it. *)
ParseInv == stage = "parse" => DOMAIN now = {"message", "left"} /\ Filling(req, heap, now.message, now.left)

ParsedInv == stage = "parsed" => Filled(req, heap, now.message) /\ HostTold(req, heap, now.message)

(* The inductive invariant. *)
Inv ==
    /\ Owned(req, heap, strings) /\ misused = {} /\ req.pattern \in {NULL, <<"p">>}
    /\ ParseInv /\ ParsedInv /\ PayloadTellsTheRequest

-----------------------------------------------------------------------------
(* The functions of request.c, on a world. *)
Made(h, s, text, by) == [x \in DOMAIN h \cup {s} |-> IF x = s THEN [text |-> text, by |-> by] ELSE h[x]]

Put(r, f, x) == [r EXCEPT ![f] = x]

(* blk2bstr *)
LEMMA MakeIs ==
    ASSUME NEW r, NEW h, NEW n, NEW u, NEW text, NEW by
    PROVE  blk2bstr(World(r, h, n, u), text, by) = World(r, Made(h, n + 1, text, by), n + 1, u)
<1> DEFINE w == World(r, h, n, u)
<1>1. w.strings = n /\ w.heap = h /\ w.req = r /\ w.misused = u
  BY DEF World
<1>2. blk2bstr(w, text, by) = [w EXCEPT !.strings = n + 1, !.heap = Made(h, n + 1, text, by)]
  <2> HIDE DEF w
  <2> QED
    BY <1>1 DEF blk2bstr, Made
<1> QED
  BY <1>2 DEF World

(* PartCallback *)
LEMMA PartCallbackIs ==
    ASSUME NEW r, NEW h, NEW n, NEW u, NEW text, NEW f
    PROVE  PartCallback(World(r, h, n, u), f, text) = World(Put(r, f, n + 1), Made(h, n + 1, text, f), n + 1, u)
<1> DEFINE w == World(r, Made(h, n + 1, text, f), n + 1, u)
<1>1. w.strings = n + 1 /\ w.req = r
  BY DEF World
<1>2. PartCallback(World(r, h, n, u), f, text) = [w EXCEPT !.req[f] = w.strings]
  BY MakeIs DEF PartCallback
<1>3. [w EXCEPT !.req[f] = w.strings] = [w EXCEPT !.req = Put(r, f, n + 1)]
  <2> HIDE DEF w
  <2> QED
    BY <1>1 DEF Put
<1> QED
  BY <1>2, <1>3 DEF World

(* header_field_cb *)
LEMMA HeaderFieldIs ==
    ASSUME NEW r, NEW h, NEW n, NEW u, NEW text, NEW key
    PROVE  header_field_cb(World(r, h, n, u), key, text)
               = World(Put(r, "headers", Append(r.headers, [key |-> (n + 1) + 1, value |-> n + 1])),
                       Made(Made(h, n + 1, text, "header"), (n + 1) + 1, key, "header"), (n + 1) + 1, u)
<1> DEFINE g == Made(h, n + 1, text, "header")
<1>1. blk2bstr(World(r, h, n, u), text, "header") = World(r, g, n + 1, u)
  BY MakeIs
<1>2. blk2bstr(World(r, g, n + 1, u), key, "header") = World(r, Made(g, (n + 1) + 1, key, "header"), (n + 1) + 1, u)
  BY MakeIs
<1> HIDE DEF g
<1>3. header_field_cb(World(r, h, n, u), key, text)
          = [World(r, Made(g, (n + 1) + 1, key, "header"), (n + 1) + 1, u)
                EXCEPT !.req.headers = Append(@, [key |-> (n + 1) + 1, value |-> n + 1])]
  <2>1. World(r, g, n + 1, u).strings = n + 1
    BY DEF World
  <2>2. World(r, Made(g, (n + 1) + 1, key, "header"), (n + 1) + 1, u).strings = (n + 1) + 1
    BY DEF World
  <2> QED
    BY <1>1, <1>2, <2>1, <2>2 DEF header_field_cb
<1> DEFINE w == World(r, Made(g, (n + 1) + 1, key, "header"), (n + 1) + 1, u)
<1>4. w.req = r
  BY DEF World
<1>5. [w EXCEPT !.req.headers = Append(@, [key |-> (n + 1) + 1, value |-> n + 1])]
          = [w EXCEPT !.req = Put(r, "headers", Append(r.headers, [key |-> (n + 1) + 1, value |-> n + 1]))]
  <2> HIDE DEF w
  <2> QED
    BY <1>4 DEF Put
<1>6. header_field_cb(World(r, h, n, u), key, text)
          = [w EXCEPT !.req = Put(r, "headers", Append(r.headers, [key |-> (n + 1) + 1, value |-> n + 1]))]
  BY <1>3, <1>5
<1> QED
  BY <1>6 DEF World, g

(* g is h with one string more. *)
Grown(h, g, n, text, by) ==
    /\ IsHeap(g, n + 1)
    /\ DOMAIN g = DOMAIN h \cup {n + 1} /\ n + 1 \notin DOMAIN h /\ n + 1 \in Nat
    /\ g[n + 1] = [text |-> text, by |-> by]
    /\ \A x \in DOMAIN h : g[x] = h[x]

(* A heap with a new string has the ones that it had. *)
LEMMA MadeFacts ==
    ASSUME NEW h, NEW n, IsHeap(h, n), NEW text, NEW by
    PROVE  Grown(h, Made(h, n + 1, text, by), n, text, by)
<1> DEFINE s == n + 1
<1>1. n \in Nat /\ s \in Nat /\ s \notin DOMAIN h /\ \A x \in DOMAIN h : x \in 1..s
  BY DEF IsHeap
<1>2. DOMAIN Made(h, s, text, by) = DOMAIN h \cup {s}
  BY DEF Made
<1>3. s \in 1..s
  BY <1>1
<1>4. IsHeap(Made(h, s, text, by), s)
  BY <1>1, <1>2, <1>3 DEF IsHeap
<1>5. \A x \in DOMAIN h : Made(h, s, text, by)[x] = h[x]
  BY <1>1 DEF Made
<1>6. Made(h, s, text, by)[s] = [text |-> text, by |-> by]
  BY DEF Made
<1> QED
  BY <1>1, <1>2, <1>4, <1>5, <1>6 DEF Grown

(* A field that is set, and the others. *)
LEMMA PutFacts ==
    ASSUME NEW r, DOMAIN r = Fields, NEW f \in Fields, NEW x
    PROVE  /\ DOMAIN Put(r, f, x) = Fields /\ Put(r, f, x)[f] = x
           /\ \A g \in Fields : g # f => Put(r, f, x)[g] = r[g]
BY DEF Put

(* The names of fields. *)
LEMMA FieldNames ==
    /\ Parts \subseteq Fields /\ Texts \subseteq Parts /\ "headers" \in Fields /\ "headers" \notin Parts
    /\ "host_name" \in Parts \ Texts /\ "path" \in Texts
    /\ {"host", "pattern", "content_len", "json_sent"} \subseteq Fields \ Parts
BY DEF Parts, Texts, Fields

(* A part that is told has a string of its own. *)
LEMMA PartOwned ==
    ASSUME NEW r, NEW h, NEW n, Owned(r, h, n), NEW f \in Parts, f = "path" \/ r[f] = NULL, NEW text
    PROVE  Owned(Put(r, f, n + 1), Made(h, n + 1, text, f), n + 1)
<1> DEFINE R == Put(r, f, n + 1)
           H == Made(h, n + 1, text, f)
<1>0. IsHeap(h, n)
  BY DEF Owned
<1>grown. Grown(h, H, n, text, f)
  BY <1>0, MadeFacts
<1> HIDE DEF H
<1>1. /\ IsHeap(H, n + 1) /\ DOMAIN H = DOMAIN h \cup {n + 1} /\ n + 1 \notin DOMAIN h /\ n + 1 \in Nat
      /\ H[n + 1].by = f
  BY <1>grown DEF Grown
<1>2. \A x \in DOMAIN h : H[x] = h[x]
  BY <1>grown DEF Grown
<1>3. DOMAIN R = Fields /\ R[f] = n + 1 /\ R.headers = r.headers
  BY PutFacts, FieldNames DEF Owned, IsRequest
<1>4. \A g \in Parts : g # f => R[g] = r[g]
  BY PutFacts, FieldNames DEF Owned, IsRequest
<1> HIDE DEF R
<1>5. IsRequest(R)
  BY <1>3 DEF Owned, IsRequest
<1>6. PartsOwned(R, H)
  BY <1>1, <1>2, <1>3, <1>4 DEF Owned, PartsOwned
<1>7. HeadersOwned(R, H)
  BY <1>1, <1>2, <1>3 DEF Owned, HeadersOwned
<1>8. HeadersApart(R)
  BY <1>3 DEF Owned, HeadersApart
<1>9. OnlyPathsLost(R, H)
  <2>1. ASSUME NEW s \in DOMAIN h, h[s].by # "path"
        PROVE  Held(R, s)
    <3>1. Held(r, s)
      BY <2>1 DEF Owned, OnlyPathsLost
    <3>2. CASE \E g \in Parts : r[g] = s
      <4>1. PICK g \in Parts : r[g] = s
        BY <3>2
      <4>2. CASE g # f
        BY <1>4, <4>1, <4>2 DEF Held
      <4>3. CASE g = f
        <5>1. s \in Nat /\ NULL \notin Nat
          BY RequestsAssumption DEF Owned, IsHeap
        <5>2. r[f] # NULL /\ h[r[f]].by = f
          BY <4>1, <4>3, <5>1 DEF Owned, PartsOwned
        <5> QED
          BY <2>1, <4>1, <4>3, <5>2
      <4> QED
        BY <4>2, <4>3
    <3> QED
      BY <1>3, <3>1, <3>2 DEF Held
  <2>2. Held(R, n + 1)
    BY <1>3 DEF Held
  <2> QED
    BY <1>1, <1>2, <2>1, <2>2 DEF OnlyPathsLost
<1> QED
  BY <1>1, <1>5, <1>6, <1>7, <1>8, <1>9 DEF Owned, R, H

(* What is at a header that was appended. *)
LEMMA ListedFacts ==
    ASSUME NEW list \in Seq(Pairs), NEW p \in Pairs
    PROVE  /\ Append(list, p) \in Seq(Pairs) /\ DOMAIN Append(list, p) = (DOMAIN list) \cup {Len(list) + 1}
           /\ Append(list, p)[Len(list) + 1] = p /\ Len(list) + 1 \notin DOMAIN list
           /\ \A i \in DOMAIN list : Append(list, p)[i] = list[i]
OBVIOUS

(* A header that is told has two. *)
LEMMA HeaderOwned ==
    ASSUME NEW r, NEW h, NEW n, Owned(r, h, n), NEW key, NEW text
    PROVE  Owned(Put(r, "headers", Append(r.headers, [key |-> (n + 1) + 1, value |-> n + 1])),
                 Made(Made(h, n + 1, text, "header"), (n + 1) + 1, key, "header"), (n + 1) + 1)
<1> DEFINE p == [key |-> (n + 1) + 1, value |-> n + 1]
           list == Append(r.headers, p)
           R == Put(r, "headers", list)
           G == Made(h, n + 1, text, "header")
           H == Made(G, (n + 1) + 1, key, "header")
           last == Len(r.headers) + 1
<1>0. IsHeap(h, n)
  BY DEF Owned
<1>grown. Grown(h, G, n, text, "header")
  BY <1>0, MadeFacts
<1> HIDE DEF G
<1>1. /\ IsHeap(G, n + 1) /\ DOMAIN G = DOMAIN h \cup {n + 1} /\ n + 1 \notin DOMAIN h /\ n + 1 \in Nat
      /\ G[n + 1].by = "header"
  BY <1>grown DEF Grown
<1>2. \A x \in DOMAIN h : G[x] = h[x]
  BY <1>grown DEF Grown
<1>grownAgain. Grown(G, H, n + 1, key, "header")
  BY <1>1, MadeFacts
<1> HIDE DEF H
<1>3. /\ IsHeap(H, (n + 1) + 1) /\ DOMAIN H = DOMAIN G \cup {(n + 1) + 1} /\ (n + 1) + 1 \notin DOMAIN G
      /\ (n + 1) + 1 \in Nat /\ H[(n + 1) + 1].by = "header"
  BY <1>grownAgain DEF Grown
<1>4. \A x \in DOMAIN G : H[x] = G[x]
  BY <1>grownAgain DEF Grown
<1>5. p \in Pairs /\ p.key = (n + 1) + 1 /\ p.value = n + 1
  BY <1>1, <1>3 DEF Pairs
<1> HIDE DEF p
<1>6. /\ list \in Seq(Pairs) /\ DOMAIN list = (DOMAIN r.headers) \cup {last} /\ list[last] = p
      /\ last \notin DOMAIN r.headers
  BY <1>5, ListedFacts DEF Owned, IsRequest
<1>7. \A i \in DOMAIN r.headers : list[i] = r.headers[i]
  BY <1>5, ListedFacts DEF Owned, IsRequest
<1> HIDE DEF list, last
<1>8. DOMAIN R = Fields /\ R.headers = list
  BY PutFacts, FieldNames DEF Owned, IsRequest
<1>9. \A f \in Parts : R[f] = r[f]
  BY PutFacts, FieldNames DEF Owned, IsRequest
<1> HIDE DEF R
<1>10. IsRequest(R)
  BY <1>6, <1>8 DEF IsRequest
<1>11. PartsOwned(R, H)
  BY <1>1, <1>2, <1>3, <1>4, <1>9 DEF Owned, PartsOwned
<1>12. \A a \in HeaderSides : p[a] \in DOMAIN H /\ H[p[a]].by = "header" /\ p[a] \notin DOMAIN h
  BY <1>1, <1>3, <1>4, <1>5 DEF HeaderSides
<1>13. HeadersOwned(R, H)
  <2>1. \A i \in DOMAIN r.headers : \A a \in HeaderSides :
            list[i][a] \in DOMAIN H /\ H[list[i][a]].by = "header"
    BY <1>1, <1>2, <1>3, <1>4, <1>7 DEF Owned, HeadersOwned
  <2> QED
    BY <1>6, <1>8, <1>12, <2>1 DEF HeadersOwned
<1>14. HeadersApart(R)
  <2>1. \A a, b \in HeaderSides : p[a] = p[b] => a = b
    BY <1>1, <1>5 DEF HeaderSides
  <2>2. \A i \in DOMAIN r.headers : \A a, b \in HeaderSides : list[i][a] # p[b]
    BY <1>7, <1>12 DEF Owned, HeadersOwned
  <2>3. \A i, j \in DOMAIN r.headers : \A a, b \in HeaderSides : list[i][a] = list[j][b] => i = j /\ a = b
    BY <1>7 DEF Owned, HeadersApart
  <2>4. \A i, j \in DOMAIN list : \A a, b \in HeaderSides : list[i][a] = list[j][b] => i = j /\ a = b
    BY <1>6, <2>1, <2>2, <2>3
  <2> QED
    BY <1>8, <2>4 DEF HeadersApart
<1>15. OnlyPathsLost(R, H)
  <2>1. ASSUME NEW s \in DOMAIN h, Held(r, s)
        PROVE  Held(R, s)
    BY <1>6, <1>7, <1>8, <1>9, <2>1 DEF Held
  <2>2. Held(R, n + 1) /\ Held(R, (n + 1) + 1)
    BY <1>5, <1>6, <1>8 DEF Held, HeaderSides
  <2>3. \A s \in DOMAIN h : H[s].by = "path" \/ Held(R, s)
    BY <1>1, <1>2, <1>4, <2>1 DEF Owned, OnlyPathsLost
  <2> QED
    BY <1>1, <1>3, <2>2, <2>3 DEF OnlyPathsLost
<1> QED
  BY <1>3, <1>10, <1>11, <1>13, <1>14, <1>15 DEF Owned, R, H, G, list, p

-----------------------------------------------------------------------------
(* What is destroyed. *)
Given(held) == {held[p] : p \in {q \in DOMAIN held : held[q] # NULL}}

Without(h, given) == [x \in DOMAIN h \ given |-> h[x]]

(* Every place of held has a live string of its own. *)
EachItsOwn(held, h) ==
    /\ \A p \in DOMAIN held : held[p] # NULL => held[p] \in DOMAIN h
    /\ \A p, q \in DOMAIN held : held[p] = held[q] /\ held[p] # NULL => p = q

(* bdestroy of strings that are live and at one place each. *)
LEMMA DestroyIs ==
    ASSUME NEW r, NEW h, NEW n, NEW u, NEW held, EachItsOwn(held, h)
    PROVE  bdestroyAll(World(r, h, n, u), held) = World(r, Without(h, Given(held)), n, u)
<1> DEFINE w == World(r, h, n, u)
           places == {p \in DOMAIN held : held[p] # NULL}
           given == {held[p] : p \in places}
           again == {held[p] : p \in {q \in places : \E o \in places : o # q /\ held[o] = held[q]}}
<1>1. w.heap = h /\ w.misused = u
  BY DEF World
<1>2. again = {}
  BY DEF EachItsOwn
<1>3. given \ DOMAIN h = {}
  BY DEF EachItsOwn
<1>4. given = Given(held)
  BY DEF Given
<1>5. bdestroyAll(w, held)
          = [w EXCEPT !.misused = @ \cup (given \ DOMAIN w.heap) \cup again,
                      !.heap = [x \in DOMAIN @ \ given |-> @[x]]]
  BY DEF bdestroyAll
<1> HIDE DEF w, given, again
<1>6. u \cup (given \ DOMAIN h) \cup again = u
  BY <1>2, <1>3
<1>7. bdestroyAll(w, held) = [w EXCEPT !.misused = u, !.heap = Without(h, Given(held))]
  BY <1>1, <1>4, <1>5, <1>6 DEF Without
<1> QED
  BY <1>7 DEF w, World

(* A field that is none of a string's places. *)
LEMMA OtherOwned ==
    ASSUME NEW r, NEW h, NEW n, Owned(r, h, n), NEW f \in Fields \ Parts, f # "headers", NEW x
    PROVE  Owned(Put(r, f, x), h, n)
<1> DEFINE R == Put(r, f, x)
<1>1. DOMAIN R = Fields /\ R.headers = r.headers
  BY PutFacts, FieldNames DEF Owned, IsRequest
<1>2. \A g \in Parts : R[g] = r[g]
  BY PutFacts, FieldNames DEF Owned, IsRequest
<1> HIDE DEF R
<1>3. IsRequest(R) /\ PartsOwned(R, h) /\ HeadersOwned(R, h) /\ HeadersApart(R)
  BY <1>1, <1>2 DEF Owned, IsRequest, PartsOwned, HeadersOwned, HeadersApart
<1>4. \A s : Held(r, s) => Held(R, s)
  BY <1>1, <1>2 DEF Held
<1>5. OnlyPathsLost(R, h)
  BY <1>4 DEF Owned, OnlyPathsLost
<1> QED
  BY <1>3, <1>5 DEF Owned, R

(* http_parser_init *)
LEMMA ParserInitIs ==
    ASSUME NEW r, NEW h, NEW n, NEW u
    PROVE  ParserInit(World(r, h, n, u)) = World(Put(Put(r, "content_len", 0), "json_sent", FALSE), h, n, u)
<1> DEFINE w == World(r, h, n, u)
<1>1. w.req = r
  BY DEF World
<1>2. ParserInit(w) = [w EXCEPT !.req = Put(Put(r, "content_len", 0), "json_sent", FALSE)]
  <2> HIDE DEF w
  <2> QED
    BY <1>1 DEF ParserInit, Put
<1> QED
  BY <1>2 DEF World

-----------------------------------------------------------------------------
(* Request_start and Request_destroy. *)

PartsOf(r) == [f \in Parts |-> r[f]]

Nuked(r) == [f \in DOMAIN r |-> IF f \in Parts THEN NULL ELSE r[f]]

(* Request_nuke_parts *)
LEMMA NukeIs ==
    ASSUME NEW r, NEW h, NEW n, NEW u, Owned(r, h, n)
    PROVE  Request_nuke_parts(World(r, h, n, u)) = World(Nuked(r), Without(h, Given(PartsOf(r))), n, u)
<1> DEFINE w == World(r, h, n, u)
           g == Without(h, Given(PartsOf(r)))
<1>1. EachItsOwn(PartsOf(r), h)
  BY DEF EachItsOwn, PartsOf, Owned, PartsOwned
<1>2. w.req = r
  BY DEF World
<1>3. bdestroyAll(w, PartsOf(r)) = World(r, g, n, u)
  BY <1>1, DestroyIs
<1>4. Request_nuke_parts(w)
          = [World(r, g, n, u) EXCEPT !.req = [f \in DOMAIN @ |-> IF f \in Parts THEN NULL ELSE @[f]]]
  <2> HIDE DEF w, g
  <2> QED
    BY <1>2, <1>3 DEF Request_nuke_parts, PartsOf
<1> DEFINE v == World(r, g, n, u)
<1>5. v.req = r
  BY DEF World
<1>6. [v EXCEPT !.req = [f \in DOMAIN @ |-> IF f \in Parts THEN NULL ELSE @[f]]] = [v EXCEPT !.req = Nuked(r)]
  <2> HIDE DEF v
  <2> QED
    BY <1>5 DEF Nuked
<1>7. Request_nuke_parts(w) = [v EXCEPT !.req = Nuked(r)]
  BY <1>4, <1>6
<1> HIDE DEF g
<1> QED
  BY <1>7 DEF World, g

(* The request without its parts owns the rest. *)
LEMMA NukedOwned ==
    ASSUME NEW r, NEW h, NEW n, Owned(r, h, n)
    PROVE  Owned(Nuked(r), Without(h, Given(PartsOf(r))), n)
<1> DEFINE R == Nuked(r)
           given == Given(PartsOf(r))
           H == Without(h, given)
<1>1. DOMAIN R = Fields /\ R.headers = r.headers
  BY FieldNames DEF Nuked, Owned, IsRequest
<1>2. \A f \in Parts : R[f] = NULL
  BY FieldNames DEF Nuked, Owned, IsRequest
<1>3. DOMAIN H = DOMAIN h \ given
  BY DEF Without
<1>4. \A x \in DOMAIN h \ given : H[x] = h[x]
  BY DEF Without
<1>5. \A s \in given : s \in DOMAIN h /\ h[s].by \in Parts
  BY DEF Given, PartsOf, Owned, PartsOwned
<1>6. \A s \in DOMAIN h : (\E f \in Parts : r[f] = s) => s \in given
  <2>1. \A s \in DOMAIN h : s # NULL
    BY RequestsAssumption DEF Owned, IsHeap
  <2> QED
    BY <2>1 DEF Given, PartsOf
<1> HIDE DEF R, H, given
<1>7. IsRequest(R) /\ PartsOwned(R, H) /\ HeadersApart(R)
  BY <1>1, <1>2 DEF Owned, IsRequest, PartsOwned, HeadersApart
<1>8. IsHeap(H, n)
  BY <1>3 DEF Owned, IsHeap
<1>9. HeadersOwned(R, H)
  <2>1. "header" \notin Parts
    BY DEF Parts
  <2> QED
    BY <1>1, <1>3, <1>4, <1>5, <2>1 DEF Owned, HeadersOwned
<1>10. OnlyPathsLost(R, H)
  <2>1. ASSUME NEW s \in DOMAIN h, s \notin given, Held(r, s)
        PROVE  Held(R, s)
    BY <1>1, <1>6, <2>1 DEF Held
  <2> QED
    BY <1>3, <1>4, <2>1 DEF Owned, OnlyPathsLost
<1> QED
  BY <1>7, <1>8, <1>9, <1>10 DEF Owned, R, H, given

HeaderStrings(r) == [p \in (DOMAIN r.headers) \X HeaderSides |-> r.headers[p[1]][p[2]]]

(* dict_free_nodes *)
LEMMA FreeHeadersIs ==
    ASSUME NEW r, NEW h, NEW n, NEW u, Owned(r, h, n)
    PROVE  FreeHeaders(World(r, h, n, u)) = World(Put(r, "headers", <<>>), Without(h, Given(HeaderStrings(r))), n, u)
<1> DEFINE w == World(r, h, n, u)
           held == HeaderStrings(r)
           g == Without(h, Given(held))
<1>1. EachItsOwn(held, h)
  <2>1. DOMAIN held = (DOMAIN r.headers) \X HeaderSides
    BY DEF HeaderStrings
  <2>2. \A i \in DOMAIN r.headers : \A a \in HeaderSides : held[<<i, a>>] = r.headers[i][a]
    BY DEF HeaderStrings
  <2> HIDE DEF held
  <2>3. ASSUME NEW p \in DOMAIN held
        PROVE  held[p] \in DOMAIN h
    <3>1. PICK i \in DOMAIN r.headers, a \in HeaderSides : p = <<i, a>>
      BY <2>1
    <3> QED
      BY <2>2, <3>1 DEF Owned, HeadersOwned
  <2>4. ASSUME NEW p \in DOMAIN held, NEW q \in DOMAIN held, held[p] = held[q]
        PROVE  p = q
    <3>1. PICK i \in DOMAIN r.headers, a \in HeaderSides : p = <<i, a>>
      BY <2>1
    <3>2. PICK j \in DOMAIN r.headers, b \in HeaderSides : q = <<j, b>>
      BY <2>1
    <3>3. r.headers[i][a] = r.headers[j][b]
      BY <2>2, <2>4, <3>1, <3>2
    <3>4. i = j /\ a = b
      BY <3>3 DEF Owned, HeadersApart
    <3> QED
      BY <3>1, <3>2, <3>4
  <2> QED
    BY <2>3, <2>4 DEF EachItsOwn
<1>2. w.req = r
  BY DEF World
<1>3. held = [p \in (DOMAIN r.headers) \X {"value", "key"} |-> r.headers[p[1]][p[2]]]
  <2>1. HeaderSides = {"value", "key"}
    BY DEF HeaderSides
  <2> QED
    BY <2>1 DEF HeaderStrings
<1> HIDE DEF held
<1>4. bdestroyAll(w, held) = World(r, g, n, u)
  BY <1>1, DestroyIs
<1> DEFINE v == World(r, g, n, u)
<1>5. FreeHeaders(w) = [v EXCEPT !.req.headers = <<>>]
  <2> HIDE DEF w, g
  <2> QED
    BY <1>2, <1>3, <1>4 DEF FreeHeaders
<1>6. v.req = r
  BY DEF World
<1>7. [v EXCEPT !.req.headers = <<>>] = [v EXCEPT !.req = Put(r, "headers", <<>>)]
  <2> HIDE DEF v
  <2> QED
    BY <1>6 DEF Put
<1>8. FreeHeaders(w) = [v EXCEPT !.req = Put(r, "headers", <<>>)]
  BY <1>5, <1>7
<1> HIDE DEF g
<1> QED
  BY <1>8 DEF World, g, held

(* The request without its headers owns the rest. *)
LEMMA FreedOwned ==
    ASSUME NEW r, NEW h, NEW n, Owned(r, h, n)
    PROVE  Owned(Put(r, "headers", <<>>), Without(h, Given(HeaderStrings(r))), n)
<1> DEFINE R == Put(r, "headers", <<>>)
           given == Given(HeaderStrings(r))
           H == Without(h, given)
<1>1. DOMAIN R = Fields /\ R.headers = <<>>
  BY PutFacts, FieldNames DEF Owned, IsRequest
<1>2. \A f \in Parts : R[f] = r[f]
  BY PutFacts, FieldNames DEF Owned, IsRequest
<1>3. DOMAIN H = DOMAIN h \ given
  BY DEF Without
<1>4. \A x \in DOMAIN h \ given : H[x] = h[x]
  BY DEF Without
<1>5. \A i \in DOMAIN r.headers : \A a \in HeaderSides : r.headers[i][a] # NULL
  BY RequestsAssumption DEF Owned, HeadersOwned, IsHeap
<1>6. \A s : s \in given <=> \E i \in DOMAIN r.headers : \E a \in HeaderSides : r.headers[i][a] = s
  <2>1. DOMAIN HeaderStrings(r) = (DOMAIN r.headers) \X HeaderSides
    BY DEF HeaderStrings
  <2>2. \A i \in DOMAIN r.headers : \A a \in HeaderSides : HeaderStrings(r)[<<i, a>>] = r.headers[i][a]
    BY DEF HeaderStrings
  <2>3. ASSUME NEW i \in DOMAIN r.headers, NEW a \in HeaderSides
        PROVE  r.headers[i][a] \in given
    <3>1. <<i, a>> \in DOMAIN HeaderStrings(r) /\ HeaderStrings(r)[<<i, a>>] # NULL
      BY <1>5, <2>1, <2>2
    <3> QED
      BY <2>2, <3>1 DEF Given
  <2>4. ASSUME NEW s \in given
        PROVE  \E i \in DOMAIN r.headers : \E a \in HeaderSides : r.headers[i][a] = s
    <3>1. PICK p \in DOMAIN HeaderStrings(r) : HeaderStrings(r)[p] = s
      BY DEF Given
    <3>2. PICK i \in DOMAIN r.headers, a \in HeaderSides : p = <<i, a>>
      BY <2>1
    <3> QED
      BY <2>2, <3>1, <3>2
  <2> HIDE DEF given
  <2> QED
    BY <2>3, <2>4
<1>7. \A s \in given : h[s].by = "header"
  BY <1>6 DEF Owned, HeadersOwned
<1> HIDE DEF R, H, given
<1>8. IsRequest(R)
  <2>1. <<>> \in Seq(Pairs)
    OBVIOUS
  <2> QED
    BY <1>1, <2>1 DEF IsRequest
<1>9. HeadersOwned(R, H) /\ HeadersApart(R)
  BY <1>1 DEF HeadersOwned, HeadersApart
<1>10. IsHeap(H, n)
  BY <1>3 DEF Owned, IsHeap
<1>11. PartsOwned(R, H)
  <2>1. "header" \notin Parts
    BY DEF Parts
  <2> QED
    BY <1>2, <1>3, <1>4, <1>7, <2>1 DEF Owned, PartsOwned
<1>12. OnlyPathsLost(R, H)
  <2>1. ASSUME NEW s \in DOMAIN h, s \notin given, Held(r, s)
        PROVE  Held(R, s)
    BY <1>2, <1>6, <2>1 DEF Held
  <2> QED
    BY <1>3, <1>4, <2>1 DEF Owned, OnlyPathsLost
<1> QED
  BY <1>8, <1>9, <1>10, <1>11, <1>12 DEF Owned, R, H, given

(* A request without strings. *)
Bare(r) == r.headers = <<>> /\ \A f \in Parts : r[f] = NULL

(* Request_nuke_parts and then dict_free_nodes leave none. *)
LEMMA NukedAndFreed ==
    ASSUME NEW r, NEW h, NEW n, NEW u, Owned(r, h, n)
    PROVE  \E R, H :
               /\ FreeHeaders(Request_nuke_parts(World(r, h, n, u))) = World(R, H, n, u)
               /\ Owned(R, H, n) /\ Bare(R)
               /\ R.pattern = r.pattern /\ R.content_len = r.content_len /\ R.json_sent = r.json_sent
<1> DEFINE R1 == Nuked(r)
           H1 == Without(h, Given(PartsOf(r)))
<1>1. Request_nuke_parts(World(r, h, n, u)) = World(R1, H1, n, u) /\ Owned(R1, H1, n)
  BY NukeIs, NukedOwned
<1>2. \A f \in Parts : R1[f] = NULL
  BY FieldNames DEF Nuked, Owned, IsRequest
<1>3. R1.pattern = r.pattern /\ R1.content_len = r.content_len /\ R1.json_sent = r.json_sent
  BY FieldNames DEF Nuked, Owned, IsRequest
<1> HIDE DEF R1, H1
<1> DEFINE R2 == Put(R1, "headers", <<>>)
           H2 == Without(H1, Given(HeaderStrings(R1)))
<1>4. FreeHeaders(World(R1, H1, n, u)) = World(R2, H2, n, u) /\ Owned(R2, H2, n)
  BY <1>1, FreeHeadersIs, FreedOwned
<1>5. Bare(R2)
  BY <1>1, <1>2, PutFacts, FieldNames DEF Bare, Owned, IsRequest
<1>6. R2.pattern = R1.pattern /\ R2.content_len = R1.content_len /\ R2.json_sent = R1.json_sent
  BY <1>1, PutFacts, FieldNames DEF Owned, IsRequest
<1> HIDE DEF R2, H2
<1> QED
  BY <1>1, <1>3, <1>4, <1>5, <1>6

(* R is r for a new request. *)
Started(r, R) == Bare(R) /\ R.pattern = r.pattern /\ R.content_len = 0 /\ R.json_sent = FALSE

(* Request_start *)
LEMMA StartIs ==
    ASSUME NEW r, NEW h, NEW n, NEW u, Owned(r, h, n)
    PROVE  \E R, H : Request_start(World(r, h, n, u)) = World(R, H, n, u) /\ Owned(R, H, n) /\ Started(r, R)
<1> DEFINE R1 == Put(r, "content_len", 0)
           R2 == Put(R1, "json_sent", FALSE)
<1>1. Owned(R1, h, n) /\ R1.content_len = 0 /\ R1.pattern = r.pattern
  BY OtherOwned, PutFacts, FieldNames DEF Owned, IsRequest
<1>2. ParserInit(World(r, h, n, u)) = World(R2, h, n, u)
  BY ParserInitIs
<1> HIDE DEF R1
<1>3. Owned(R2, h, n) /\ R2.json_sent = FALSE /\ R2.content_len = 0 /\ R2.pattern = r.pattern
  <2>1. "json_sent" \in Fields \ Parts /\ "json_sent" # "headers"
    BY FieldNames
  <2>2. Owned(R2, h, n)
    BY <1>1, <2>1, OtherOwned
  <2>3. DOMAIN R1 = Fields
    BY <1>1 DEF Owned, IsRequest
  <2>4. R2.json_sent = FALSE /\ R2.content_len = R1.content_len /\ R2.pattern = R1.pattern
    BY <2>1, <2>3, FieldNames DEF Put
  <2> QED
    BY <1>1, <2>2, <2>4
<1> HIDE DEF R2
<1>4. PICK R, H :
          /\ FreeHeaders(Request_nuke_parts(World(R2, h, n, u))) = World(R, H, n, u)
          /\ Owned(R, H, n) /\ Bare(R)
          /\ R.pattern = R2.pattern /\ R.content_len = R2.content_len /\ R.json_sent = R2.json_sent
  BY <1>3, NukedAndFreed
<1>5. Request_start(World(r, h, n, u)) = World(R, H, n, u)
  BY <1>2, <1>4 DEF Request_start
<1>6. Started(r, R)
  BY <1>3, <1>4 DEF Started
<1> QED
  BY <1>4, <1>5, <1>6

(* Request_destroy *)
LEMMA DestroyRequestIs ==
    ASSUME NEW r, NEW h, NEW n, NEW u, Owned(r, h, n)
    PROVE  \E H : Request_destroy(World(r, h, n, u)) = World(EmptyRequest, H, n, u) /\ Owned(EmptyRequest, H, n)
<1>1. PICK R, H :
          /\ FreeHeaders(Request_nuke_parts(World(r, h, n, u))) = World(R, H, n, u)
          /\ Owned(R, H, n) /\ Bare(R)
  BY NukedAndFreed
<1>2. Request_destroy(World(r, h, n, u)) = World(EmptyRequest, H, n, u)
  BY <1>1 DEF Request_destroy, World
<1>3. Owned(EmptyRequest, H, n)
  <2>1. IsRequest(EmptyRequest)
    BY DEF IsRequest, EmptyRequest, Fields
  <2>2. Bare(EmptyRequest)
    BY DEF Bare, EmptyRequest, Parts
  <2>3. PartsOwned(EmptyRequest, H) /\ HeadersOwned(EmptyRequest, H) /\ HeadersApart(EmptyRequest)
    BY <2>2 DEF Bare, PartsOwned, HeadersOwned, HeadersApart
  <2>4. \A s \in DOMAIN H : ~Held(R, s)
    BY <1>1, RequestsAssumption DEF Owned, IsHeap, Bare, Held
  <2>5. OnlyPathsLost(EmptyRequest, H)
    BY <1>1, <2>4 DEF Owned, OnlyPathsLost
  <2> QED
    BY <1>1, <2>1, <2>3, <2>5 DEF Owned
<1> QED
  BY <1>2, <1>3

-----------------------------------------------------------------------------
(* The calls of a message.  s is a sequence of calls of S: those of cs, with names of N. *)
Piece(s, S, cs, N) ==
    /\ s \in Seq(S) /\ cs = {s[i] : i \in DOMAIN s}
    /\ \A c \in cs : c.name \in N
    /\ Once(s)

(* What two sequences have together, one after the other. *)
LEMMA Concatenated ==
    ASSUME NEW S, NEW s \in Seq(S), NEW t \in Seq(S)
    PROVE  /\ s \o t \in Seq(S) /\ DOMAIN (s \o t) = 1..(Len(s) + Len(t)) /\ Len(s) \in Nat /\ Len(t) \in Nat
           /\ DOMAIN s = 1..Len(s) /\ DOMAIN t = 1..Len(t)
           /\ \A i \in 1..Len(s) : (s \o t)[i] = s[i]
           /\ \A i \in 1..Len(t) : (s \o t)[Len(s) + i] = t[i]
OBVIOUS

(* Two pieces are one when only paths or headers are in both. *)
LEMMA Joined ==
    ASSUME NEW S, NEW s, NEW a, NEW N, Piece(s, S, a, N), NEW t, NEW b, NEW M, Piece(t, S, b, M),
           N \cap M \subseteq {"path", "header"}
    PROVE  Piece(s \o t, S, a \cup b, N \cup M)
<1> DEFINE st == s \o t
           n == Len(s)
           m == Len(t)
<1>1. s \in Seq(S) /\ t \in Seq(S) /\ Once(s) /\ Once(t)
  BY DEF Piece
<1>2. /\ st \in Seq(S) /\ DOMAIN st = 1..(n + m) /\ n \in Nat /\ m \in Nat
      /\ DOMAIN s = 1..n /\ DOMAIN t = 1..m
  BY <1>1, Concatenated
<1>3. \A i \in 1..n : st[i] = s[i]
  BY <1>1, Concatenated
<1>4. \A i \in 1..m : st[n + i] = t[i]
  BY <1>1, Concatenated
<1> HIDE DEF st, n, m
<1>5. \A i \in 1..n : i \in 1..(n + m)
  BY <1>2
<1>6. \A i \in 1..m : n + i \in 1..(n + m)
  BY <1>2
<1>7. ASSUME NEW i \in DOMAIN st
      PROVE  i \in 1..n \/ \E j \in 1..m : i = n + j
  <2>1. i \in 1..(n + m)
    BY <1>2
  <2>2. CASE i > n
    <3>1. i - n \in 1..m /\ i = n + (i - n)
      BY <1>2, <2>1, <2>2
    <3> QED
      BY <3>1
  <2> QED
    BY <1>2, <2>1, <2>2
<1>8. a = {s[i] : i \in 1..n} /\ b = {t[i] : i \in 1..m}
  BY <1>2 DEF Piece
<1>9. a \cup b = {st[i] : i \in DOMAIN st}
  <2>1. ASSUME NEW i \in DOMAIN st
        PROVE  st[i] \in a \cup b
    <3>1. CASE i \in 1..n
      BY <1>3, <1>8, <3>1
    <3>2. CASE \E j \in 1..m : i = n + j
      BY <1>4, <1>8, <3>2
    <3> QED
      BY <1>7, <3>1, <3>2
  <2>2. ASSUME NEW c \in a
        PROVE  \E i \in DOMAIN st : st[i] = c
    BY <1>2, <1>3, <1>5, <1>8
  <2>3. ASSUME NEW c \in b
        PROVE  \E i \in DOMAIN st : st[i] = c
    BY <1>2, <1>4, <1>6, <1>8
  <2> QED
    BY <2>1, <2>2, <2>3
<1>10. \A c \in a \cup b : c.name \in N \cup M
  BY DEF Piece
<1>11. Once(st)
  <2>1. ASSUME NEW i \in DOMAIN st, NEW j \in DOMAIN st, st[i].name = st[j].name, i # j
        PROVE  st[i].name \in {"path", "header"}
    <3>1. \A k \in 1..n : st[k].name \in N
      BY <1>3, <1>8 DEF Piece
    <3>2. \A k \in 1..m : st[n + k].name \in M
      BY <1>4, <1>8 DEF Piece
    <3>3. CASE i \in 1..n /\ j \in 1..n
      BY <1>1, <1>2, <1>3, <2>1, <3>3 DEF Once
    <3>4. CASE i \in 1..n /\ \E l \in 1..m : j = n + l
      BY <2>1, <3>1, <3>2, <3>4
    <3>5. CASE j \in 1..n /\ \E l \in 1..m : i = n + l
      BY <2>1, <3>1, <3>2, <3>5
    <3>6. CASE (\E l \in 1..m : i = n + l) /\ \E l \in 1..m : j = n + l
      <4>1. PICK k \in 1..m : i = n + k
        BY <3>6
      <4>2. PICK l \in 1..m : j = n + l
        BY <3>6
      <4>3. t[k].name = t[l].name /\ k # l /\ st[i] = t[k]
        BY <1>4, <2>1, <4>1, <4>2
      <4> QED
        BY <1>1, <1>2, <4>3 DEF Once
    <3> QED
      BY <1>7, <3>3, <3>4, <3>5, <3>6
  <2> QED
    BY <2>1 DEF Once
<1> QED
  BY <1>2, <1>9, <1>10, <1>11 DEF Piece, st

(* One call. *)
LEMMA SinglePiece ==
    ASSUME NEW S, NEW c \in S
    PROVE  Piece(<<c>>, S, {c}, {c.name})
BY DEF Piece, Once

(* And none. *)
LEMMA NoPiece ==
    ASSUME NEW S, NEW N
    PROVE  Piece(<<>>, S, {}, N)
BY DEF Piece, Once

(* A part that a message may have. *)
Optional(m, f) == IF Wanted(m, f) = NULL THEN <<>> ELSE <<TextCall(m, f)>>

OptionalCalls(m, f) == IF Wanted(m, f) = NULL THEN {} ELSE {TextCall(m, f)}

(* Its call, if the message has it. *)
LEMMA OptionalPiece ==
    ASSUME NEW m, NEW f \in Texts
    PROVE  Piece(Optional(m, f), Calls(m), OptionalCalls(m, f), {f})
<1>1. CASE Wanted(m, f) = NULL
  <2>1. Piece(<<>>, Calls(m), {}, {f})
    BY NoPiece
  <2> QED
    BY <1>1, <2>1 DEF Optional, OptionalCalls
<1>2. CASE Wanted(m, f) # NULL
  <2>1. TextCall(m, f) \in Calls(m)
    BY <1>2 DEF Calls
  <2>2. TextCall(m, f).name = f
    BY DEF TextCall, TellCall
  <2>3. Piece(<<TextCall(m, f)>>, Calls(m), {TextCall(m, f)}, {f})
    BY <2>1, <2>2, SinglePiece
  <2> QED
    BY <1>2, <2>3 DEF Optional, OptionalCalls
<1> QED
  BY <1>1, <1>2

(* The headers of a message. *)
HeaderCalls(m) ==
    [i \in DOMAIN m.headers |-> [name |-> "header", key |-> m.headers[i].key, text |-> m.headers[i].text]]

(* Their calls, one for each. *)
LEMMA HeaderPiece ==
    ASSUME NEW m \in Messages, ~m.json
    PROVE  Piece(HeaderCalls(m), Calls(m), {HeaderCall(p) : p \in HeadersOf(m)}, {"header"})
<1> DEFINE s == HeaderCalls(m)
           cs == {HeaderCall(p) : p \in HeadersOf(m)}
           n == Len(m.headers)
<1>1. DOMAIN m.headers = 1..n /\ n \in Nat
  BY RequestsAssumption DEF IsMessage, IsText
<1> HIDE DEF n
<1>2. \A i \in 1..n : s[i] = HeaderCall(Pair(m.headers[i].key, m.headers[i].text)) /\ s[i].name = "header"
  BY <1>1 DEF HeaderCalls, HeaderCall, Pair
<1>3. HeadersOf(m) = {Pair(m.headers[i].key, m.headers[i].text) : i \in 1..n}
  BY <1>1 DEF HeadersOf
<1>4. DOMAIN s = 1..n
  BY <1>1 DEF HeaderCalls
<1>5. s = [i \in 1..n |-> s[i]]
  BY <1>1 DEF HeaderCalls
<1> HIDE DEF s
<1>6. cs = {s[i] : i \in DOMAIN s}
  BY <1>2, <1>3, <1>4
<1>7. \A i \in 1..n : s[i] \in Calls(m)
  BY <1>4, <1>6 DEF Calls
<1>8. s \in Seq(Calls(m))
  BY <1>1, <1>5, <1>7
<1>9. Once(s)
  BY <1>2, <1>4 DEF Once
<1>10. \A c \in cs : c.name \in {"header"}
  BY <1>2, <1>4, <1>6
<1> QED
  BY <1>6, <1>8, <1>9, <1>10 DEF Piece, s

(* A sequence with one more at its end. *)
LEMMA WithLast ==
    ASSUME NEW S, NEW s \in Seq(S), NEW x \in S, NEW y \in S
    PROVE  /\ (s \o <<x>>)[Len(s \o <<x>>)] = x /\ Len(s \o <<x>>) > 0
           /\ s \o <<x, y>> = (s \o <<x>>) \o <<y>>
<1>1. s \o <<x>> = Append(s, x)
  OBVIOUS
<1>2. Append(s, x) \in Seq(S) /\ Len(Append(s, x)) = Len(s) + 1 /\ Append(s, x)[Len(s) + 1] = x /\ Len(s) \in Nat
  OBVIOUS
<1>3. s \o <<x, y>> = (s \o <<x>>) \o <<y>>
  <2> DEFINE u == s \o <<x, y>>
             t == Append(s, x)
             v == t \o <<y>>
             n == Len(s)
  <2>1. <<x, y>> \in Seq(S) /\ Len(<<x, y>>) = 2 /\ <<x, y>>[1] = x /\ <<x, y>>[2] = y
    OBVIOUS
  <2>2. t \in Seq(S) /\ Len(t) = n + 1 /\ n \in Nat /\ t[n + 1] = x
    BY <1>2
  <2>3. \A i \in 1..n : t[i] = s[i]
    OBVIOUS
  <2>4. v = Append(t, y)
    BY <2>2
  <2>5. v \in Seq(S) /\ Len(v) = (n + 1) + 1 /\ v[(n + 1) + 1] = y
    BY <2>2, <2>4
  <2>6. \A i \in 1..(n + 1) : v[i] = t[i]
    BY <2>2, <2>4
  <2> DEFINE two == <<x, y>>
  <2> HIDE DEF v, n, two, t
  <2>7. u \in Seq(S) /\ DOMAIN u = 1..(n + 2)
    BY <2>1, Concatenated DEF two, n
  <2>8. \A i \in 1..n : u[i] = s[i]
    BY <2>1, Concatenated DEF two, n
  <2>9. u[n + 1] = x /\ u[n + 2] = y
    BY <2>1, Concatenated DEF two, n
  <2> HIDE DEF u
  <2>10. ASSUME NEW i \in 1..(n + 2)
         PROVE  u[i] = v[i]
    BY <2>2, <2>3, <2>5, <2>6, <2>8, <2>9
  <2>11. Len(u) = n + 2 /\ Len(v) = n + 2
    BY <2>2, <2>5, <2>7
  <2> QED
    BY <1>1, <2>5, <2>7, <2>10, <2>11, SeqEqual DEF u, v, t
<1> QED
  BY <1>1, <1>2, <1>3

(* The calls of a JSON message: its path twice when it has parameters or a query. *)
LEMMA JsonCallbacks ==
    ASSUME NEW m \in Messages, m.json
    PROVE  \E cs, N :
               /\ Piece(Callbacks(m), Calls(m), cs, N)
               /\ OptionalCalls(m, "path") \cup OptionalCalls(m, "query_string") \cup {JsonCall, DoneCall} \subseteq cs
               /\ Callbacks(m)[Len(Callbacks(m))] = DoneCall /\ Len(Callbacks(m)) > 0
<1> DEFINE S == Calls(m)
           path == Optional(m, "path")
           query == Optional(m, "query_string")
           once == m.params = NULL /\ m.query = NULL
           again == IF once THEN <<>> ELSE <<WholeCall(m)>>
           told == (path \o query) \o again
           nearly == told \o <<JsonCall>>
           all == nearly \o <<DoneCall>>
<1>1. m.path # NULL
  BY RequestsAssumption DEF IsMessage
<1>2. Wanted(m, "path") = m.path /\ Wanted(m, "query_string") = m.query
  BY DEF Wanted
<1>3. Callbacks(m) = told \o <<JsonCall, DoneCall>>
  BY <1>2 DEF Callbacks, Optional, TextCall, WholeCall, TellCall, JsonCall, DoneCall
<1>4. JsonCall \in S /\ DoneCall \in S /\ WholeCall(m) \in S
  BY DEF Calls
<1>5. Piece(path, S, OptionalCalls(m, "path"), {"path"})
  BY OptionalPiece DEF Texts
<1>6. Piece(query, S, OptionalCalls(m, "query_string"), {"query_string"})
  BY OptionalPiece DEF Texts
<1>7. \E cs : Piece(again, S, cs, {"path"})
  <2>1. CASE once
    <3>1. Piece(again, S, {}, {"path"})
      BY <2>1, NoPiece
    <3> QED
      BY <3>1
  <2>2. CASE ~once
    <3>1. WholeCall(m).name = "path"
      BY DEF WholeCall, TellCall
    <3>2. Piece(<<WholeCall(m)>>, S, {WholeCall(m)}, {"path"})
      BY <1>4, <3>1, SinglePiece
    <3> QED
      BY <2>2, <3>2
  <2> QED
    BY <2>1, <2>2
<1>8. Piece(<<JsonCall>>, S, {JsonCall}, {"json"}) /\ Piece(<<DoneCall>>, S, {DoneCall}, {"done"})
  <2>1. JsonCall.name = "json" /\ DoneCall.name = "done"
    BY DEF JsonCall, DoneCall
  <2> QED
    BY <1>4, <2>1, SinglePiece
<1> HIDE DEF path, query, once, again, S
<1>9. Piece(path \o query, S, OptionalCalls(m, "path") \cup OptionalCalls(m, "query_string"), {"path"} \cup {"query_string"})
  <2>1. {"path"} \cap {"query_string"} \subseteq {"path", "header"}
    OBVIOUS
  <2> QED
    BY <1>5, <1>6, <2>1, Joined
<1>10. PICK cs : Piece(again, S, cs, {"path"})
  BY <1>7
<1> DEFINE first == (OptionalCalls(m, "path") \cup OptionalCalls(m, "query_string")) \cup cs
           N == ({"path"} \cup {"query_string"}) \cup {"path"}
<1>11. Piece(told, S, first, N)
  <2>1. ({"path"} \cup {"query_string"}) \cap {"path"} \subseteq {"path", "header"}
    OBVIOUS
  <2> QED
    BY <1>9, <1>10, <2>1, Joined
<1>12. "json" \notin N /\ "done" \notin N \cup {"json"}
  OBVIOUS
<1>15. OptionalCalls(m, "path") \cup OptionalCalls(m, "query_string") \cup {JsonCall, DoneCall}
           \subseteq first \cup {JsonCall} \cup {DoneCall}
  BY <1>10
<1> HIDE DEF told, first, N
<1>13. Piece(nearly, S, first \cup {JsonCall}, N \cup {"json"})
  <2>1. N \cap {"json"} \subseteq {"path", "header"}
    BY <1>12
  <2> QED
    BY <1>8, <1>11, <2>1, Joined
<1>16. told \in Seq(S) /\ nearly \in Seq(S)
  BY <1>11, <1>13 DEF Piece
<1>17. Callbacks(m) = all
  BY <1>3, <1>4, <1>16, WithLast
<1> HIDE DEF nearly
<1>14. Piece(all, S, first \cup {JsonCall} \cup {DoneCall}, N \cup {"json"} \cup {"done"})
  <2>1. (N \cup {"json"}) \cap {"done"} \subseteq {"path", "header"}
    BY <1>12
  <2> QED
    BY <1>8, <1>13, <2>1, Joined
<1>18. all[Len(all)] = DoneCall /\ Len(all) > 0
  BY <1>4, <1>16, WithLast
<1> HIDE DEF all
<1> QED
  BY <1>14, <1>15, <1>17, <1>18 DEF S

(* The calls of an HTTP request. *)
LEMMA HttpCallbacks ==
    ASSUME NEW m \in Messages, ~m.json
    PROVE  \E cs, N :
               /\ Piece(Callbacks(m), Calls(m), cs, N)
               /\ cs = (UNION {OptionalCalls(m, f) : f \in Texts}) \cup {HeaderCall(p) : p \in HeadersOf(m)} \cup {DoneCall}
               /\ Callbacks(m)[Len(Callbacks(m))] = DoneCall /\ Len(Callbacks(m)) > 0
<1> DEFINE S == Calls(m)
           O(f) == Optional(m, f)
           C(f) == OptionalCalls(m, f)
           s2 == O("request_method") \o O("path")
           s3 == s2 \o O("query_string")
           s4 == s3 \o O("uri")
           s5 == s4 \o O("fragment")
           s6 == s5 \o O("version")
           s7 == s6 \o HeaderCalls(m)
           s8 == s7 \o <<DoneCall>>
           hs == {HeaderCall(p) : p \in HeadersOf(m)}
           c2 == C("request_method") \cup C("path")
           c3 == c2 \cup C("query_string")
           c4 == c3 \cup C("uri")
           c5 == c4 \cup C("fragment")
           c6 == c5 \cup C("version")
           c7 == c6 \cup hs
           c8 == c7 \cup {DoneCall}
           n2 == {"request_method"} \cup {"path"}
           n3 == n2 \cup {"query_string"}
           n4 == n3 \cup {"uri"}
           n5 == n4 \cup {"fragment"}
           n6 == n5 \cup {"version"}
           n7 == n6 \cup {"header"}
           n8 == n7 \cup {"done"}
           Shared == {"path", "header"}
<1>1. m.method # NULL /\ m.version # NULL /\ m.uri # NULL
  BY RequestsAssumption DEF IsMessage
<1>2. /\ Wanted(m, "request_method") = m.method /\ Wanted(m, "path") = m.path
      /\ Wanted(m, "query_string") = m.query /\ Wanted(m, "uri") = m.uri
      /\ Wanted(m, "fragment") = m.fragment /\ Wanted(m, "version") = m.version
  BY DEF Wanted
<1>3. Callbacks(m) = s8
  BY <1>1, <1>2 DEF Callbacks, Optional, TextCall, TellCall, HeaderCalls, DoneCall
<1>4. c8 = (UNION {OptionalCalls(m, f) : f \in Texts}) \cup hs \cup {DoneCall}
  <2>1. c6 = UNION {OptionalCalls(m, f) : f \in Texts}
    <3>1. ASSUME NEW x
          PROVE  x \in c6 <=> \E f \in Texts : x \in C(f)
      <4> HIDE DEF C
      <4> QED
        BY DEF Texts
    <3> HIDE DEF c6
    <3> QED
      BY <3>1
  <2> DEFINE U == UNION {OptionalCalls(m, f) : f \in Texts}
  <2>2. c6 = U
    BY <2>1
  <2> HIDE DEF c6, U, hs
  <2>3. c8 = U \cup hs \cup {DoneCall}
    BY <2>2
  <2> QED
    BY <2>3 DEF U
<1>5. \A f \in Texts : Piece(O(f), S, C(f), {f})
  BY OptionalPiece
<1>6. /\ Piece(O("request_method"), S, C("request_method"), {"request_method"})
      /\ Piece(O("path"), S, C("path"), {"path"})
      /\ Piece(O("query_string"), S, C("query_string"), {"query_string"})
      /\ Piece(O("uri"), S, C("uri"), {"uri"})
      /\ Piece(O("fragment"), S, C("fragment"), {"fragment"})
      /\ Piece(O("version"), S, C("version"), {"version"})
  BY <1>5 DEF Texts
<1>7. Piece(HeaderCalls(m), S, hs, {"header"})
  BY HeaderPiece
<1>8. Piece(<<DoneCall>>, S, {DoneCall}, {"done"}) /\ DoneCall \in S
  <2>1. DoneCall.name = "done" /\ DoneCall \in S
    BY DEF DoneCall, Calls
  <2> QED
    BY <2>1, SinglePiece
<1>9. /\ {"request_method"} \cap {"path"} \subseteq Shared /\ n2 \cap {"query_string"} \subseteq Shared
      /\ n3 \cap {"uri"} \subseteq Shared /\ n4 \cap {"fragment"} \subseteq Shared
      /\ n5 \cap {"version"} \subseteq Shared /\ n6 \cap {"header"} \subseteq Shared
      /\ n7 \cap {"done"} \subseteq Shared
  OBVIOUS
<1> HIDE DEF S, O, C, hs
<1>12. Piece(s2, S, c2, n2)
  BY <1>6, <1>9, Joined
<1> HIDE DEF s2, c2, n2
<1>13. Piece(s3, S, c3, n3)
  BY <1>6, <1>9, <1>12, Joined
<1> HIDE DEF s3, c3, n3
<1>14. Piece(s4, S, c4, n4)
  BY <1>6, <1>9, <1>13, Joined
<1> HIDE DEF s4, c4, n4
<1>15. Piece(s5, S, c5, n5)
  BY <1>6, <1>9, <1>14, Joined
<1> HIDE DEF s5, c5, n5
<1>16. Piece(s6, S, c6, n6)
  BY <1>6, <1>9, <1>15, Joined
<1> HIDE DEF s6, c6, n6
<1>17. Piece(s7, S, c7, n7)
  BY <1>7, <1>9, <1>16, Joined
<1> HIDE DEF s7, c7, n7
<1>18. Piece(s8, S, c8, n8)
  BY <1>8, <1>9, <1>17, Joined
<1>19. s8[Len(s8)] = DoneCall /\ Len(s8) > 0
  <2>1. s7 \in Seq(S)
    BY <1>17 DEF Piece
  <2> QED
    BY <1>8, <2>1, WithLast
<1> HIDE DEF s8, c8, n8
<1> QED
  BY <1>3, <1>4, <1>18, <1>19 DEF S, hs

(* The parser tells the whole message. *)
LEMMA CallbacksTell ==
    ASSUME NEW m \in Messages
    PROVE  /\ Left(Callbacks(m), m)
           /\ \A f \in Texts : Wanted(m, f) # NULL => IsLeft(Callbacks(m), TextCall(m, f))
           /\ \A p \in HeadersOf(m) : IsLeft(Callbacks(m), HeaderCall(p))
           /\ m.json => IsLeft(Callbacks(m), JsonCall)
<1> DEFINE s == Callbacks(m)
<1>1. CASE m.json
  <2>1. PICK cs, N :
            /\ Piece(s, Calls(m), cs, N)
            /\ OptionalCalls(m, "path") \cup OptionalCalls(m, "query_string") \cup {JsonCall, DoneCall} \subseteq cs
            /\ s[Len(s)] = DoneCall /\ Len(s) > 0
    BY <1>1, JsonCallbacks
  <2> HIDE DEF s
  <2>2. \A c \in cs : IsLeft(s, c)
    BY <2>1 DEF Piece, IsLeft
  <2>3. Left(s, m)
    BY <2>1 DEF Piece, Left
  <2>4. \A f \in Texts : Wanted(m, f) # NULL => f \in {"path", "query_string"}
    BY <1>1 DEF Wanted, Texts
  <2>5. \A f \in Texts : Wanted(m, f) # NULL => TextCall(m, f) \in cs
    BY <2>1, <2>4 DEF OptionalCalls
  <2>6. HeadersOf(m) = {}
    BY <1>1 DEF HeadersOf
  <2> QED
    BY <2>1, <2>2, <2>3, <2>5, <2>6 DEF s
<1>2. CASE ~m.json
  <2>1. PICK cs, N :
            /\ Piece(s, Calls(m), cs, N)
            /\ cs = (UNION {OptionalCalls(m, f) : f \in Texts}) \cup {HeaderCall(p) : p \in HeadersOf(m)} \cup {DoneCall}
            /\ s[Len(s)] = DoneCall /\ Len(s) > 0
    BY <1>2, HttpCallbacks
  <2> HIDE DEF s
  <2>2. \A c \in cs : IsLeft(s, c)
    BY <2>1 DEF Piece, IsLeft
  <2>3. Left(s, m)
    BY <2>1 DEF Piece, Left
  <2>5. \A f \in Texts : Wanted(m, f) # NULL => TextCall(m, f) \in cs
    BY <2>1 DEF OptionalCalls
  <2>6. ASSUME NEW p \in HeadersOf(m)
        PROVE  HeaderCall(p) \in cs
    <3>1. HeaderCall(p) \in {HeaderCall(q) : q \in HeadersOf(m)}
      OBVIOUS
    <3> DEFINE U == UNION {OptionalCalls(m, f) : f \in Texts}
               hs == {HeaderCall(q) : q \in HeadersOf(m)}
    <3>2. cs = U \cup hs \cup {DoneCall}
      BY <2>1
    <3>3. HeaderCall(p) \in hs
      BY <3>1
    <3> HIDE DEF U, hs
    <3> QED
      BY <3>2, <3>3
  <2> QED
    BY <1>2, <2>2, <2>3, <2>5, <2>6 DEF s
<1> QED
  BY <1>1, <1>2

(* After Request_start all of it is still to be told. *)
LEMMA StartFills ==
    ASSUME NEW r, NEW h, Bare(r), r.content_len = 0, r.json_sent = FALSE, NEW m \in Messages
    PROVE  Filling(r, h, m, Callbacks(m))
<1>1. PartsFilled(r, h, m, Callbacks(m))
  BY CallbacksTell, FieldNames DEF PartsFilled, Bare
<1>2. HeadersFilled(r, h, m, Callbacks(m))
  BY CallbacksTell DEF HeadersFilled, Listed, Bare
<1>3. JsonFilled(r, m, Callbacks(m))
  BY CallbacksTell DEF JsonFilled
<1>4. r.host_name = NULL
  BY FieldNames DEF Bare
<1> QED
  BY <1>1, <1>2, <1>3, <1>4, CallbacksTell DEF Filling

-----------------------------------------------------------------------------
(* What is left when the first call was made. *)
LEMMA LeftTail ==
    ASSUME NEW m, NEW s, Left(s, m), Len(s) > 1
    PROVE  /\ Left(Tail(s), m) /\ Head(s) \in Calls(m) /\ Head(s).name # "done"
           /\ \A c : IsLeft(s, c) => c = Head(s) \/ IsLeft(Tail(s), c)
           /\ \A c : IsLeft(Tail(s), c) => IsLeft(s, c)
           /\ IsLeft(s, Head(s))
           /\ Head(s).name \notin {"path", "header"} => ~IsLeft(Tail(s), Head(s))
<1> DEFINE n == Len(s)
           t == Tail(s)
<1>1. s \in Seq(Calls(m)) /\ n \in Nat /\ n > 1 /\ s[n] = DoneCall
  BY DEF Left
<1>2. /\ t \in Seq(Calls(m)) /\ Len(t) = n - 1 /\ DOMAIN t = 1..(n - 1) /\ DOMAIN s = 1..n
      /\ Head(s) = s[1] /\ s[1] \in Calls(m)
  BY <1>1
<1>3. \A i \in 1..(n - 1) : t[i] = s[i + 1]
  BY <1>1
<1> HIDE DEF t, n
<1>4. \A i \in 1..(n - 1) : i + 1 \in 1..n /\ i + 1 # 1
  BY <1>1
<1>5. ASSUME NEW i \in 1..n, i # 1
      PROVE  \E j \in 1..(n - 1) : i = j + 1
  <2>1. i - 1 \in 1..(n - 1) /\ i = (i - 1) + 1
    BY <1>1, <1>5
  <2> QED
    BY <2>1
<1>6. n - 1 \in 1..(n - 1) /\ (n - 1) + 1 = n /\ n \in 1..n /\ 1 \in 1..n
  BY <1>1
<1>7. t[Len(t)] = DoneCall /\ Len(t) > 0
  <2>1. t[n - 1] = s[n]
    BY <1>3, <1>6
  <2>2. Len(t) > 0
    BY <1>1, <1>2
  <2> QED
    BY <1>1, <1>2, <2>1, <2>2
<1>8. Once(t)
  <2>1. ASSUME NEW i \in 1..(n - 1), NEW j \in 1..(n - 1), t[i].name = t[j].name, i # j
        PROVE  t[i].name \in {"path", "header"}
    <3>1. i + 1 # j + 1
      BY <1>1, <2>1
    <3> QED
      BY <1>2, <1>3, <1>4, <2>1, <3>1 DEF Left, Once
  <2> QED
    BY <1>2, <2>1 DEF Once
<1>9. Left(t, m)
  BY <1>2, <1>7, <1>8 DEF Left
<1>10. \A i \in 1..(n - 1) : s[1].name = t[i].name => s[1].name \in {"path", "header"}
  BY <1>2, <1>3, <1>4, <1>6 DEF Left, Once
<1>11. Head(s).name # "done"
  <2>1. DoneCall.name = "done"
    BY DEF DoneCall
  <2>2. t[n - 1].name = "done"
    BY <1>2, <1>7, <2>1
  <2> QED
    BY <1>2, <1>6, <1>10, <2>2
<1>12. \A c : IsLeft(s, c) => c = Head(s) \/ IsLeft(t, c)
  BY <1>2, <1>3, <1>5 DEF IsLeft
<1>13. \A c : IsLeft(t, c) => IsLeft(s, c)
  BY <1>2, <1>3, <1>4 DEF IsLeft
<1>14. IsLeft(s, Head(s))
  BY <1>2, <1>6 DEF IsLeft
<1>15. Head(s).name \notin {"path", "header"} => ~IsLeft(t, Head(s))
  BY <1>2, <1>10 DEF IsLeft
<1> QED
  BY <1>2, <1>9, <1>11, <1>12, <1>13, <1>14, <1>15 DEF t

(* The headers and their texts stay when only other strings are made. *)
LEMMA ListedStays ==
    ASSUME NEW r, NEW h, NEW n, Owned(r, h, n), NEW R, NEW H, R.headers = r.headers, \A x \in DOMAIN h : H[x] = h[x]
    PROVE  Listed(R, H) = Listed(r, h)
<1>1. \A i \in DOMAIN r.headers : r.headers[i].key \in DOMAIN h /\ r.headers[i].value \in DOMAIN h
  <2>1. \A i \in DOMAIN r.headers : r.headers[i]["key"] \in DOMAIN h /\ r.headers[i]["value"] \in DOMAIN h
    BY DEF Owned, HeadersOwned, HeaderSides
  <2> QED
    BY <2>1
<1>2. \A i \in DOMAIN r.headers :
          Pair(H[r.headers[i].key].text, H[r.headers[i].value].text) = Pair(h[r.headers[i].key].text, h[r.headers[i].value].text)
  BY <1>1
<1> HIDE DEF Pair
<1> QED
  BY <1>2 DEF Listed

(* A part is told. *)
LEMMA TextFills ==
    ASSUME NEW r, NEW h, NEW n, Owned(r, h, n), NEW m, NEW s, Filling(r, h, m, s), Len(s) > 1,
           NEW f \in Texts, NEW text \in Wants(m, f), Head(s) = TellCall(f, text), Wanted(m, f) # NULL
    PROVE  Filling(Put(r, f, n + 1), Made(h, n + 1, text, f), m, Tail(s))
<1> DEFINE R == Put(r, f, n + 1)
           H == Made(h, n + 1, text, f)
           t == Tail(s)
<1>1. Left(t, m) /\ \A c : IsLeft(s, c) => c = TellCall(f, text) \/ IsLeft(t, c)
  BY LeftTail DEF Filling
<1>2. \A c : IsLeft(t, c) => IsLeft(s, c)
  BY LeftTail DEF Filling
<1>3. TellCall(f, text).name = f
  BY DEF TellCall
<1>4. f # "path" => ~IsLeft(t, TextCall(m, f))
  <2>1. f # "header"
    BY DEF Texts
  <2>2. f # "path" => TellCall(f, text) = TextCall(m, f)
    BY DEF TextCall, Wants
  <2> QED
    BY <1>3, <2>1, <2>2, LeftTail DEF Filling
<1>5. Grown(h, H, n, text, f)
  <2>1. IsHeap(h, n)
    BY DEF Owned
  <2> QED
    BY <2>1, MadeFacts
<1> HIDE DEF H, t
<1>6. \A x \in DOMAIN h : H[x] = h[x]
  BY <1>5 DEF Grown
<1>7. H[n + 1].text = text /\ n + 1 # NULL
  BY <1>5, RequestsAssumption DEF Grown
<1>8. DOMAIN r = Fields
  BY DEF Owned, IsRequest
<1>9. R[f] = n + 1
  BY <1>8, PutFacts, FieldNames
<1>10. \A g \in Fields : g # f => R[g] = r[g]
  BY <1>8, PutFacts, FieldNames
<1> HIDE DEF R
<1>11. PartsFilled(R, H, m, t)
  <2>1. ASSUME NEW g \in Texts
        PROVE  /\ R[g] # NULL => Wanted(m, g) # NULL /\ H[R[g]].text \in Wants(m, g)
               /\ R[g] = NULL => Wanted(m, g) = NULL \/ IsLeft(t, TextCall(m, g))
               /\ g # "path" /\ R[g] # NULL => ~IsLeft(t, TextCall(m, g))
    <3>1. CASE g = f
      BY <1>4, <1>7, <1>9, <3>1
    <3>2. CASE g # f
      <4>1. R[g] = r[g] /\ (r[g] # NULL => r[g] \in DOMAIN h)
        BY <1>10, <3>2, FieldNames DEF Owned, PartsOwned
      <4>2. TextCall(m, g) # TellCall(f, text)
        BY <3>2 DEF TextCall, TellCall
      <4>3. /\ r[g] # NULL => Wanted(m, g) # NULL /\ h[r[g]].text \in Wants(m, g)
            /\ r[g] = NULL => Wanted(m, g) = NULL \/ IsLeft(s, TextCall(m, g))
            /\ g # "path" /\ r[g] # NULL => ~IsLeft(s, TextCall(m, g))
        BY DEF Filling, PartsFilled
      <4> QED
        BY <1>1, <1>2, <1>6, <4>1, <4>2, <4>3
    <3> QED
      BY <3>1, <3>2
  <2> QED
    BY <2>1 DEF PartsFilled
<1>12. /\ R.headers = r.headers /\ R.json_sent = r.json_sent /\ R.content_len = r.content_len
       /\ R.host_name = r.host_name
  BY <1>10, FieldNames
<1>13. HeadersFilled(R, H, m, t)
  <2>1. Listed(R, H) = Listed(r, h)
    BY <1>6, <1>12, ListedStays
  <2>2. \A p : HeaderCall(p) # TellCall(f, text)
    BY DEF HeaderCall, TellCall, Texts
  <2> QED
    BY <1>1, <2>1, <2>2 DEF Filling, HeadersFilled
<1>14. JsonFilled(R, m, t)
  <2>1. JsonCall # TellCall(f, text)
    BY DEF JsonCall, TellCall, Texts
  <2> QED
    BY <1>1, <1>12, <2>1 DEF Filling, JsonFilled
<1> QED
  BY <1>1, <1>11, <1>12, <1>13, <1>14 DEF Filling, R, H, t

(* What header_field_cb adds. *)
LEMMA ListedGrows ==
    ASSUME NEW r, NEW h, NEW n, Owned(r, h, n), NEW key, NEW text,
           NEW R, R = Put(r, "headers", Append(r.headers, [key |-> (n + 1) + 1, value |-> n + 1])),
           NEW H, H = Made(Made(h, n + 1, text, "header"), (n + 1) + 1, key, "header")
    PROVE  /\ Listed(R, H) = Listed(r, h) \cup {Pair(key, text)}
           /\ \A x \in DOMAIN h : H[x] = h[x]
           /\ \A f \in Fields \ {"headers"} : R[f] = r[f]
<1> DEFINE p == [key |-> (n + 1) + 1, value |-> n + 1]
           G == Made(h, n + 1, text, "header")
           list == Append(r.headers, p)
           last == Len(r.headers) + 1
<1>1. Grown(h, G, n, text, "header")
  BY MadeFacts DEF Owned
<1> HIDE DEF G
<1>2. H = Made(G, (n + 1) + 1, key, "header")
  BY DEF G
<1>3. Grown(G, H, n + 1, key, "header")
  <2>1. IsHeap(G, n + 1)
    BY <1>1 DEF Grown
  <2> QED
    BY <1>2, <2>1, MadeFacts
<1>4. \A x \in DOMAIN h : G[x] = h[x] /\ x \in DOMAIN G
  BY <1>1 DEF Grown
<1>5. \A x \in DOMAIN G : H[x] = G[x]
  BY <1>3 DEF Grown
<1>6. \A x \in DOMAIN h : H[x] = h[x]
  BY <1>4, <1>5
<1>7. H[(n + 1) + 1].text = key
  BY <1>3 DEF Grown
<1>8. H[n + 1].text = text
  BY <1>1, <1>5 DEF Grown
<1>9. p \in Pairs /\ p.key = (n + 1) + 1 /\ p.value = n + 1
  BY <1>1, <1>3 DEF Pairs, Grown
<1>10. DOMAIN r = Fields /\ r.headers \in Seq(Pairs)
  BY DEF Owned, IsRequest
<1>11. R.headers = list /\ \A f \in Fields \ {"headers"} : R[f] = r[f]
  <2>1. R = Put(r, "headers", list) /\ "headers" \in Fields
    BY FieldNames
  <2> HIDE DEF list
  <2> QED
    BY <1>10, <2>1, PutFacts
<1> HIDE DEF p
<1>12. DOMAIN list = (DOMAIN r.headers) \cup {last} /\ list[last] = p
  BY <1>9, <1>10, ListedFacts
<1>13. \A i \in DOMAIN r.headers : list[i] = r.headers[i]
  BY <1>9, <1>10, ListedFacts
<1> HIDE DEF list, last
<1>14. \A i \in DOMAIN r.headers : r.headers[i].key \in DOMAIN h /\ r.headers[i].value \in DOMAIN h
  <2>1. \A i \in DOMAIN r.headers : r.headers[i]["key"] \in DOMAIN h /\ r.headers[i]["value"] \in DOMAIN h
    BY DEF Owned, HeadersOwned, HeaderSides
  <2> QED
    BY <2>1
<1> DEFINE Text(i) == Pair(H[list[i].key].text, H[list[i].value].text)
<1>15. \A i \in DOMAIN r.headers : Text(i) = Pair(h[r.headers[i].key].text, h[r.headers[i].value].text)
  BY <1>6, <1>13, <1>14
<1>16. Text(last) = Pair(key, text)
  BY <1>7, <1>8, <1>9, <1>12
<1>17. Listed(R, H) = {Text(i) : i \in DOMAIN list}
  BY <1>11 DEF Listed
<1> HIDE DEF Text
<1>18. Listed(R, H) = Listed(r, h) \cup {Pair(key, text)}
  <2>1. {Text(i) : i \in DOMAIN list} = {Text(i) : i \in DOMAIN r.headers} \cup {Text(last)}
    BY <1>12
  <2>2. {Text(i) : i \in DOMAIN r.headers} = Listed(r, h)
    BY <1>15 DEF Listed
  <2> QED
    BY <1>16, <1>17, <2>1, <2>2
<1> QED
  BY <1>6, <1>11, <1>18

(* A header is told. *)
LEMMA HeaderFills ==
    ASSUME NEW r, NEW h, NEW n, Owned(r, h, n), NEW m, NEW s, Filling(r, h, m, s), Len(s) > 1,
           NEW p \in HeadersOf(m), Head(s) = HeaderCall(p), p = Pair(p.key, p.text),
           NEW R, R = Put(r, "headers", Append(r.headers, [key |-> (n + 1) + 1, value |-> n + 1])),
           NEW H, H = Made(Made(h, n + 1, p.text, "header"), (n + 1) + 1, p.key, "header")
    PROVE  Filling(R, H, m, Tail(s))
<1> DEFINE t == Tail(s)
<1>1. Left(t, m) /\ \A c : IsLeft(s, c) => c = HeaderCall(p) \/ IsLeft(t, c)
  BY LeftTail DEF Filling
<1>2. \A c : IsLeft(t, c) => IsLeft(s, c)
  BY LeftTail DEF Filling
<1>3. Listed(R, H) = Listed(r, h) \cup {p}
  BY ListedGrows
<1>4. \A x \in DOMAIN h : H[x] = h[x]
  BY ListedGrows
<1>5. \A f \in Fields \ {"headers"} : R[f] = r[f]
  BY ListedGrows
<1> HIDE DEF t
<1>6. PartsFilled(R, H, m, t)
  <2>1. ASSUME NEW g \in Texts
        PROVE  /\ R[g] # NULL => Wanted(m, g) # NULL /\ H[R[g]].text \in Wants(m, g)
               /\ R[g] = NULL => Wanted(m, g) = NULL \/ IsLeft(t, TextCall(m, g))
               /\ g # "path" /\ R[g] # NULL => ~IsLeft(t, TextCall(m, g))
    <3>1. R[g] = r[g] /\ (r[g] # NULL => r[g] \in DOMAIN h)
      BY <1>5, FieldNames DEF Owned, PartsOwned
    <3>2. TextCall(m, g) # HeaderCall(p)
      BY DEF TextCall, TellCall, HeaderCall, Texts
    <3>3. /\ r[g] # NULL => Wanted(m, g) # NULL /\ h[r[g]].text \in Wants(m, g)
          /\ r[g] = NULL => Wanted(m, g) = NULL \/ IsLeft(s, TextCall(m, g))
          /\ g # "path" /\ r[g] # NULL => ~IsLeft(s, TextCall(m, g))
      BY DEF Filling, PartsFilled
    <3> QED
      BY <1>1, <1>2, <1>4, <3>1, <3>2, <3>3
  <2> QED
    BY <2>1 DEF PartsFilled
<1>7. R.json_sent = r.json_sent /\ R.content_len = r.content_len /\ R.host_name = r.host_name
  BY <1>5, FieldNames
<1>8. HeadersFilled(R, H, m, t)
  <2>1. ASSUME NEW q \in HeadersOf(m), q # p
        PROVE  HeaderCall(q) # HeaderCall(p)
    <3>1. \A q1 \in HeadersOf(m) : q1 = Pair(q1.key, q1.text)
      BY DEF HeadersOf, Pair
    <3> QED
      BY <2>1, <3>1 DEF HeaderCall, Pair
  <2> QED
    BY <1>1, <1>3, <2>1 DEF Filling, HeadersFilled
<1>9. JsonFilled(R, m, t)
  <2>1. JsonCall # HeaderCall(p)
    BY DEF JsonCall, HeaderCall
  <2> QED
    BY <1>1, <1>7, <2>1 DEF Filling, JsonFilled
<1> QED
  BY <1>1, <1>6, <1>7, <1>8, <1>9 DEF Filling, t

(* A JSON message says that it is one. *)
LEMMA JsonFills ==
    ASSUME NEW r, NEW h, NEW n, Owned(r, h, n), NEW m, NEW s, Filling(r, h, m, s), Len(s) > 1,
           Head(s) = JsonCall, m.json, NEW R, R = Put(r, "json_sent", TRUE)
    PROVE  Filling(R, h, m, Tail(s))
<1> DEFINE t == Tail(s)
<1>1. Left(t, m) /\ \A c : IsLeft(s, c) => c = JsonCall \/ IsLeft(t, c)
  BY LeftTail DEF Filling
<1>2. \A c : IsLeft(t, c) => IsLeft(s, c)
  BY LeftTail DEF Filling
<1> HIDE DEF t
<1>3. DOMAIN r = Fields
  BY DEF Owned, IsRequest
<1>4. R.json_sent = TRUE
  BY <1>3, FieldNames DEF Put
<1>5. \A f \in Fields \ {"json_sent"} : R[f] = r[f]
  BY <1>3 DEF Put
<1>6. R.headers = r.headers /\ R.host_name = r.host_name /\ R.content_len = r.content_len
  BY <1>5, FieldNames
<1>7. PartsFilled(R, h, m, t)
  <2>1. \A g \in Texts : R[g] = r[g]
    BY <1>5, FieldNames
  <2>2. \A g \in Texts : TextCall(m, g) # JsonCall
    BY DEF TextCall, TellCall, JsonCall, Texts
  <2> QED
    BY <1>1, <1>2, <2>1, <2>2 DEF Filling, PartsFilled
<1>8. HeadersFilled(R, h, m, t)
  <2>1. Listed(R, h) = Listed(r, h)
    BY <1>6 DEF Listed
  <2>2. \A p : HeaderCall(p) # JsonCall
    BY DEF HeaderCall, JsonCall
  <2> QED
    BY <1>1, <2>1, <2>2 DEF Filling, HeadersFilled
<1>9. JsonFilled(R, m, t)
  BY <1>4 DEF JsonFilled
<1> QED
  BY <1>1, <1>6, <1>7, <1>8, <1>9 DEF Filling, t

(* json_sent. *)
LEMMA JsonIs ==
    ASSUME NEW r, NEW h, NEW n, NEW u
    PROVE  Apply(World(r, h, n, u), JsonCall) = World(Put(r, "json_sent", TRUE), h, n, u)
<1> DEFINE w == World(r, h, n, u)
<1>1. w.req = r
  BY DEF World
<1>2. JsonCall.name = "json"
  BY DEF JsonCall
<1>3. Apply(w, JsonCall) = [w EXCEPT !.req = Put(r, "json_sent", TRUE)]
  <2> HIDE DEF w
  <2> QED
    BY <1>1, <1>2 DEF Apply, Put
<1> QED
  BY <1>3 DEF World

(* R is r after the first call of s. *)
Further(r, R, H, m, s) == Filling(R, H, m, Tail(s)) /\ R.pattern = r.pattern

(* Any call but the last one: the strings are accounted for, and the request is filled further. *)
LEMMA CallFills ==
    ASSUME NEW r, NEW h, NEW n, NEW u, Owned(r, h, n), NEW m, NEW s, Filling(r, h, m, s), Len(s) > 1
    PROVE  \E R, H, N :
               Apply(World(r, h, n, u), Head(s)) = World(R, H, N, u) /\ Owned(R, H, N) /\ Further(r, R, H, m, s)
<1> DEFINE c == Head(s)
           w == World(r, h, n, u)
<1>1. c \in Calls(m) /\ c.name # "done" /\ IsLeft(s, c)
  BY LeftTail DEF Filling
<1>2. DOMAIN r = Fields
  BY DEF Owned, IsRequest
<1>3. ASSUME NEW f \in Texts, NEW text \in Wants(m, f), Wanted(m, f) # NULL, c = TellCall(f, text)
      PROVE  \E R, H, N :
               Apply(w, c) = World(R, H, N, u) /\ Owned(R, H, N) /\ Further(r, R, H, m, s)
  <2> DEFINE R == Put(r, f, n + 1)
             H == Made(h, n + 1, text, f)
  <2>1. f \notin {"header", "json", "done"}
    BY DEF Texts
  <2>2. c.name = f /\ c.text = text
    BY <1>3 DEF TellCall
  <2>3. Apply(w, c) = PartCallback(w, f, text)
    <3> HIDE DEF w, c
    <3> QED
      BY <2>1, <2>2 DEF Apply
  <2>4. Apply(w, c) = World(R, H, n + 1, u)
    BY <2>3, PartCallbackIs
  <2>5. f = "path" \/ r[f] = NULL
    <3>1. f # "path" => c = TextCall(m, f)
      BY <1>3 DEF TextCall, Wants
    <3> QED
      BY <1>1, <3>1 DEF Filling, PartsFilled
  <2>6. Owned(R, H, n + 1)
    BY <2>5, PartOwned, FieldNames
  <2>7. Filling(R, H, m, Tail(s))
    BY <1>3, TextFills
  <2>8. R.pattern = r.pattern
    BY <1>2, PutFacts, FieldNames
  <2> HIDE DEF R, H, w, c
  <2> QED
    BY <2>4, <2>6, <2>7, <2>8 DEF Further
<1>4. ASSUME NEW p \in HeadersOf(m), c = HeaderCall(p)
      PROVE  \E R, H, N :
               Apply(w, c) = World(R, H, N, u) /\ Owned(R, H, N) /\ Further(r, R, H, m, s)
  <2> DEFINE R == Put(r, "headers", Append(r.headers, [key |-> (n + 1) + 1, value |-> n + 1]))
             H == Made(Made(h, n + 1, p.text, "header"), (n + 1) + 1, p.key, "header")
  <2>1. c.name = "header" /\ c.key = p.key /\ c.text = p.text
    BY <1>4 DEF HeaderCall
  <2>2. Apply(w, c) = header_field_cb(w, p.key, p.text)
    <3> HIDE DEF w, c
    <3> QED
      BY <2>1 DEF Apply
  <2>3. Apply(w, c) = World(R, H, (n + 1) + 1, u)
    BY <2>2, HeaderFieldIs
  <2>4. Owned(R, H, (n + 1) + 1)
    BY HeaderOwned
  <2>5. p = Pair(p.key, p.text)
    BY DEF HeadersOf, Pair
  <2>6. Filling(R, H, m, Tail(s))
    BY <1>4, <2>5, HeaderFills
  <2>7. R.pattern = r.pattern
    BY <1>2, PutFacts, FieldNames
  <2> HIDE DEF R, H, w, c
  <2> QED
    BY <2>3, <2>4, <2>6, <2>7 DEF Further
<1>5. ASSUME m.json, c = JsonCall
      PROVE  \E R, H, N :
               Apply(w, c) = World(R, H, N, u) /\ Owned(R, H, N) /\ Further(r, R, H, m, s)
  <2> DEFINE R == Put(r, "json_sent", TRUE)
  <2>1. Apply(w, c) = World(R, h, n, u)
    BY <1>5, JsonIs
  <2>2. Owned(R, h, n)
    <3>1. "json_sent" \in Fields \ Parts /\ "json_sent" # "headers"
      BY FieldNames
    <3> QED
      BY <3>1, OtherOwned
  <2>3. Filling(R, h, m, Tail(s))
    BY <1>5, JsonFills
  <2>4. R.pattern = r.pattern
    BY <1>2, FieldNames DEF Put
  <2> HIDE DEF R, w, c
  <2> QED
    BY <2>1, <2>2, <2>3, <2>4 DEF Further
<1>6. \/ \E f \in Texts : \E text \in Wants(m, f) : Wanted(m, f) # NULL /\ c = TellCall(f, text)
      \/ \E p \in HeadersOf(m) : c = HeaderCall(p)
      \/ m.json /\ c = JsonCall
  <2>1. DoneCall.name = "done"
    BY DEF DoneCall
  <2>2. ASSUME NEW f \in Texts, Wanted(m, f) # NULL, c = TextCall(m, f)
        PROVE  \E text \in Wants(m, f) : c = TellCall(f, text)
    BY <2>2 DEF Wants, PathsTold, Wanted, TextCall
  <2>3. ASSUME m.json, c = WholeCall(m)
        PROVE  /\ "path" \in Texts /\ Wanted(m, "path") # NULL
               /\ WholePath(m) \in Wants(m, "path") /\ c = TellCall("path", WholePath(m))
    <3>1. m.path # NULL
      BY <2>3, RequestsAssumption DEF Filling, IsMessage
    <3> QED
      BY <2>3, <3>1 DEF Texts, Wanted, Wants, PathsTold, WholeCall
  <2> HIDE DEF c
  <2>4. \/ \E f \in Texts : Wanted(m, f) # NULL /\ c = TextCall(m, f)
        \/ \E p \in HeadersOf(m) : c = HeaderCall(p)
        \/ m.json /\ c = JsonCall
        \/ m.json /\ c = WholeCall(m)
    BY <1>1, <2>1 DEF Calls
  <2> QED
    BY <2>2, <2>3, <2>4
<1> HIDE DEF c, w
<1> QED
  BY <1>3, <1>4, <1>5, <1>6 DEF c, w

-----------------------------------------------------------------------------
(* The end of the head. *)
HasHeader(r, h, key) == \E i \in DOMAIN r.headers : h[r.headers[i].key].text = key

(* Request_get *)
LEMMA RequestGetIs ==
    ASSUME NEW r, NEW h, NEW n, NEW u, Owned(r, h, n), NEW key, NEW value,
           value = Request_get(World(r, h, n, u), key)
    PROVE  /\ value = NULL <=> ~HasHeader(r, h, key)
           /\ value # NULL => \E i \in DOMAIN r.headers : value = r.headers[i].value
<1> DEFINE w == World(r, h, n, u)
           hits == {i \in DOMAIN w.req.headers : TextOf(w, w.req.headers[i].key) = key}
           first == CHOOSE i \in hits : \A j \in hits : i <= j
<1>1. w.req = r /\ w.heap = h
  BY DEF World
<1>2. value = IF hits = {} THEN NULL ELSE w.req.headers[first].value
  BY DEF Request_get
<1> HIDE DEF w
<1>3. hits = {i \in DOMAIN r.headers : h[r.headers[i].key].text = key}
  BY <1>1 DEF TextOf
<1> HIDE DEF hits
<1>4. CASE hits = {}
  BY <1>2, <1>3, <1>4 DEF HasHeader
<1>5. CASE hits # {}
  <2>1. hits \subseteq Nat
    BY <1>3 DEF Owned, IsRequest
  <2>2. \E x \in hits : x \in Nat /\ \A y \in hits : x <= y
    BY <1>5, <2>1, LeastNumber
  <2>3. first \in hits
    BY <2>2
  <2> HIDE DEF first
  <2>4. first \in DOMAIN r.headers
    BY <1>3, <2>3
  <2>5. r.headers[first].value # NULL
    <3>1. r.headers[first]["value"] \in DOMAIN h
      BY <2>4 DEF Owned, HeadersOwned, HeaderSides
    <3> QED
      BY <3>1, RequestsAssumption DEF Owned, IsHeap
  <2>6. value = r.headers[first].value
    BY <1>1, <1>2, <1>5
  <2>7. HasHeader(r, h, key)
    BY <1>3, <2>3 DEF HasHeader
  <2> QED
    BY <2>4, <2>5, <2>6, <2>7
<1> QED
  BY <1>4, <1>5

(* What ContentLen sets. *)
LEMMA ContentLenIs ==
    ASSUME NEW r, NEW h, NEW n, NEW u, Owned(r, h, n)
    PROVE  \E R :
               /\ ContentLen(World(r, h, n, u)) = World(R, h, n, u) /\ Owned(R, h, n)
               /\ \A f \in Fields \ {"content_len"} : R[f] = r[f]
               /\ ~HasHeader(r, h, "Content-Length") => R.content_len = r.content_len
<1> DEFINE w == World(r, h, n, u)
           clen == Request_get(w, "Content-Length")
           length == atoi(TextOf(w, clen))
           R == Put(r, "content_len", length)
<1>1. ContentLen(w) = IF clen = NULL THEN w ELSE [w EXCEPT !.req.content_len = length]
  BY DEF ContentLen
<1>2. clen = NULL <=> ~HasHeader(r, h, "Content-Length")
  BY RequestGetIs
<1> HIDE DEF clen, length
<1>3. CASE clen = NULL
  BY <1>1, <1>3
<1>4. CASE clen # NULL
  <2>1. w.req = r
    BY DEF World
  <2>2. ContentLen(w) = [w EXCEPT !.req = R]
    <3> HIDE DEF w
    <3> QED
      BY <1>1, <1>4, <2>1 DEF Put
  <2>3. ContentLen(w) = World(R, h, n, u)
    <3> HIDE DEF R
    <3> QED
      BY <2>2 DEF World
  <2>4. "content_len" \in Fields \ Parts /\ "content_len" # "headers"
    BY FieldNames
  <2>5. Owned(R, h, n)
    BY <2>4, OtherOwned
  <2>6. \A f \in Fields \ {"content_len"} : R[f] = r[f]
    BY <2>4, PutFacts DEF Owned, IsRequest
  <2> HIDE DEF w, R
  <2> QED
    BY <1>2, <1>4, <2>3, <2>5, <2>6 DEF w
<1> QED
  BY <1>3, <1>4

(* What header_done_cb sets. *)
HostSet(r, h, R, H) ==
    /\ \A x \in DOMAIN h : H[x] = h[x]
    /\ \A f \in Fields \ {"content_len", "host", "host_name"} : R[f] = r[f]
    /\ ~HasHeader(r, h, "Content-Length") => R.content_len = r.content_len
    /\ R.host = NULL <=> ~HasHeader(r, h, "Host")
    /\ R.host # NULL => /\ \E i \in DOMAIN r.headers : R.host = r.headers[i].value
                        /\ H[R.host_name].text = HostName(h[R.host].text)
                        /\ R.host_name \in DOMAIN H

(* header_done_cb *)
LEMMA HeaderDoneIs ==
    ASSUME NEW r, NEW h, NEW n, NEW u, Owned(r, h, n), r.host_name = NULL
    PROVE  \E R, H, N :
               header_done_cb(World(r, h, n, u)) = World(R, H, N, u) /\ Owned(R, H, N) /\ HostSet(r, h, R, H)
<1>1. PICK r1 :
          /\ ContentLen(World(r, h, n, u)) = World(r1, h, n, u) /\ Owned(r1, h, n)
          /\ \A f \in Fields \ {"content_len"} : r1[f] = r[f]
          /\ ~HasHeader(r, h, "Content-Length") => r1.content_len = r.content_len
  BY ContentLenIs
<1> DEFINE w == World(r1, h, n, u)
           host == Request_get(w, "Host")
           r2 == Put(r1, "host", host)
           told == World(r2, h, n, u)
<1>2. header_done_cb(World(r, h, n, u))
          = IF host = NULL THEN [w EXCEPT !.req.host = host]
            ELSE PartCallback([w EXCEPT !.req.host = host], "host_name", HostName(TextOf(w, host)))
  BY <1>1 DEF header_done_cb
<1>3. r1.headers = r.headers /\ r1.host_name = NULL /\ DOMAIN r1 = Fields
  BY <1>1, FieldNames DEF Owned, IsRequest
<1>4. /\ host = NULL <=> ~HasHeader(r, h, "Host")
      /\ host # NULL => \E i \in DOMAIN r.headers : host = r.headers[i].value
  <2>1. HasHeader(r1, h, "Host") <=> HasHeader(r, h, "Host")
    BY <1>3 DEF HasHeader
  <2>2. /\ host = NULL <=> ~HasHeader(r1, h, "Host")
        /\ host # NULL => \E i \in DOMAIN r1.headers : host = r1.headers[i].value
    BY <1>1, RequestGetIs
  <2> HIDE DEF host
  <2> QED
    BY <1>3, <2>1, <2>2
<1> HIDE DEF host
<1>5. [w EXCEPT !.req.host = host] = told
  <2>1. w.req = r1
    BY DEF World
  <2>2. [w EXCEPT !.req.host = host] = [w EXCEPT !.req = r2]
    <3> HIDE DEF w
    <3> QED
      BY <2>1 DEF Put
  <2> HIDE DEF r2
  <2> QED
    BY <2>2 DEF World
<1>6. Owned(r2, h, n)
  <2>1. "host" \in Fields \ Parts /\ "host" # "headers"
    BY FieldNames
  <2> QED
    BY <1>1, <2>1, OtherOwned
<1>7. DOMAIN r2 = Fields /\ r2.host = host /\ \A f \in Fields \ {"host"} : r2[f] = r1[f]
  BY <1>3, PutFacts, FieldNames
<1>8. TextOf(w, host) = h[host].text
  BY DEF TextOf, World
<1> HIDE DEF w, r2
<1>9. CASE host = NULL
  <2>1. header_done_cb(World(r, h, n, u)) = World(r2, h, n, u)
    BY <1>2, <1>5, <1>9
  <2>2. \A f \in Fields \ {"content_len", "host", "host_name"} : r2[f] = r[f]
    BY <1>1, <1>7
  <2>3. r2.content_len = r1.content_len
    BY <1>7, FieldNames
  <2> QED
    BY <1>1, <1>4, <1>6, <1>7, <1>9, <2>1, <2>2, <2>3 DEF HostSet
<1>10. CASE host # NULL
  <2> DEFINE text == HostName(h[host].text)
             R == Put(r2, "host_name", n + 1)
             H == Made(h, n + 1, text, "host_name")
  <2>1. header_done_cb(World(r, h, n, u)) = PartCallback(World(r2, h, n, u), "host_name", text)
    BY <1>2, <1>5, <1>8, <1>10
  <2> HIDE DEF text
  <2>2. header_done_cb(World(r, h, n, u)) = World(R, H, n + 1, u)
    BY <2>1, PartCallbackIs
  <2>3. r2.host_name = NULL
    BY <1>3, <1>7, FieldNames
  <2>4. Owned(R, H, n + 1)
    BY <1>6, <2>3, PartOwned, FieldNames
  <2>5. Grown(h, H, n, text, "host_name")
    BY <1>1, MadeFacts DEF Owned
  <2> HIDE DEF H
  <2>6. R.host_name = n + 1 /\ \A f \in Fields \ {"host_name"} : R[f] = r2[f]
    BY <1>7, PutFacts, FieldNames
  <2> HIDE DEF R
  <2>7. \A x \in DOMAIN h : H[x] = h[x]
    BY <2>5 DEF Grown
  <2>8. H[R.host_name].text = text /\ R.host_name \in DOMAIN H
    BY <2>5, <2>6 DEF Grown
  <2>9. \A f \in Fields \ {"content_len", "host", "host_name"} : R[f] = r[f]
    BY <1>1, <1>7, <2>6
  <2>10. R.content_len = r1.content_len /\ R.host = host
    BY <1>7, <2>6, FieldNames
  <2> QED
    BY <1>1, <1>4, <1>10, <2>2, <2>4, <2>7, <2>8, <2>9, <2>10 DEF HostSet, text
<1> QED
  BY <1>9, <1>10

(* A head of which only the last call is left has been told. *)
LEMMA AllTold ==
    ASSUME NEW r, NEW h, NEW m, NEW s, Filling(r, h, m, s), Len(s) = 1
    PROVE  /\ Head(s) = DoneCall
           /\ \A f \in Texts : /\ r[f] = NULL <=> Wanted(m, f) = NULL
                               /\ r[f] # NULL => h[r[f]].text \in Wants(m, f)
           /\ Listed(r, h) = HeadersOf(m) /\ r.json_sent = m.json
<1>1. s \in Seq(Calls(m)) /\ s[1] = DoneCall /\ DOMAIN s = 1..1
  BY DEF Filling, Left
<1>2. Head(s) = DoneCall
  BY <1>1
<1>3. \A c : IsLeft(s, c) => c = DoneCall
  BY <1>1 DEF IsLeft
<1>4. ASSUME NEW f \in Texts
      PROVE  ~IsLeft(s, TextCall(m, f))
  BY <1>3 DEF TextCall, TellCall, DoneCall, Texts
<1>5. \A p : ~IsLeft(s, HeaderCall(p))
  BY <1>3 DEF HeaderCall, DoneCall
<1>6. ~IsLeft(s, JsonCall)
  BY <1>3 DEF JsonCall, DoneCall
<1>7. ASSUME NEW f \in Texts
      PROVE  /\ r[f] = NULL <=> Wanted(m, f) = NULL
             /\ r[f] # NULL => h[r[f]].text \in Wants(m, f)
  BY <1>4 DEF Filling, PartsFilled
<1>8. Listed(r, h) = HeadersOf(m)
  BY <1>5 DEF Filling, HeadersFilled
<1>9. r.json_sent = m.json
  BY <1>6, RequestsAssumption DEF Filling, JsonFilled, IsMessage
<1> QED
  BY <1>2, <1>7, <1>8, <1>9

(* A request has a header when its message has it. *)
LEMMA HeadersThere ==
    ASSUME NEW r, NEW h, NEW m, Listed(r, h) = HeadersOf(m), NEW key
    PROVE  HasHeader(r, h, key) <=> ~m.json /\ {i \in DOMAIN m.headers : m.headers[i].key = key} # {}
<1>3. \A k, t : Pair(k, t).key = k
  BY DEF Pair
<1> HIDE DEF Pair
<1>1. HasHeader(r, h, key) <=> \E p \in Listed(r, h) : p.key = key
  <2>1. ASSUME NEW i \in DOMAIN r.headers
        PROVE  Pair(h[r.headers[i].key].text, h[r.headers[i].value].text) \in Listed(r, h)
    BY DEF Listed
  <2>2. ASSUME NEW p \in Listed(r, h)
        PROVE  \E i \in DOMAIN r.headers : p.key = h[r.headers[i].key].text
    BY <1>3 DEF Listed
  <2> QED
    BY <1>3, <2>1, <2>2 DEF HasHeader
<1>2. (\E p \in HeadersOf(m) : p.key = key) <=> ~m.json /\ {i \in DOMAIN m.headers : m.headers[i].key = key} # {}
  <2>1. CASE m.json
    BY <2>1 DEF HeadersOf
  <2>2. CASE ~m.json
    <3>1. HeadersOf(m) = {Pair(m.headers[j].key, m.headers[j].text) : j \in DOMAIN m.headers}
      BY <2>2 DEF HeadersOf
    <3>2. ASSUME NEW j \in DOMAIN m.headers
          PROVE  Pair(m.headers[j].key, m.headers[j].text) \in HeadersOf(m)
      BY <3>1
    <3>3. ASSUME NEW p \in HeadersOf(m)
          PROVE  \E j \in DOMAIN m.headers : p.key = m.headers[j].key
      BY <1>3, <3>1
    <3> QED
      BY <1>3, <2>2, <3>2, <3>3
  <2> QED
    BY <2>1, <2>2
<1> QED
  BY <1>1, <1>2

(* The end of the head, with X-Forwarded-For: the request is what the message is. *)
LEMMA DoneFills ==
    ASSUME NEW r, NEW h, NEW n, NEW u, Owned(r, h, n), NEW m, NEW s, Filling(r, h, m, s), Len(s) = 1
    PROVE  \E R, H, N :
               /\ header_field_cb(Apply(World(r, h, n, u), Head(s)), "X-Forwarded-For", <<"r">>) = World(R, H, N, u)
               /\ Owned(R, H, N) /\ Filled(R, H, m) /\ HostTold(R, H, m) /\ R.pattern = r.pattern
<1>1. Head(s) = DoneCall /\ Listed(r, h) = HeadersOf(m) /\ r.json_sent = m.json
  BY AllTold
<1>2. \A f \in Texts : /\ r[f] = NULL <=> Wanted(m, f) = NULL
                       /\ r[f] # NULL => h[r[f]].text \in Wants(m, f)
  BY AllTold
<1>3. Apply(World(r, h, n, u), Head(s)) = header_done_cb(World(r, h, n, u))
  BY <1>1 DEF Apply, DoneCall
<1>4. r.host_name = NULL /\ r.content_len = 0 /\ m \in Messages
  BY DEF Filling
<1>0. PICK r1, h1, n1 :
          header_done_cb(World(r, h, n, u)) = World(r1, h1, n1, u) /\ Owned(r1, h1, n1) /\ HostSet(r, h, r1, h1)
  BY <1>4, HeaderDoneIs
<1>5. /\ \A x \in DOMAIN h : h1[x] = h[x]
      /\ \A f \in Fields \ {"content_len", "host", "host_name"} : r1[f] = r[f]
      /\ ~HasHeader(r, h, "Content-Length") => r1.content_len = r.content_len
      /\ r1.host = NULL <=> ~HasHeader(r, h, "Host")
      /\ r1.host # NULL => /\ \E i \in DOMAIN r.headers : r1.host = r.headers[i].value
                           /\ h1[r1.host_name].text = HostName(h[r1.host].text)
                           /\ r1.host_name \in DOMAIN h1
  BY <1>0 DEF HostSet
<1> DEFINE R == Put(r1, "headers", Append(r1.headers, [key |-> (n1 + 1) + 1, value |-> n1 + 1]))
           H == Made(Made(h1, n1 + 1, <<"r">>, "header"), (n1 + 1) + 1, "X-Forwarded-For", "header")
           N == (n1 + 1) + 1
<1>6. header_field_cb(Apply(World(r, h, n, u), Head(s)), "X-Forwarded-For", <<"r">>) = World(R, H, N, u)
  BY <1>0, <1>3, HeaderFieldIs
<1>7. Owned(R, H, N)
  BY <1>0, HeaderOwned
<1>8. Listed(R, H) = Listed(r1, h1) \cup {Pair("X-Forwarded-For", <<"r">>)}
  BY <1>0, ListedGrows
<1>9. \A x \in DOMAIN h1 : H[x] = h1[x]
  <2>1. /\ R = Put(r1, "headers", Append(r1.headers, [key |-> (n1 + 1) + 1, value |-> n1 + 1]))
        /\ H = Made(Made(h1, n1 + 1, <<"r">>, "header"), (n1 + 1) + 1, "X-Forwarded-For", "header")
    OBVIOUS
  <2> HIDE DEF R, H
  <2> QED
    BY <1>0, <2>1, ListedGrows
<1>10. \A f \in Fields \ {"headers"} : R[f] = r1[f]
  BY <1>0, ListedGrows
<1>11. R.headers = Append(r1.headers, [key |-> N, value |-> n1 + 1])
  <2>1. DOMAIN r1 = Fields /\ "headers" \in Fields
    BY <1>0, FieldNames DEF Owned, IsRequest
  <2> DEFINE list == Append(r1.headers, [key |-> N, value |-> n1 + 1])
  <2>2. R = Put(r1, "headers", list)
    OBVIOUS
  <2> HIDE DEF list, R
  <2>3. R.headers = list
    BY <2>1, <2>2, PutFacts
  <2> QED
    BY <2>3 DEF list
<1> HIDE DEF R, H
<1>12. r1.headers = r.headers /\ r1.json_sent = r.json_sent /\ r1.pattern = r.pattern
  BY <1>5, FieldNames
<1>13. Listed(r1, h1) = HeadersOf(m)
  BY <1>0, <1>1, <1>5, <1>12, ListedStays
<1>14. Filled(R, H, m)
  <2>1. ASSUME NEW f \in Texts
        PROVE  /\ R[f] = NULL <=> Wanted(m, f) = NULL
               /\ R[f] # NULL => H[R[f]].text \in Wants(m, f)
    <3>1. R[f] = r1[f] /\ r1[f] = r[f]
      BY <1>5, <1>10, FieldNames DEF Texts
    <3>2. r[f] # NULL => r[f] \in DOMAIN h
      BY FieldNames DEF Owned, PartsOwned
    <3>3. r[f] # NULL => r[f] \in DOMAIN h1
      BY <1>0, <3>1, FieldNames DEF Owned, PartsOwned
    <3>4. r[f] # NULL => H[r[f]] = h[r[f]]
      BY <1>5, <1>9, <3>2, <3>3
    <3> QED
      BY <1>2, <3>1, <3>4
  <2>2. R.json_sent = m.json
    BY <1>1, <1>10, <1>12, FieldNames
  <2> QED
    BY <1>4, <1>8, <1>13, <2>1, <2>2 DEF Filled, Forwarded
<1>15. R.host = r1.host /\ R.host_name = r1.host_name /\ R.content_len = r1.content_len /\ R.pattern = r1.pattern
  BY <1>10, FieldNames
<1>16. HostTold(R, H, m)
  <2>1. r1.host = NULL <=> m.json \/ {i \in DOMAIN m.headers : m.headers[i].key = "Host"} = {}
    BY <1>1, <1>5, HeadersThere
  <2>2. {i \in DOMAIN m.headers : m.headers[i].key = "Content-Length"} = {} => r1.content_len = 0
    BY <1>1, <1>4, <1>5, HeadersThere
  <2>3. ASSUME r1.host # NULL
        PROVE  Held(R, r1.host) /\ r1.host \in DOMAIN H /\ H[r1.host_name].text = HostName(H[r1.host].text)
    <3>1. PICK i \in DOMAIN r.headers : r1.host = r.headers[i].value
      BY <1>5, <2>3
    <3>2. r1.host = r.headers[i]["value"] /\ "value" \in HeaderSides
      BY <3>1 DEF HeaderSides
    <3>3. r1.host \in DOMAIN h /\ r1.host \in DOMAIN h1
      BY <1>0, <1>12, <3>2 DEF Owned, HeadersOwned
    <3>4. H[r1.host] = h[r1.host] /\ H[r1.host_name] = h1[r1.host_name]
      BY <1>5, <1>9, <2>3, <3>3
    <3>5. i \in DOMAIN R.headers /\ R.headers[i] = r.headers[i]
      <4>1. [key |-> N, value |-> n1 + 1] \in Pairs /\ r1.headers \in Seq(Pairs)
        BY <1>0 DEF Owned, IsRequest, IsHeap, Pairs
      <4> QED
        BY <1>11, <1>12, <4>1, ListedFacts
    <3>6. Held(R, r1.host) /\ R.headers[i]["value"] \in DOMAIN H
      BY <1>7, <3>2, <3>5 DEF Held, Owned, HeadersOwned
    <3> QED
      BY <1>5, <2>3, <3>2, <3>4, <3>5, <3>6
  <2> QED
    BY <1>15, <2>1, <2>2, <2>3 DEF HostTold
<1> QED
  BY <1>6, <1>7, <1>12, <1>14, <1>15, <1>16

-----------------------------------------------------------------------------
(* The payload. *)

(* What a handler reads of it. *)
AsRead(object) == {Pair(f.key, JsonText(f.text)) : f \in object}

PartPair(r, h, key, f) == IF r[f] = NULL THEN {} ELSE {Pair(key, h[r[f]].text)}

WantedPair(m, key, f) == IF Wanted(m, f) = NULL THEN {} ELSE {Pair(key, Wanted(m, f))}

(* Texts one after the other. *)
LEMMA TextsJoined ==
    ASSUME NEW a, NEW b, IsText(a), IsText(b)
    PROVE  IsText(a \o b) /\ \A ch : Has(a \o b, ch) => Has(a, ch) \/ Has(b, ch)
<1> DEFINE A == {a[i] : i \in DOMAIN a}
           B == {b[i] : i \in DOMAIN b}
           C == A \cup B
           ab == a \o b
           n == Len(a)
           k == Len(b)
<1>1. a \in Seq(A) /\ b \in Seq(B)
  BY DEF IsText
<1> HIDE DEF A, B
<1>2. a \in Seq(C) /\ b \in Seq(C)
  BY <1>1
<1> HIDE DEF C
<1>3. /\ DOMAIN ab = 1..(n + k) /\ n \in Nat /\ k \in Nat /\ DOMAIN a = 1..n /\ DOMAIN b = 1..k
      /\ ab \in Seq(C)
  BY <1>2, Concatenated
<1>4. \A i \in 1..n : ab[i] = a[i]
  BY <1>2, Concatenated
<1>5. \A i \in 1..k : ab[n + i] = b[i]
  BY <1>2, Concatenated
<1>6. Len(ab) = n + k
  BY <1>3
<1> HIDE DEF ab, n, k
<1>7. ab \in Seq({ab[i] : i \in DOMAIN ab})
  <2> DEFINE D == {ab[i] : i \in DOMAIN ab}
  <2>1. \A i \in 1..(n + k) : ab[i] \in D
    BY <1>3
  <2>2. ab = [i \in 1..(n + k) |-> ab[i]]
    BY <1>3
  <2>3. n + k \in Nat
    BY <1>3
  <2> HIDE DEF D
  <2> QED
    BY <2>1, <2>2, <2>3 DEF D
<1>8. ASSUME NEW ch, NEW i \in DOMAIN ab, ab[i] = ch
      PROVE  Has(a, ch) \/ Has(b, ch)
  <2>1. i \in 1..(n + k)
    BY <1>3, <1>8
  <2>2. CASE i <= n
    <3>1. i \in 1..n
      BY <1>3, <2>1, <2>2
    <3> QED
      BY <1>3, <1>4, <1>8, <3>1 DEF Has
  <2>3. CASE i > n
    <3>1. i - n \in 1..k /\ i = n + (i - n)
      BY <1>3, <2>1, <2>3
    <3> QED
      BY <1>3, <1>5, <1>8, <3>1 DEF Has
  <2> QED
    BY <1>3, <2>1, <2>2, <2>3
<1> QED
  BY <1>7, <1>8 DEF IsText, Has, ab

(* A text in which nothing has to be escaped. *)
Unescaped(text) == IsText(text) /\ ~Has(text, BSLASH) /\ ~Has(text, QUOTE)

(* Two of them. *)
LEMMA UnescapedJoined ==
    ASSUME NEW a, NEW b, Unescaped(a), Unescaped(b)
    PROVE  Unescaped(a \o b)
BY TextsJoined DEF Unescaped

(* The text before the blank has none of the characters that its parts do not have. *)
LEMMA WholeUnescaped ==
    ASSUME NEW m \in Messages, m.json, ~Backslashed(m)
    PROVE  Unescaped(WholePath(m))
<1> DEFINE params == IF m.params = NULL THEN <<>> ELSE m.params
           query == IF m.query = NULL THEN <<>> ELSE <<"?">> \o m.query
<1>1. \A text \in {m.path, m.params, m.query} \ {NULL} : Unescaped(text)
  BY RequestsAssumption DEF IsMessage, Backslashed, Has, Unescaped
<1>2. m.path # NULL
  BY RequestsAssumption DEF IsMessage
<1>3. Unescaped(<<>>)
  BY DEF Unescaped, IsText, Has
<1>4. Unescaped(<<"?">>)
  <2>1. DOMAIN <<"?">> = 1..1 /\ <<"?">>[1] = "?"
    OBVIOUS
  <2>2. BSLASH # "?" /\ QUOTE # "?"
    BY DEF BSLASH, QUOTE
  <2> QED
    BY <2>1, <2>2 DEF Unescaped, IsText, Has
<1>5. Unescaped(params)
  BY <1>1, <1>3
<1>6. Unescaped(query)
  BY <1>1, <1>3, <1>4, UnescapedJoined
<1>7. WholePath(m) = (m.path \o params) \o query
  BY DEF WholePath
<1> HIDE DEF params, query
<1> QED
  BY <1>1, <1>2, <1>5, <1>6, <1>7, UnescapedJoined

(* A part is read as it is, and that is as the message has it. *)
LEMMA PartRead ==
    ASSUME NEW r, NEW h, NEW m, Filled(r, h, m), ~Backslashed(m), NEW key, NEW f \in Texts
    PROVE  /\ AsRead(PartPair(r, h, key, f)) = PartPair(r, h, key, f)
           /\ f # "path" => PartPair(r, h, key, f) = WantedPair(m, key, f)
<1>1. CASE r[f] = NULL
  <2>1. Wanted(m, f) = NULL
    BY <1>1 DEF Filled
  <2> QED
    BY <1>1, <2>1 DEF AsRead, PartPair, WantedPair
<1>2. CASE r[f] # NULL
  <2> DEFINE text == h[r[f]].text
  <2>1. Wanted(m, f) # NULL /\ text \in Wants(m, f)
    BY <1>2 DEF Filled
  <2> HIDE DEF text
  <2>2. m \in Messages /\ IsMessage(m)
    BY RequestsAssumption DEF Filled
  <2>3. ASSUME text = Wanted(m, f)
        PROVE  Unescaped(text)
    <3>1. text \in {m.path, m.query, m.uri, m.fragment, m.method, m.version} \ {NULL}
      BY <2>1, <2>3 DEF Wanted, Texts
    <3>2. IsText(text) /\ ~Has(text, QUOTE)
      BY <2>2, <3>1 DEF IsMessage
    <3>3. text \in {m.path, m.uri, m.query, m.fragment} => ~Has(text, BSLASH)
      BY <3>1 DEF Backslashed, Has
    <3>4. text \notin {m.path, m.uri, m.query, m.fragment} => ~m.json /\ text \in {m.method, m.version}
      BY <2>1, <2>3 DEF Wanted, Texts
    <3>5. ~m.json => \A t \in {m.method, m.version} : ~Has(t, BSLASH)
      BY <2>2 DEF IsMessage
    <3> QED
      BY <3>2, <3>3, <3>4, <3>5 DEF Unescaped
  <2>4. ASSUME text # Wanted(m, f)
        PROVE  Unescaped(text)
    <3>1. m.json /\ text = WholePath(m)
      BY <2>1, <2>4 DEF Wants, PathsTold, Wanted
    <3> QED
      BY <2>2, <3>1, WholeUnescaped
  <2>5. Unescaped(text)
    BY <2>3, <2>4
  <2>6. JsonText(text) = text
    BY <2>5, PlainReads DEF Unescaped
  <2>7. PartPair(r, h, key, f) = {Pair(key, text)}
    BY <1>2 DEF PartPair, text
  <2>8. AsRead({Pair(key, text)}) = {Pair(key, JsonText(text))}
    BY DEF AsRead, Pair
  <2>9. f # "path" => text = Wanted(m, f)
    BY <2>1 DEF Wants
  <2> QED
    BY <2>1, <2>6, <2>7, <2>8, <2>9 DEF WantedPair
<1> QED
  BY <1>1, <1>2

(* What is read of two sets is what is read of each. *)
LEMMA ReadBoth ==
    ASSUME NEW A, NEW B
    PROVE  AsRead(A \cup B) = AsRead(A) \cup AsRead(B)
BY DEF AsRead

(* The texts that mongrel2 writes itself are read as they are. *)
LEMMA OwnTexts ==
    /\ JsonText(<<"p">>) = <<"p">> /\ JsonText(<<"J", "S", "O", "N">>) = <<"J", "S", "O", "N">>
    /\ IsText(<<"r">>)
<1>1. IsText(<<"r">>) /\ IsText(<<"p">>) /\ IsText(<<"J", "S", "O", "N">>)
  <2>1. <<"r">>[1] = "r" /\ DOMAIN <<"r">> = 1..1
    OBVIOUS
  <2>2. <<"p">>[1] = "p" /\ DOMAIN <<"p">> = 1..1
    OBVIOUS
  <2> DEFINE t == <<"J", "S", "O", "N">>
             C == {t[i] : i \in DOMAIN t}
  <2>3. DOMAIN t = 1..4 /\ t[1] = "J" /\ t[2] = "S" /\ t[3] = "O" /\ t[4] = "N"
    OBVIOUS
  <2>4. "J" \in C /\ "S" \in C /\ "O" \in C /\ "N" \in C
    BY <2>3
  <2>5. t \in Seq(C)
    <3> HIDE DEF C
    <3> QED
      BY <2>4
  <2>6. IsText(t)
    BY <2>5 DEF IsText
  <2>7. IsText(<<"r">>)
    BY <2>1 DEF IsText
  <2>8. IsText(<<"p">>)
    BY <2>2 DEF IsText
  <2> QED
    BY <2>6, <2>7, <2>8
<1>2. /\ ~Has(<<"p">>, BSLASH) /\ ~Has(<<"p">>, QUOTE)
      /\ ~Has(<<"J", "S", "O", "N">>, BSLASH) /\ ~Has(<<"J", "S", "O", "N">>, QUOTE)
  <2> DEFINE t == <<"J", "S", "O", "N">>
  <2>1. DOMAIN t = 1..4 /\ t[1] = "J" /\ t[2] = "S" /\ t[3] = "O" /\ t[4] = "N"
    OBVIOUS
  <2>2. \A i \in DOMAIN t : t[i] \in {"J", "S", "O", "N"}
    BY <2>1
  <2>3. DOMAIN <<"p">> = 1..1 /\ <<"p">>[1] = "p"
    OBVIOUS
  <2>4. BSLASH \notin {"J", "S", "O", "N", "p"} /\ QUOTE \notin {"J", "S", "O", "N", "p"}
    BY DEF BSLASH, QUOTE
  <2>5. ~Has(t, BSLASH) /\ ~Has(t, QUOTE)
    <3> HIDE DEF t
    <3> QED
      BY <2>2, <2>4 DEF Has
  <2>6. ~Has(<<"p">>, BSLASH) /\ ~Has(<<"p">>, QUOTE)
    BY <2>3, <2>4 DEF Has
  <2> QED
    BY <2>5, <2>6
<1> QED
  BY <1>1, <1>2, PlainReads

(* The headers of the payload: their names, and their values escaped. *)
EscapedHeaders(r, h) ==
    {Pair(h[r.headers[i].key].text, Escaped(h[r.headers[i].value].text)) : i \in DOMAIN r.headers}

(* They are read as they are. *)
LEMMA HeadersRead ==
    ASSUME NEW r, NEW h, NEW m, Filled(r, h, m)
    PROVE  AsRead(EscapedHeaders(r, h)) = HeadersOf(m) \cup {Forwarded}
<1> DEFINE key(i) == h[r.headers[i].key].text
           text(i) == h[r.headers[i].value].text
<1>1. \A k, t : Pair(k, t).key = k /\ Pair(k, t).text = t
  BY DEF Pair
<1>2. IsMessage(m) /\ Listed(r, h) = HeadersOf(m) \cup {Forwarded}
  BY RequestsAssumption DEF Filled
<1>3. \A p \in HeadersOf(m) : IsText(p.text)
  BY <1>1, <1>2 DEF HeadersOf, IsMessage
<1>4. IsText(Forwarded.text)
  BY <1>1, OwnTexts DEF Forwarded
<1>5. ASSUME NEW i \in DOMAIN r.headers
      PROVE  JsonText(Escaped(text(i))) = text(i)
  <2>1. Pair(key(i), text(i)) \in Listed(r, h)
    BY DEF Listed
  <2>2. Pair(key(i), text(i)).text = text(i)
    BY <1>1
  <2>3. IsText(Pair(key(i), text(i)).text)
    BY <1>2, <1>3, <1>4, <2>1
  <2>4. IsText(text(i))
    BY <2>2, <2>3
  <2> HIDE DEF text
  <2> QED
    BY <2>4, EscapedReads
<1> HIDE DEF key, text
<1>6. EscapedHeaders(r, h) = {Pair(key(i), Escaped(text(i))) : i \in DOMAIN r.headers}
  BY DEF EscapedHeaders, key, text
<1>7. Listed(r, h) = {Pair(key(i), text(i)) : i \in DOMAIN r.headers}
  BY DEF Listed, key, text
<1>8. AsRead(EscapedHeaders(r, h)) = {Pair(key(i), JsonText(Escaped(text(i)))) : i \in DOMAIN r.headers}
  <2> HIDE DEF Pair
  <2>1. ASSUME NEW x \in AsRead(EscapedHeaders(r, h))
        PROVE  \E i \in DOMAIN r.headers : x = Pair(key(i), JsonText(Escaped(text(i))))
    BY <1>1, <1>6 DEF AsRead
  <2>2. ASSUME NEW i \in DOMAIN r.headers
        PROVE  Pair(key(i), JsonText(Escaped(text(i)))) \in AsRead(EscapedHeaders(r, h))
    <3>1. Pair(key(i), Escaped(text(i))) \in EscapedHeaders(r, h)
      BY <1>6
    <3>2. /\ Pair(key(i), Escaped(text(i))).key = key(i)
          /\ Pair(key(i), Escaped(text(i))).text = Escaped(text(i))
      BY <1>1
    <3> DEFINE f == Pair(key(i), Escaped(text(i)))
    <3>3. Pair(f.key, JsonText(f.text)) \in AsRead(EscapedHeaders(r, h))
      <4> HIDE DEF f
      <4>1. f \in EscapedHeaders(r, h)
        BY <3>1 DEF f
      <4> QED
        BY <4>1 DEF AsRead
    <3> QED
      BY <3>2, <3>3
  <2> QED
    BY <2>1, <2>2
<1>9. {Pair(key(i), JsonText(Escaped(text(i)))) : i \in DOMAIN r.headers} = {Pair(key(i), text(i)) : i \in DOMAIN r.headers}
  BY <1>5
<1> QED
  BY <1>2, <1>7, <1>8, <1>9

(* A handler reads what the client sent. *)
LEMMA PayloadTells ==
    ASSUME NEW r, NEW h, NEW n, NEW u, NEW m, Filled(r, h, m), ~Backslashed(m), r.pattern = <<"p">>, r.path # NULL
    PROVE  /\ PayloadOf(World(r, h, n, u)).path \in PathsTold(m)
           /\ AsRead(PayloadOf(World(r, h, n, u)).object) = Told(m, PayloadOf(World(r, h, n, u)).path)
<1> DEFINE w == World(r, h, n, u)
           P(key, f) == PartPair(r, h, key, f)
           W(key, f) == WantedPair(m, key, f)
           first == P("PATH", "path") \cup P("VERSION", "version") \cup P("URI", "uri")
                    \cup P("QUERY", "query_string") \cup P("FRAGMENT", "fragment")
           json == Pair("METHOD", <<"J", "S", "O", "N">>)
           method == IF r.json_sent THEN {json} ELSE P("METHOD", "request_method")
           pattern == Pair("PATTERN", r.pattern)
           all == first \cup method \cup {pattern} \cup EscapedHeaders(r, h)
<1>1. w.req = r /\ w.heap = h
  BY DEF World
<1>2. PayloadOf(w).path = h[r.path].text /\ PayloadOf(w).object = all
  <2>1. \A x : TextOf(w, x) = h[x].text
    BY <1>1 DEF TextOf
  <2> HIDE DEF w
  <2> DEFINE q == w.req
             Part(key, f) == IF q[f] = NULL THEN {} ELSE {[key |-> key, text |-> TextOf(w, q[f])]}
             headers == {[key |-> TextOf(w, q.headers[i].key), text |-> Escaped(TextOf(w, q.headers[i].value))]
                            : i \in DOMAIN q.headers}
             how == IF q.json_sent THEN {[key |-> "METHOD", text |-> <<"J", "S", "O", "N">>]}
                    ELSE Part("METHOD", "request_method")
             route == [key |-> "PATTERN", text |-> q.pattern]
  <2>2. \A key : \A f : Part(key, f) = P(key, f)
    BY <1>1, <2>1 DEF PartPair, Pair
  <2>3. headers = EscapedHeaders(r, h)
    <3>1. \A i \in DOMAIN r.headers :
              [key |-> TextOf(w, r.headers[i].key), text |-> Escaped(TextOf(w, r.headers[i].value))]
                  = Pair(h[r.headers[i].key].text, Escaped(h[r.headers[i].value].text))
      BY <2>1 DEF Pair
    <3>2. q = r
      BY <1>1
    <3> HIDE DEF q
    <3> QED
      BY <3>1, <3>2 DEF EscapedHeaders
  <2>4. PayloadOf(w) =
            [path |-> TextOf(w, q.path),
             object |-> Part("PATH", "path") \cup Part("VERSION", "version") \cup Part("URI", "uri")
                        \cup Part("QUERY", "query_string") \cup Part("FRAGMENT", "fragment")
                        \cup how \cup {route} \cup headers]
    BY DEF PayloadOf
  <2>5. route = pattern /\ how = method /\ TextOf(w, q.path) = h[r.path].text
    <3>1. how = IF r.json_sent THEN {json} ELSE Part("METHOD", "request_method")
      BY <1>1 DEF Pair
    <3> QED
      BY <1>1, <2>1, <2>2, <3>1 DEF Pair
  <2> HIDE DEF Part, headers, how, route, P, method, pattern
  <2> QED
    BY <2>2, <2>3, <2>4, <2>5
<1>3. PayloadOf(w).path \in PathsTold(m)
  <2>1. h[r["path"]].text \in Wants(m, "path")
    BY DEF Filled, Texts
  <2> QED
    BY <1>2, <2>1 DEF Wants
<1> DEFINE PATH == {Pair("PATH", h[r.path].text)}
<1>4. \A key : \A f \in Texts \ {"path"} : AsRead(P(key, f)) = W(key, f)
  BY PartRead
<1>13. AsRead(P("PATH", "path")) = PATH
  <2>1. AsRead(P("PATH", "path")) = P("PATH", "path")
    BY PartRead DEF Texts
  <2> QED
    BY <2>1 DEF PartPair
<1>5. /\ AsRead(P("VERSION", "version")) = W("VERSION", "version")
      /\ AsRead(P("URI", "uri")) = W("URI", "uri") /\ AsRead(P("QUERY", "query_string")) = W("QUERY", "query_string")
      /\ AsRead(P("FRAGMENT", "fragment")) = W("FRAGMENT", "fragment")
      /\ AsRead(P("METHOD", "request_method")) = W("METHOD", "request_method")
  BY <1>4 DEF Texts
<1>6. AsRead({json}) = {json} /\ AsRead({pattern}) = {Pair("PATTERN", <<"p">>)}
  BY OwnTexts DEF AsRead, Pair
<1>7. r.json_sent = m.json
  BY DEF Filled
<1>8. AsRead(EscapedHeaders(r, h)) = HeadersOf(m) \cup {Forwarded}
  BY HeadersRead
<1> HIDE DEF P, W, json, pattern, w, PATH
<1>9. AsRead(first) = PATH \cup W("VERSION", "version") \cup W("URI", "uri")
                      \cup W("QUERY", "query_string") \cup W("FRAGMENT", "fragment")
  <2> DEFINE a == P("PATH", "path")
             b == P("VERSION", "version")
             c == P("URI", "uri")
             d == P("QUERY", "query_string")
             e == P("FRAGMENT", "fragment")
  <2> HIDE DEF a, b, c, d, e
  <2>1. AsRead(a \cup b) = AsRead(a) \cup AsRead(b)
    BY ReadBoth
  <2>2. AsRead(a \cup b \cup c) = AsRead(a \cup b) \cup AsRead(c)
    BY ReadBoth
  <2>3. AsRead(a \cup b \cup c \cup d) = AsRead(a \cup b \cup c) \cup AsRead(d)
    BY ReadBoth
  <2>4. AsRead(a \cup b \cup c \cup d \cup e) = AsRead(a \cup b \cup c \cup d) \cup AsRead(e)
    BY ReadBoth
  <2>5. AsRead(a \cup b \cup c \cup d \cup e) = AsRead(a) \cup AsRead(b) \cup AsRead(c) \cup AsRead(d) \cup AsRead(e)
    BY <2>1, <2>2, <2>3, <2>4
  <2> QED
    BY <1>5, <1>13, <2>5 DEF a, b, c, d, e
<1>10. AsRead(method) = IF m.json THEN {json} ELSE W("METHOD", "request_method")
  BY <1>5, <1>6, <1>7
<1> HIDE DEF first, method
<1>11. AsRead(all) = AsRead(first) \cup AsRead(method) \cup {Pair("PATTERN", <<"p">>)} \cup (HeadersOf(m) \cup {Forwarded})
  <2> DEFINE headers == EscapedHeaders(r, h)
  <2> HIDE DEF headers
  <2>1. AsRead(first \cup method) = AsRead(first) \cup AsRead(method)
    BY ReadBoth
  <2>2. AsRead(first \cup method \cup {pattern}) = AsRead(first \cup method) \cup AsRead({pattern})
    BY ReadBoth
  <2>3. AsRead(first \cup method \cup {pattern} \cup headers) = AsRead(first \cup method \cup {pattern}) \cup AsRead(headers)
    BY ReadBoth
  <2> QED
    BY <1>6, <1>8, <2>1, <2>2, <2>3 DEF headers
<1> DEFINE told == AsRead(first) \cup AsRead(method) \cup {Pair("PATTERN", <<"p">>)} \cup (HeadersOf(m) \cup {Forwarded})
<1>12. told = Told(m, h[r.path].text)
  <2>1. IsMessage(m)
    BY RequestsAssumption DEF Filled
  <2>2. PATH = {Pair("PATH", h[r.path].text)}
    BY DEF PATH
  <2>3. W("QUERY", "query_string") = IF m.query = NULL THEN {} ELSE {Pair("QUERY", m.query)}
    BY DEF W, WantedPair, Wanted
  <2>4. Forwarded = Pair("X-Forwarded-For", <<"r">>)
    BY DEF Forwarded
  <2> DEFINE text == h[r.path].text
             path == {Pair("PATH", text)}
             query == IF m.query = NULL THEN {} ELSE {Pair("QUERY", m.query)}
             fragment == IF m.fragment = NULL THEN {} ELSE {Pair("FRAGMENT", m.fragment)}
             own == {Pair("PATTERN", <<"p">>), Pair("X-Forwarded-For", <<"r">>)}
  <2>5. CASE m.json
    <3>1. W("VERSION", "version") = {} /\ W("URI", "uri") = {} /\ W("FRAGMENT", "fragment") = {}
      BY <2>5 DEF W, WantedPair, Wanted
    <3>2. HeadersOf(m) = {} /\ AsRead(method) = {json}
      BY <1>10, <2>5 DEF HeadersOf
    <3>3. Told(m, text) = path \cup query \cup own \cup {json}
      BY <2>5 DEF Told, Pair, json
    <3> HIDE DEF json, Pair
    <3> QED
      BY <1>9, <2>2, <2>3, <2>4, <3>1, <3>2, <3>3
  <2>6. CASE ~m.json
    <3>1. m.method # NULL /\ m.version # NULL /\ m.uri # NULL
      BY <2>1, <2>6 DEF IsMessage
    <3>2. W("VERSION", "version") = {Pair("VERSION", m.version)} /\ W("URI", "uri") = {Pair("URI", m.uri)}
      BY <2>6, <3>1 DEF W, WantedPair, Wanted
    <3>3. W("FRAGMENT", "fragment") = fragment
      BY <2>6 DEF W, WantedPair, Wanted
    <3>4. AsRead(method) = {Pair("METHOD", m.method)}
      BY <1>10, <2>6, <3>1 DEF W, WantedPair, Wanted
    <3>5. Told(m, text) = path \cup query \cup own
                    \cup ({Pair("METHOD", m.method), Pair("URI", m.uri), Pair("VERSION", m.version)}
                          \cup fragment \cup HeadersOf(m))
      BY <2>6 DEF Told, Pair, HeadersOf
    <3> HIDE DEF Pair
    <3> QED
      BY <1>9, <2>2, <2>3, <2>4, <3>2, <3>3, <3>4, <3>5
  <2> QED
    BY <2>5, <2>6
<1> QED
  BY <1>2, <1>3, <1>11, <1>12 DEF w

-----------------------------------------------------------------------------
(* The steps. *)
LEMMA HereIs == Here = World(req, heap, strings, misused)
BY DEF Here, World

(* What a step makes of the request's part of the state. *)
LEMMA BecomesWorld ==
    ASSUME NEW R, NEW H, NEW N, NEW U, Becomes(World(R, H, N, U))
    PROVE  req' = R /\ heap' = H /\ strings' = N /\ misused' = U
BY DEF Becomes, World

(* RequestsInit *)
LEMMA InitInv == RequestsInit => Inv
<1> SUFFICES ASSUME RequestsInit
             PROVE  Inv
  OBVIOUS
<1>1. req = EmptyRequest /\ heap = <<>> /\ strings = 0 /\ stage = "idle" /\ payload = NULL /\ misused = {}
  BY DEF RequestsInit
<1>2. Bare(req) /\ IsRequest(req) /\ req.pattern = NULL
  <2>1. <<>> \in Seq(Pairs)
    OBVIOUS
  <2> QED
    BY <1>1, <2>1 DEF Bare, IsRequest, EmptyRequest, Fields, Parts
<1>3. DOMAIN heap = {}
  BY <1>1
<1>4. IsHeap(heap, strings)
  BY <1>1, <1>3 DEF IsHeap
<1>5. PartsOwned(req, heap) /\ HeadersOwned(req, heap) /\ HeadersApart(req) /\ OnlyPathsLost(req, heap)
  BY <1>2, <1>3 DEF Bare, PartsOwned, HeadersOwned, HeadersApart, OnlyPathsLost
<1>6. ParseInv /\ ParsedInv /\ PayloadTellsTheRequest
  BY <1>1 DEF ParseInv, ParsedInv, PayloadTellsTheRequest
<1> QED
  BY <1>1, <1>2, <1>4, <1>5, <1>6 DEF Inv, Owned

(* The payload stays. *)
LEMMA PayloadStays ==
    ASSUME PayloadTellsTheRequest, payload' = payload
    PROVE  PayloadTellsTheRequest'
BY DEF PayloadTellsTheRequest

(* ReadHeader *)
LEMMA ReadHeaderInv ==
    ASSUME Inv, NEW m \in Messages, ReadHeader(m)
    PROVE  Inv'
<1>1. PICK R, H :
          /\ Request_start(World(req, heap, strings, misused)) = World(R, H, strings, misused)
          /\ Owned(R, H, strings) /\ Started(req, R)
  <2>1. Owned(req, heap, strings)
    BY DEF Inv
  <2> QED
    BY <2>1, StartIs
<1>2. req' = R /\ heap' = H /\ strings' = strings /\ misused' = misused
  <2>1. Becomes(World(R, H, strings, misused))
    BY <1>1, HereIs DEF ReadHeader
  <2> QED
    BY <2>1, BecomesWorld
<1>3. now' = [message |-> m, left |-> Callbacks(m)] /\ stage' = "parse" /\ payload' = payload
  BY DEF ReadHeader
<1>4. Filling(R, H, m, Callbacks(m))
  BY <1>1, StartFills DEF Started
<1>5. ParseInv'
  BY <1>2, <1>3, <1>4 DEF ParseInv
<1>6. ParsedInv'
  BY <1>3 DEF ParsedInv
<1>7. PayloadTellsTheRequest'
  BY <1>3, PayloadStays DEF Inv
<1> QED
  BY <1>1, <1>2, <1>5, <1>6, <1>7 DEF Inv, Started

(* Parse *)
LEMMA ParseStepInv ==
    ASSUME Inv, Parse
    PROVE  Inv'
<1> DEFINE m == now.message
           s == now.left
<1>1. Filling(req, heap, m, s) /\ Len(s) > 1 /\ DOMAIN now = {"message", "left"}
  BY DEF Inv, ParseInv, Parse
<1>2. PICK R, H, N :
          Apply(World(req, heap, strings, misused), Head(s)) = World(R, H, N, misused)
          /\ Owned(R, H, N) /\ Further(req, R, H, m, s)
  <2>1. Owned(req, heap, strings)
    BY DEF Inv
  <2> HIDE DEF m, s
  <2> QED
    BY <1>1, <2>1, CallFills
<1>3. req' = R /\ heap' = H /\ strings' = N /\ misused' = misused
  <2>1. Becomes(World(R, H, N, misused))
    BY <1>2, HereIs DEF Parse
  <2> QED
    BY <2>1, BecomesWorld
<1>4. stage' = "parse" /\ payload' = payload /\ now' = [now EXCEPT !.left = Tail(@)]
  BY DEF Parse
<1>5. now'.message = m /\ now'.left = Tail(s) /\ DOMAIN now' = {"message", "left"}
  BY <1>1, <1>4
<1>6. ParseInv'
  BY <1>2, <1>3, <1>5 DEF ParseInv, Further
<1>7. ParsedInv'
  BY <1>4 DEF ParsedInv
<1>8. PayloadTellsTheRequest'
  BY <1>4, PayloadStays DEF Inv
<1> QED
  BY <1>2, <1>3, <1>6, <1>7, <1>8 DEF Inv, Further

(* Parsed *)
LEMMA ParsedStepInv ==
    ASSUME Inv, Parsed
    PROVE  Inv'
<1> DEFINE m == now.message
           s == now.left
<1>1. Filling(req, heap, m, s) /\ Len(s) = 1 /\ DOMAIN now = {"message", "left"}
  BY DEF Inv, ParseInv, Parsed
<1>2. PICK R, H, N :
          /\ header_field_cb(Apply(World(req, heap, strings, misused), Head(s)), "X-Forwarded-For", <<"r">>)
                 = World(R, H, N, misused)
          /\ Owned(R, H, N) /\ Filled(R, H, m) /\ HostTold(R, H, m) /\ R.pattern = req.pattern
  <2>1. Owned(req, heap, strings)
    BY DEF Inv
  <2> HIDE DEF m, s
  <2> QED
    BY <1>1, <2>1, DoneFills
<1>3. req' = R /\ heap' = H /\ strings' = N /\ misused' = misused
  <2>1. Becomes(World(R, H, N, misused))
    BY <1>2, HereIs DEF Parsed
  <2> QED
    BY <2>1, BecomesWorld
<1>4. stage' = "parsed" /\ payload' = payload /\ now' = [now EXCEPT !.left = <<>>]
  BY DEF Parsed
<1>5. now'.message = m
  BY <1>1, <1>4
<1>6. ParseInv'
  BY <1>4 DEF ParseInv
<1>7. ParsedInv'
  BY <1>2, <1>3, <1>5 DEF ParsedInv
<1>8. PayloadTellsTheRequest'
  BY <1>4, PayloadStays DEF Inv
<1> QED
  BY <1>2, <1>3, <1>6, <1>7, <1>8 DEF Inv

(* Routed *)
LEMMA RoutedInv ==
    ASSUME Inv, Routed
    PROVE  Inv'
<1> DEFINE R == Put(req, "pattern", <<"p">>)
<1>1. /\ req' = R /\ heap' = heap /\ strings' = strings /\ misused' = misused
      /\ stage = "parsed" /\ stage' = stage /\ now' = now /\ payload' = payload
  BY DEF Routed, Put
<1>2. Owned(req, heap, strings) /\ Filled(req, heap, now.message) /\ HostTold(req, heap, now.message)
  BY <1>1 DEF Inv, ParsedInv
<1>3. "pattern" \in Fields \ Parts /\ "pattern" # "headers" /\ DOMAIN req = Fields
  BY <1>2, FieldNames DEF Owned, IsRequest
<1>4. Owned(R, heap, strings)
  BY <1>2, <1>3, OtherOwned
<1>5. R.pattern = <<"p">> /\ \A f \in Fields : f # "pattern" => R[f] = req[f]
  BY <1>3, PutFacts
<1> HIDE DEF R
<1>6. /\ \A f \in Parts : R[f] = req[f]
      /\ R.headers = req.headers /\ R.host = req.host /\ R.json_sent = req.json_sent
      /\ R.content_len = req.content_len /\ R.host_name = req.host_name
  BY <1>3, <1>5, FieldNames
<1>7. Filled(R, heap, now.message)
  <2>1. Listed(R, heap) = Listed(req, heap)
    BY <1>6 DEF Listed
  <2> QED
    BY <1>2, <1>6, <2>1, FieldNames DEF Filled
<1>8. HostTold(R, heap, now.message)
  <2>1. Held(req, req.host) => Held(R, req.host)
    BY <1>6 DEF Held
  <2> QED
    BY <1>2, <1>6, <2>1 DEF HostTold
<1>9. ParseInv' /\ ParsedInv'
  BY <1>1, <1>7, <1>8 DEF ParseInv, ParsedInv
<1>10. PayloadTellsTheRequest'
  BY <1>1, PayloadStays DEF Inv
<1> QED
  BY <1>1, <1>4, <1>5, <1>9, <1>10 DEF Inv

(* Request_to_payload *)
LEMMA ToPayloadInv ==
    ASSUME Inv, Request_to_payload
    PROVE  Inv'
<1>1. /\ stage = "parsed" /\ req.pattern # NULL /\ req.path # NULL
      /\ payload' = [message |-> now.message, sent |-> PayloadOf(Here)]
      /\ UNCHANGED <<req, heap, strings, misused, stage, now>>
  BY DEF Request_to_payload
<1>2. Filled(req, heap, now.message) /\ req.pattern = <<"p">>
  BY <1>1 DEF Inv, ParsedInv
<1>3. PayloadTellsTheRequest'
  <2> DEFINE m == now.message
             sent == PayloadOf(World(req, heap, strings, misused))
  <2>1. payload' = [message |-> m, sent |-> sent]
    BY <1>1, HereIs
  <2>2. ~Backslashed(m) => sent.path \in PathsTold(m) /\ AsRead(sent.object) = Told(m, sent.path)
    BY <1>1, <1>2, PayloadTells
  <2> HIDE DEF sent, m
  <2>3. payload'.message = m /\ payload'.sent = sent
    BY <2>1
  <2> QED
    BY <2>2, <2>3 DEF PayloadTellsTheRequest, AsRead, Pair
<1>4. ParseInv' /\ ParsedInv'
  BY <1>1 DEF Inv, ParseInv, ParsedInv
<1> QED
  BY <1>1, <1>3, <1>4 DEF Inv

(* Destroyed *)
LEMMA DestroyedInv ==
    ASSUME Inv, Destroyed
    PROVE  Inv'
<1>1. PICK H :
          /\ Request_destroy(World(req, heap, strings, misused)) = World(EmptyRequest, H, strings, misused)
          /\ Owned(EmptyRequest, H, strings)
  BY DestroyRequestIs DEF Inv
<1>2. req' = EmptyRequest /\ heap' = H /\ strings' = strings /\ misused' = misused
  <2>1. Becomes(World(EmptyRequest, H, strings, misused))
    BY <1>1, HereIs DEF Destroyed
  <2> QED
    BY <2>1, BecomesWorld
<1>3. stage' = "closed" /\ payload' = payload
  BY DEF Destroyed
<1>4. ParseInv' /\ ParsedInv'
  BY <1>3 DEF ParseInv, ParsedInv
<1>5. EmptyRequest.pattern = NULL
  BY DEF EmptyRequest
<1>6. PayloadTellsTheRequest'
  BY <1>3, PayloadStays DEF Inv
<1> QED
  BY <1>1, <1>2, <1>4, <1>5, <1>6 DEF Inv

(* Every step of a request keeps the invariant. *)
LEMMA NextInv == Inv /\ [RequestsNext]_requestsvars => Inv'
<1> SUFFICES ASSUME Inv, [RequestsNext]_requestsvars
             PROVE  Inv'
  OBVIOUS
<1>1. CASE UNCHANGED requestsvars
  BY <1>1 DEF Inv, ParseInv, ParsedInv, PayloadTellsTheRequest, requestsvars
<1>2. CASE RequestsNext
  BY <1>2, ReadHeaderInv, ParseStepInv, ParsedStepInv, RoutedInv, ToPayloadInv, DestroyedInv DEF RequestsNext
<1> QED
  BY <1>1, <1>2

(* The strings of the places that the invariant is about are the reachable ones. *)
LEMMA ReachableIsHeld ==
    ASSUME Owned(req, heap, strings)
    PROVE  \A s : s \in Reachable <=> s # NULL /\ Held(req, s)
<1>1. \A i \in DOMAIN req.headers : \A a \in HeaderSides : req.headers[i][a] \in DOMAIN heap
  BY DEF Owned, HeadersOwned
<1>2. NULL \notin DOMAIN heap
  BY RequestsAssumption DEF Owned, IsHeap
<1>3. \A i \in DOMAIN req.headers : \A s :
          s \in {req.headers[i].key, req.headers[i].value} <=> \E a \in HeaderSides : req.headers[i][a] = s
  BY DEF HeaderSides
<1>4. \A s : s \in UNION {{req.headers[i].key, req.headers[i].value} : i \in DOMAIN req.headers}
          <=> \E i \in DOMAIN req.headers : \E a \in HeaderSides : req.headers[i][a] = s
  BY <1>3
<1>5. \A s : s \in {req[f] : f \in Parts} \ {NULL} <=> s # NULL /\ \E f \in Parts : req[f] = s
  OBVIOUS
<1>6. \A s : s \in Reachable <=> \/ s # NULL /\ \E f \in Parts : req[f] = s
                               \/ \E i \in DOMAIN req.headers : \E a \in HeaderSides : req.headers[i][a] = s
  BY <1>4, <1>5 DEF Reachable
<1> QED
  BY <1>1, <1>2, <1>6 DEF Held

(* What the invariant is for. *)
LEMMA InvFaithful == Inv => RequestsFaithful
<1> SUFFICES ASSUME Inv
             PROVE  RequestsFaithful
  OBVIOUS
<1>1. Owned(req, heap, strings) /\ misused = {} /\ NULL \notin DOMAIN heap
  BY RequestsAssumption DEF Inv, Owned, IsHeap
<1>2. \A s : s \in Reachable <=> s # NULL /\ Held(req, s)
  BY <1>1, ReachableIsHeld
<1>3. StringsAccounted
  <2>1. \A s : s # NULL /\ Held(req, s) => s \in DOMAIN heap
    BY <1>1 DEF Owned, PartsOwned, HeadersOwned, Held
  <2>2. \A s \in DOMAIN heap : heap[s].by = "path" \/ Held(req, s)
    BY <1>1 DEF Owned, OnlyPathsLost
  <2> QED
    BY <1>1, <1>2, <2>1, <2>2 DEF StringsAccounted
<1>4. HostIsItsOwn
  <2>1. SUFFICES ASSUME stage = "parsed"
                 PROVE  HostIsItsOwn
    BY DEF HostIsItsOwn
  <2>2. HostTold(req, heap, now.message)
    BY <2>1 DEF Inv, ParsedInv
  <2> QED
    BY <1>2, <2>2 DEF HostTold, HostIsItsOwn
<1> QED
  BY <1>3, <1>4 DEF Inv, RequestsFaithful

(* The request, its strings and the payload over the requests of a connection. *)
THEOREM RequestsInvariant == RequestsSpec => []Inv
<1>1. RequestsInit => Inv
  BY InitInv
<1>2. Inv /\ [RequestsNext]_requestsvars => Inv'
  BY NextInv
<1> QED
  BY <1>1, <1>2, PTL DEF RequestsSpec

(* request.c: a handler reads the request that the client made and nothing of the one before, *)
(* whatever its headers are, and every string is destroyed once.                              *)
THEOREM RequestsAreFaithful == RequestsSpec => []RequestsFaithful
<1>1. Inv => RequestsFaithful
  BY InvFaithful
<1> QED
  BY <1>1, RequestsInvariant, PTL
=============================================================================
