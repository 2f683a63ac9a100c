-------------------------- MODULE ObjectLife_proofs --------------------------
(***************************************************************************)
(* The life of an object, for programs of any number of classes, with any  *)
(* number of members and arrays of any length: the compiled code runs the  *)
(* user's constructors and destructors that C++ asks for, each once and in *)
(* the order of C++, and every vtable is right where one is used.          *)
(*                                                                         *)
(* The argument.  What a statement will come to is a function of it: the   *)
(* constructors it runs (BuildMap), the vtables it sets (SetMap), the      *)
(* destructors it runs (GoneMap).  Each class's code comes to what C++     *)
(* asks of its parts, by induction on the order of the classes; so what    *)
(* has run, with what the rest of the code comes to, is what the object    *)
(* asks for (Progress), and a call does not change it.                     *)
(*                                                                         *)
(* The theorems are about the declarations that the compiler treats alike  *)
(* in all its phases (TreatedAlike).                                       *)
(***************************************************************************)
EXTENDS ObjectLife, SequenceTheorems, WellFoundedInduction, TLAPS

-----------------------------------------------------------------------------
(* Sequences: induction on them, flattening, and what a function makes of  *)
(* each of their elements.                                                 *)

(* A set of naturals has a least element.                                  *)
LEMMA LeastOfNaturals ==
  ASSUME NEW S, S \subseteq Nat, S # {}
  PROVE  \E x \in S : \A y \in S : x <= y
<1>1. PICK x \in S : \A y \in S : ~ <<y, x>> \in OpToRel(<, Nat)
  BY NatLessThanWellFounded, WFMin, Zenon
<1>2. \A y \in S : ~ (y < x)
  BY <1>1 DEF OpToRel
<1> QED
  BY <1>2

(* Induction on sequences: a set of them that has the empty one, and with  *)
(* each the longer ones, has all.                                          *)
LEMMA SeqInduction ==
  ASSUME NEW T, NEW S, S \subseteq Seq(T), <<>> \in S,
         \A s \in S, x \in T : Append(s, x) \in S
  PROVE  \A s \in Seq(T) : s \in S
<1> SUFFICES ASSUME NEW b \in Seq(T), b \notin S PROVE FALSE
  OBVIOUS
<1> DEFINE Lens == {n \in Nat : \E s \in Seq(T) : s \notin S /\ Len(s) = n}
<1>1. Lens # {} /\ Lens \subseteq Nat
  <2>1. Len(b) \in Lens
    BY LenProperties
  <2> QED BY <2>1
<1>2. PICK n \in Lens : \A y \in Lens : n <= y
  BY <1>1, LeastOfNaturals
<1>3. PICK s \in Seq(T) : s \notin S /\ Len(s) = n
  BY <1>2
<1>4. PICK r \in Seq(T), x \in T : s = Append(r, x)
  BY <1>3, SequenceEmptyOrAppend
<1>5. Len(r) = n - 1 /\ Len(r) \in Nat /\ n \in Nat
  BY <1>3, <1>4, AppendProperties, LenProperties
<1>6. Len(r) \notin Lens
  BY <1>2, <1>5
<1>7. r \in S
  BY <1>6, <1>5
<1> QED
  BY <1>3, <1>4, <1>7

-----------------------------------------------------------------------------
(* FlattenSeq.  Its local function:                                        *)
Chain(g, f) == g = [i \in 1 .. Len(f) |-> IF i = 1 THEN f[i] ELSE g[i - 1] \o f[i]]

LEMMA ChainExists ==
  ASSUME NEW T, NEW f \in Seq(Seq(T))
  PROVE  \E g \in [1 .. Len(f) -> Seq(T)] : Chain(g, f)
<1> DEFINE S == {s \in Seq(Seq(T)) : \E g \in [1 .. Len(s) -> Seq(T)] : Chain(g, s)}
<1>1. <<>> \in S
  <2>1. [i \in 1 .. 0 |-> <<>>] \in [1 .. 0 -> Seq(T)]
    OBVIOUS
  <2>2. Chain([i \in 1 .. 0 |-> <<>>], <<>>)
    BY DEF Chain
  <2>3. Len(<<>>) = 0 /\ <<>> \in Seq(Seq(T))
    BY EmptySeq
  <2>4. \E g \in [1 .. 0 -> Seq(T)] : Chain(g, <<>>)
    BY <2>1, <2>2
  <2> QED BY <2>3, <2>4
<1>2. ASSUME NEW s \in S, NEW x \in Seq(T) PROVE Append(s, x) \in S
  <2>1. PICK g \in [1 .. Len(s) -> Seq(T)] : Chain(g, s)
    OBVIOUS
  <2> DEFINE n == Len(s)
             t == Append(s, x)
             last == IF n = 0 THEN x ELSE g[n] \o x
             h == [i \in 1 .. n + 1 |-> IF i = n + 1 THEN last ELSE g[i]]
  <2>2. n \in Nat /\ t \in Seq(Seq(T)) /\ Len(t) = n + 1 /\ t[n + 1] = x /\ \A i \in 1 .. n : t[i] = s[i]
    BY AppendProperties, LenProperties
  <2>3. \A i \in 1 .. n : g[i] = IF i = 1 THEN s[i] ELSE g[i - 1] \o s[i]
    BY <2>1 DEF Chain
  <2>4. last \in Seq(T)
    <3>1. CASE n = 0
      BY <3>1
    <3>2. CASE n # 0
      <4>1. n \in 1 .. n
        BY <2>2, <3>2
      <4>2. g[n] \in Seq(T)
        BY <4>1
      <4>3. g[n] \o x \in Seq(T)
        BY <4>2, ConcatProperties
      <4> QED BY <3>2, <4>3
    <3> QED BY <3>1, <3>2
  <2>5. h \in [1 .. n + 1 -> Seq(T)]
    BY <2>2, <2>4
  <2>6. ASSUME NEW i \in 1 .. n + 1 PROVE h[i] = IF i = 1 THEN t[i] ELSE h[i - 1] \o t[i]
    <3>1. CASE i = n + 1
      <4>1. CASE n = 0
        BY <2>2, <3>1, <4>1
      <4>2. CASE n # 0
        <5>1. i - 1 = n /\ n \in 1 .. n + 1 /\ n # n + 1 /\ i # 1
          BY <2>2, <3>1, <4>2
        <5>2. h[i - 1] = g[n]
          BY <5>1
        <5>3. h[i] = last /\ last = g[n] \o x
          BY <3>1, <4>2
        <5>4. t[i] = x
          BY <2>2, <3>1
        <5> HIDE DEF h, last, t
        <5> QED BY <5>1, <5>2, <5>3, <5>4
      <4> QED BY <4>1, <4>2
    <3>2. CASE i \in 1 .. n
      <4>1. h[i] = g[i] /\ t[i] = s[i] /\ (i # 1 => h[i - 1] = g[i - 1])
        BY <2>2, <3>2
      <4> QED BY <2>3, <3>2, <4>1
    <3> QED BY <2>2, <3>1, <3>2
  <2>7. h = [i \in 1 .. n + 1 |-> h[i]]
    OBVIOUS
  <2>8. h = [i \in 1 .. n + 1 |-> IF i = 1 THEN t[i] ELSE h[i - 1] \o t[i]]
    <3> HIDE DEF h
    <3> QED BY <2>6, <2>7
  <2>9. Chain(h, t)
    <3> HIDE DEF h
    <3> QED BY <2>2, <2>8 DEF Chain
  <2> QED
    BY <2>2, <2>5, <2>9
<1>3. S \subseteq Seq(Seq(T))
  OBVIOUS
<1>4. f \in S
  <2> HIDE DEF S
  <2> QED BY <1>1, <1>2, <1>3, SeqInduction
<1> QED
  BY <1>4

Begins(f, e) ==
  /\ Len(f) \in Nat /\ Len(e) \in Nat /\ Len(f) <= Len(e)
  /\ \A i \in 1 .. Len(f) : e[i] = f[i]

LEMMA ChainUnique ==
  ASSUME NEW f, NEW e, Begins(f, e), NEW g, NEW h, Chain(g, f), Chain(h, e)
  PROVE  h[Len(f)] = g[Len(f)] \/ Len(f) = 0
<1> USE DEF Begins
<1> DEFINE Bad == {i \in 1 .. Len(f) : h[i] # g[i]}
<1> SUFFICES ASSUME Bad # {} PROVE FALSE
  OBVIOUS
<1>1. PICK n \in Bad : \A y \in Bad : n <= y
  <2>1. Bad \subseteq Nat
    OBVIOUS
  <2> HIDE DEF Bad
  <2> QED BY <2>1, LeastOfNaturals
<1>2. n \in 1 .. Len(f) /\ h[n] # g[n]
  BY <1>1
<1>3. g[n] = (IF n = 1 THEN f[n] ELSE g[n - 1] \o f[n]) /\ h[n] = (IF n = 1 THEN e[n] ELSE h[n - 1] \o e[n])
  <2>1. n \in 1 .. Len(f) /\ n \in 1 .. Len(e)
    BY <1>2
  <2>2. g = [i \in 1 .. Len(f) |-> IF i = 1 THEN f[i] ELSE g[i - 1] \o f[i]]
    BY DEF Chain
  <2>3. h = [i \in 1 .. Len(e) |-> IF i = 1 THEN e[i] ELSE h[i - 1] \o e[i]]
    BY DEF Chain
  <2>4. g[n] = IF n = 1 THEN f[n] ELSE g[n - 1] \o f[n]
    BY <2>1, <2>2, Zenon
  <2>5. h[n] = IF n = 1 THEN e[n] ELSE h[n - 1] \o e[n]
    BY <2>1, <2>3, Zenon
  <2> QED BY <2>4, <2>5
<1>4. n # 1
  BY <1>2, <1>3
<1>5. n - 1 \in 1 .. Len(f) /\ n - 1 \notin Bad
  BY <1>1, <1>2, <1>4
<1>6. h[n - 1] = g[n - 1]
  BY <1>5
<1> QED
  BY <1>2, <1>3, <1>6

LEMMA FlattenIs ==
  ASSUME NEW f
  PROVE  FlattenSeq(f) = IF Len(f) = 0 THEN f ELSE (CHOOSE g : Chain(g, f))[Len(f)]
BY Zenon DEF FlattenSeq, Chain

LEMMA FlattenChain ==
  ASSUME NEW T, NEW f \in Seq(Seq(T)), Len(f) # 0
  PROVE  \E g \in [1 .. Len(f) -> Seq(T)] : Chain(g, f) /\ FlattenSeq(f) = g[Len(f)]
<1>1. PICK g \in [1 .. Len(f) -> Seq(T)] : Chain(g, f)
  BY ChainExists
<1> DEFINE h == CHOOSE g0 : Chain(g0, f)
<1>2. Chain(h, f)
  BY <1>1
<1>3. FlattenSeq(f) = h[Len(f)]
  BY FlattenIs
<1>4. Len(f) \in Nat /\ Len(f) \in 1 .. Len(f)
  BY LenProperties
<1>5. h[Len(f)] = g[Len(f)]
  <2> HIDE DEF h
  <2>1. Begins(f, f)
    BY <1>4 DEF Begins
  <2> QED BY <1>1, <1>2, <1>4, <2>1, ChainUnique
<1> QED
  BY <1>1, <1>3, <1>5

LEMMA FlattenEmpty == FlattenSeq(<<>>) = <<>>
BY FlattenIs

LEMMA FlattenIn ==
  ASSUME NEW T, NEW f \in Seq(Seq(T))
  PROVE  FlattenSeq(f) \in Seq(T)
<1>1. CASE f = <<>>
  BY <1>1, FlattenEmpty, EmptySeq
<1>2. CASE f # <<>>
  <2>1. Len(f) # 0 /\ Len(f) \in Nat
    BY <1>2, EmptySeq
  <2>2. PICK g \in [1 .. Len(f) -> Seq(T)] : FlattenSeq(f) = g[Len(f)]
    BY <2>1, FlattenChain
  <2>3. Len(f) \in 1 .. Len(f)
    BY <2>1
  <2> QED BY <2>2, <2>3
<1> QED BY <1>1, <1>2

LEMMA FlattenAppend ==
  ASSUME NEW T, NEW f \in Seq(Seq(T)), NEW s \in Seq(T)
  PROVE  FlattenSeq(Append(f, s)) = FlattenSeq(f) \o s
<1> DEFINE e == Append(f, s)
           n == Len(f)
<1>1. e \in Seq(Seq(T)) /\ Len(e) = n + 1 /\ n \in Nat /\ e[n + 1] = s /\ \A i \in 1 .. n : e[i] = f[i]
  BY AppendProperties, LenProperties
<1> HIDE DEF e
<1>2. PICK h \in [1 .. Len(e) -> Seq(T)] : Chain(h, e) /\ FlattenSeq(e) = h[Len(e)]
  <2>1. Len(e) # 0
    BY <1>1
  <2> QED BY <1>1, <2>1, FlattenChain
<1>3. \A i \in 1 .. n + 1 : h[i] = IF i = 1 THEN e[i] ELSE h[i - 1] \o e[i]
  BY <1>1, <1>2 DEF Chain
<1>4. CASE n = 0
  <2>1. h[n + 1] = s
    BY <1>1, <1>3, <1>4
  <2>2. f = <<>>
    BY <1>4, EmptySeq
  <2>3. FlattenSeq(f) \o s = s
    BY <2>2, FlattenEmpty, ConcatEmptySeq
  <2> QED BY <1>1, <1>2, <2>1, <2>3 DEF e
<1>5. CASE n # 0
  <2>1. PICK g \in [1 .. n -> Seq(T)] : Chain(g, f) /\ FlattenSeq(f) = g[n]
    BY <1>5, FlattenChain
  <2>2. h[n] = g[n]
    <3>0. Len(f) = n /\ Len(f) <= Len(e) /\ Len(e) \in Nat
      BY <1>1
    <3>1. \A i \in 1 .. Len(f) : e[i] = f[i]
      BY <1>1
    <3>2. Len(f) \in Nat /\ Len(e) \in Nat /\ Len(f) <= Len(e)
      BY <1>1, <3>0
    <3>3. Begins(f, e)
      BY <3>1, <3>2 DEF Begins
    <3>4. Chain(h, e) /\ Chain(g, f)
      BY <1>2, <2>1
    <3>5. h[Len(f)] = g[Len(f)] \/ Len(f) = 0
      BY <3>3, <3>4, ChainUnique, Zenon
    <3> QED BY <1>5, <3>5
  <2>3. h[n + 1] = h[n] \o s
    <3>1. n + 1 \in 1 .. n + 1 /\ n + 1 # 1 /\ (n + 1) - 1 = n
      BY <1>1, <1>5
    <3>2. h[n + 1] = h[(n + 1) - 1] \o e[n + 1]
      BY <1>3, <3>1
    <3> QED BY <1>1, <3>1, <3>2
  <2> QED BY <1>1, <1>2, <2>1, <2>2, <2>3 DEF e
<1> QED BY <1>4, <1>5

(* Two sequences of sequences one behind the other.                        *)
LEMMA AppendConcat ==
  ASSUME NEW T, NEW s \in Seq(T), NEW t \in Seq(T), NEW x \in T
  PROVE  s \o Append(t, x) = Append(s \o t, x)
<1>1. Append(t, x) = t \o <<x>> /\ <<x>> \in Seq(T)
  BY AppendIsConcat
<1>2. s \o t \in Seq(T)
  BY ConcatProperties
<1>3. Append(s \o t, x) = (s \o t) \o <<x>>
  BY <1>2, AppendIsConcat
<1> QED
  BY <1>1, <1>3, ConcatAssociative

LEMMA FlattenConcat ==
  ASSUME NEW T, NEW f \in Seq(Seq(T)), NEW g \in Seq(Seq(T))
  PROVE  FlattenSeq(f \o g) = FlattenSeq(f) \o FlattenSeq(g)
<1> DEFINE S == {s \in Seq(Seq(T)) : FlattenSeq(f \o s) = FlattenSeq(f) \o FlattenSeq(s)}
<1>1. <<>> \in S
  <2>1. FlattenSeq(f) \o FlattenSeq(<<>>) = FlattenSeq(f)
    BY FlattenEmpty, FlattenIn, ConcatEmptySeq
  <2>2. f \o <<>> = f
    BY ConcatEmptySeq
  <2> QED BY <2>1, <2>2
<1>2. ASSUME NEW s \in S, NEW x \in Seq(T) PROVE Append(s, x) \in S
  <2>1. Append(s, x) \in Seq(Seq(T))
    BY AppendProperties
  <2>2. f \o Append(s, x) = Append(f \o s, x) /\ f \o s \in Seq(Seq(T))
    BY AppendConcat, ConcatProperties
  <2>3. FlattenSeq(f \o Append(s, x)) = FlattenSeq(f \o s) \o x
    BY <2>2, FlattenAppend
  <2>4. FlattenSeq(Append(s, x)) = FlattenSeq(s) \o x
    BY FlattenAppend
  <2>5. FlattenSeq(f \o s) = FlattenSeq(f) \o FlattenSeq(s)
    OBVIOUS
  <2>6. (FlattenSeq(f) \o FlattenSeq(s)) \o x = FlattenSeq(f) \o (FlattenSeq(s) \o x)
    BY FlattenIn, ConcatAssociative
  <2> QED BY <2>1, <2>3, <2>4, <2>5, <2>6
<1>3. S \subseteq Seq(Seq(T))
  OBVIOUS
<1>4. g \in S
  <2> HIDE DEF S
  <2> QED BY <1>1, <1>2, <1>3, SeqInduction
<1> QED BY <1>4

-----------------------------------------------------------------------------
(* Functions over a start of the numbers are sequences.                    *)
LEMMA FunctionSeq ==
  ASSUME NEW T, NEW n \in Nat, NEW f \in [1 .. n -> T]
  PROVE  f \in Seq(T) /\ Len(f) = n /\ DOMAIN f = 1 .. n
<1>1. f \in Seq(T)
  BY SeqDef
<1>2. DOMAIN f = 1 .. n /\ DOMAIN f = 1 .. Len(f) /\ Len(f) \in Nat
  BY <1>1, LenProperties
<1> QED
  BY <1>1, <1>2

IsMap(h, T, U) == h \in [T -> U]

(* One behind the other, what h makes of each.                             *)
Of(h, s) == [k \in DOMAIN s |-> h[s[k]]]
Each(h, s) == FlattenSeq(Of(h, s))

LEMMA OfIn ==
  ASSUME NEW T, NEW U, NEW h, IsMap(h, T, U), NEW s \in Seq(T)
  PROVE  /\ Of(h, s) \in Seq(U) /\ Len(Of(h, s)) = Len(s)
         /\ \A k \in 1 .. Len(s) : Of(h, s)[k] = h[s[k]]
<1>1. Len(s) \in Nat /\ DOMAIN s = 1 .. Len(s) /\ \A k \in 1 .. Len(s) : s[k] \in T
  BY LenProperties, ElementOfSeq
<1>2. Of(h, s) \in [1 .. Len(s) -> U]
  BY <1>1 DEF Of, IsMap
<1>3. Of(h, s) \in Seq(U) /\ Len(Of(h, s)) = Len(s)
  BY <1>1, <1>2, FunctionSeq
<1> QED
  BY <1>1, <1>3 DEF Of

LEMMA OfConcat ==
  ASSUME NEW T, NEW U, NEW h, IsMap(h, T, U), NEW s \in Seq(T), NEW t \in Seq(T)
  PROVE  Of(h, s \o t) = Of(h, s) \o Of(h, t)
<1>1. /\ s \o t \in Seq(T) /\ Len(s \o t) = Len(s) + Len(t) /\ Len(s) \in Nat /\ Len(t) \in Nat
      /\ \A i \in 1 .. Len(s) + Len(t) : (s \o t)[i] = IF i <= Len(s) THEN s[i] ELSE t[i - Len(s)]
  BY ConcatProperties, LenProperties
<1> DEFINE a == Of(h, s \o t)
           p == Of(h, s)
           q == Of(h, t)
<1>0. /\ a \in Seq(U) /\ Len(a) = Len(s \o t)
      /\ \A k \in 1 .. Len(s \o t) : a[k] = h[(s \o t)[k]]
  <2>1. PICK w \in Seq(T) : w = s \o t
    BY <1>1
  <2>2. /\ Of(h, w) \in Seq(U) /\ Len(Of(h, w)) = Len(w)
        /\ \A k \in 1 .. Len(w) : Of(h, w)[k] = h[w[k]]
    BY OfIn
  <2> QED BY <2>1, <2>2
<1>2. a \in Seq(U) /\ Len(a) = Len(s) + Len(t) /\ \A k \in 1 .. Len(s) + Len(t) : a[k] = h[(s \o t)[k]]
  BY <1>0, <1>1
<1>3. /\ p \in Seq(U) /\ Len(p) = Len(s) /\ \A k \in 1 .. Len(s) : p[k] = h[s[k]]
      /\ q \in Seq(U) /\ Len(q) = Len(t) /\ \A k \in 1 .. Len(t) : q[k] = h[t[k]]
  BY OfIn
<1> HIDE DEF a, p, q
<1>4. /\ p \o q \in Seq(U) /\ Len(p \o q) = Len(s) + Len(t)
      /\ \A i \in 1 .. Len(s) + Len(t) : (p \o q)[i] = IF i <= Len(s) THEN p[i] ELSE q[i - Len(s)]
  <2>1. p \in Seq(U) /\ q \in Seq(U)
    BY <1>3
  <2>2. /\ p \o q \in Seq(U) /\ Len(p \o q) = Len(p) + Len(q)
        /\ \A i \in 1 .. Len(p) + Len(q) : (p \o q)[i] = IF i <= Len(p) THEN p[i] ELSE q[i - Len(p)]
    BY ONLY <2>1, ConcatProperties
  <2> QED BY <1>3, <2>2
<1>5. ASSUME NEW i \in 1 .. Len(s) + Len(t) PROVE a[i] = (p \o q)[i]
  <2>1. CASE i <= Len(s)
    <3>1. i \in 1 .. Len(s)
      BY <1>1, <2>1
    <3> QED BY <1>1, <1>2, <1>3, <1>4, <2>1, <3>1
  <2>2. CASE ~(i <= Len(s))
    <3>1. i - Len(s) \in 1 .. Len(t)
      BY <1>1, <2>2
    <3> QED BY <1>1, <1>2, <1>3, <1>4, <2>2, <3>1, SMTT(40), ZenonT(40)
  <2> QED BY <2>1, <2>2
<1>6. a = p \o q
  BY <1>2, <1>4, <1>5, SeqEqual
<1> QED BY <1>6 DEF a, p, q

LEMMA OfOne ==
  ASSUME NEW h, NEW x
  PROVE  Of(h, <<x>>) = <<h[x]>> /\ Of(h, <<>>) = <<>>
BY DEF Of

LEMMA FlattenOne ==
  ASSUME NEW T, NEW s \in Seq(T)
  PROVE  FlattenSeq(<<s>>) = s
<1>1. <<>> \in Seq(Seq(T)) /\ Append(<<>>, s) = <<s>>
  BY EmptySeq
<1>2. FlattenSeq(<<s>>) = FlattenSeq(<<>>) \o s
  BY <1>1, FlattenAppend
<1> QED BY <1>2, FlattenEmpty, ConcatEmptySeq

LEMMA EachIn ==
  ASSUME NEW T, NEW U, NEW h, IsMap(h, T, Seq(U)), NEW s \in Seq(T)
  PROVE  Each(h, s) \in Seq(U)
BY OfIn, FlattenIn DEF Each

LEMMA EachOne ==
  ASSUME NEW T, NEW U, NEW h, IsMap(h, T, Seq(U)), NEW x \in T
  PROVE  Each(h, <<x>>) = h[x]
<1>1. h[x] \in Seq(U)
  BY DEF IsMap
<1> QED BY <1>1, OfOne, FlattenOne DEF Each

LEMMA EachEmpty == ASSUME NEW h PROVE Each(h, <<>>) = <<>>
BY OfOne, FlattenEmpty DEF Each

LEMMA EachConcat ==
  ASSUME NEW T, NEW U, NEW h, IsMap(h, T, Seq(U)), NEW s \in Seq(T), NEW t \in Seq(T)
  PROVE  Each(h, s \o t) = Each(h, s) \o Each(h, t)
<1>1. Of(h, s \o t) = Of(h, s) \o Of(h, t)
  BY OfConcat
<1>2. Of(h, s) \in Seq(Seq(U)) /\ Of(h, t) \in Seq(Seq(U))
  BY OfIn
<1> QED BY <1>1, <1>2, FlattenConcat DEF Each

(* And of a flattened sequence.                                            *)
EachPart(h, f) == [i \in DOMAIN f |-> Each(h, f[i])]

LEMMA EachPartIn ==
  ASSUME NEW T, NEW U, NEW h, IsMap(h, T, Seq(U)), NEW f \in Seq(Seq(T))
  PROVE  /\ EachPart(h, f) \in Seq(Seq(U)) /\ Len(EachPart(h, f)) = Len(f)
         /\ \A i \in 1 .. Len(f) : EachPart(h, f)[i] = Each(h, f[i])
<1>1. Len(f) \in Nat /\ DOMAIN f = 1 .. Len(f) /\ \A i \in 1 .. Len(f) : f[i] \in Seq(T)
  BY LenProperties, ElementOfSeq
<1>2. \A i \in 1 .. Len(f) : Each(h, f[i]) \in Seq(U)
  BY <1>1, EachIn
<1>3. EachPart(h, f) \in [1 .. Len(f) -> Seq(U)]
  BY <1>1, <1>2 DEF EachPart
<1> QED
  BY <1>1, <1>3, FunctionSeq DEF EachPart

LEMMA EachFlatten ==
  ASSUME NEW T, NEW U, NEW h, IsMap(h, T, Seq(U)), NEW f \in Seq(Seq(T))
  PROVE  Each(h, FlattenSeq(f)) = FlattenSeq(EachPart(h, f))
<1> DEFINE S == {s \in Seq(Seq(T)) : Each(h, FlattenSeq(s)) = FlattenSeq(EachPart(h, s))}
<1>1. <<>> \in S
  <2>1. EachPart(h, <<>>) = <<>>
    BY DEF EachPart
  <2> QED BY <2>1, EmptySeq, FlattenEmpty, EachEmpty
<1>2. ASSUME NEW s \in S, NEW x \in Seq(T) PROVE Append(s, x) \in S
  <2> DEFINE e == Append(s, x)
  <2>1. e \in Seq(Seq(T)) /\ Len(e) = Len(s) + 1 /\ Len(s) \in Nat /\ e[Len(s) + 1] = x /\ \A i \in 1 .. Len(s) : e[i] = s[i]
    BY AppendProperties, LenProperties
  <2>2. Each(h, FlattenSeq(e)) = Each(h, FlattenSeq(s)) \o Each(h, x)
    <3>1. FlattenSeq(e) = FlattenSeq(s) \o x
      BY FlattenAppend
    <3> QED BY <3>1, FlattenIn, EachConcat
  <2>3. EachPart(h, e) = Append(EachPart(h, s), Each(h, x))
    <3> DEFINE p == EachPart(h, e)
               q == EachPart(h, s)
               a == Append(q, Each(h, x))
    <3> HIDE DEF e
    <3>1. p \in Seq(Seq(U)) /\ Len(p) = Len(s) + 1 /\ \A i \in 1 .. Len(s) + 1 : p[i] = Each(h, e[i])
      BY <2>1, EachPartIn
    <3>2. q \in Seq(Seq(U)) /\ Len(q) = Len(s) /\ \A i \in 1 .. Len(s) : q[i] = Each(h, s[i])
      BY EachPartIn
    <3>3. Each(h, x) \in Seq(U)
      BY EachIn
    <3> HIDE DEF p, q
    <3>4. a \in Seq(Seq(U)) /\ Len(a) = Len(s) + 1 /\ a[Len(s) + 1] = Each(h, x) /\ \A i \in 1 .. Len(s) : a[i] = q[i]
      BY <3>2, <3>3, AppendProperties
    <3> HIDE DEF a
    <3>5. \A i \in 1 .. Len(s) + 1 : p[i] = a[i]
      <4>1. \A i \in 1 .. Len(s) + 1 : i = Len(s) + 1 \/ i \in 1 .. Len(s)
        BY <2>1
      <4> QED BY <2>1, <3>1, <3>2, <3>4, <4>1
    <3>6. p = a
      BY <3>1, <3>4, <3>5, SeqEqual
    <3> QED BY <3>6 DEF p, q, a
  <2>4. FlattenSeq(EachPart(h, e)) = FlattenSeq(EachPart(h, s)) \o Each(h, x)
    <3>1. EachPart(h, s) \in Seq(Seq(U)) /\ Each(h, x) \in Seq(U)
      BY EachPartIn, EachIn
    <3> QED BY <2>3, <3>1, FlattenAppend
  <2> QED BY <2>1, <2>2, <2>4
<1>3. S \subseteq Seq(Seq(T))
  OBVIOUS
<1>4. f \in S
  <2> HIDE DEF S
  <2> QED BY <1>1, <1>2, <1>3, SeqInduction
<1> QED BY <1>4

(* Where a sequence has one of those it was flattened from.                *)
LEMMA FlattenAround ==
  ASSUME NEW T, NEW f \in Seq(Seq(T)), NEW i \in 1 .. Len(f)
  PROVE  /\ FlattenSeq(f) = (FlattenSeq(SubSeq(f, 1, i - 1)) \o f[i]) \o FlattenSeq(SubSeq(f, i + 1, Len(f)))
         /\ SubSeq(f, 1, i - 1) \in Seq(Seq(T)) /\ SubSeq(f, i + 1, Len(f)) \in Seq(Seq(T))
         /\ f[i] \in Seq(T)
<1>1. Len(f) \in Nat /\ \A j \in 1 .. Len(f) : f[j] \in Seq(T)
  BY LenProperties, ElementOfSeq
<1> DEFINE a == SubSeq(f, 1, i - 1)
           b == SubSeq(f, i + 1, Len(f))
<1>2. a \in Seq(Seq(T)) /\ b \in Seq(Seq(T))
  <2>1. \A j \in 1 .. i - 1 : f[j] \in Seq(T)
    BY <1>1
  <2>2. \A j \in i + 1 .. Len(f) : f[j] \in Seq(T)
    BY <1>1
  <2>3. i - 1 \in Int /\ i + 1 \in Int /\ 1 \in Int /\ Len(f) \in Int
    BY <1>1
  <2> QED BY <2>1, <2>2, <2>3, SubSeqProperties
<1>3. SubSeq(f, 1, i) = a \o <<f[i]>>
  <2>1. 1 \in 1 .. Len(f) /\ i \in 1 .. Len(f)
    BY <1>1
  <2> QED BY <2>1, SubSeqRecursiveSecond
<1>4. f = (a \o <<f[i]>>) \o b
  <2>1. SubSeq(f, 1, i) \o b = SubSeq(f, 1, Len(f))
    <3>1. 1 \in 1 .. Len(f) + 1 /\ i \in 1 - 1 .. Len(f) /\ Len(f) \in i .. Len(f)
      BY <1>1
    <3> QED BY <3>1, ConcatAdjacentSubSeq
  <2> QED BY <1>3, <2>1, SubSeqFull
<1>5. <<f[i]>> \in Seq(Seq(T)) /\ a \o <<f[i]>> \in Seq(Seq(T))
  <2>1. <<f[i]>> \in Seq(Seq(T))
    BY <1>1
  <2> QED BY <1>2, <2>1, ConcatProperties
<1> HIDE DEF a, b
<1>6. FlattenSeq(f) = FlattenSeq(a \o <<f[i]>>) \o FlattenSeq(b)
  BY <1>2, <1>4, <1>5, FlattenConcat
<1>7. FlattenSeq(a \o <<f[i]>>) = FlattenSeq(a) \o f[i]
  <2>1. FlattenSeq(a \o <<f[i]>>) = FlattenSeq(a) \o FlattenSeq(<<f[i]>>)
    BY <1>2, <1>5, FlattenConcat
  <2>2. FlattenSeq(<<f[i]>>) = f[i]
    BY <1>1, FlattenOne
  <2> QED BY <2>1, <2>2
<1> QED BY <1>1, <1>2, <1>6, <1>7 DEF a, b

(* Reverse.                                                                *)
LEMMA ReverseIn ==
  ASSUME NEW T, NEW s \in Seq(T)
  PROVE  /\ Reverse(s) \in Seq(T) /\ Len(Reverse(s)) = Len(s)
         /\ \A i \in 1 .. Len(s) : Reverse(s)[i] = s[Len(s) - i + 1]
<1>1. Len(s) \in Nat /\ \A i \in 1 .. Len(s) : s[i] \in T
  BY LenProperties, ElementOfSeq
<1>2. Reverse(s) \in [1 .. Len(s) -> T]
  <2>1. \A i \in 1 .. Len(s) : Len(s) - i + 1 \in 1 .. Len(s)
    BY <1>1
  <2> QED BY <1>1, <2>1 DEF Reverse
<1>3. Reverse(s) \in Seq(T) /\ Len(Reverse(s)) = Len(s)
  BY <1>1, <1>2, FunctionSeq
<1> QED BY <1>1, <1>3 DEF Reverse

LEMMA ReverseConcat ==
  ASSUME NEW T, NEW s \in Seq(T), NEW t \in Seq(T)
  PROVE  Reverse(s \o t) = Reverse(t) \o Reverse(s)
<1>1. PICK w \in Seq(T) : w = s \o t
  BY ConcatProperties
<1>2. /\ Len(w) = Len(s) + Len(t) /\ Len(s) \in Nat /\ Len(t) \in Nat
      /\ \A i \in 1 .. Len(s) + Len(t) : w[i] = IF i <= Len(s) THEN s[i] ELSE t[i - Len(s)]
  BY <1>1, ConcatProperties, LenProperties
<1> DEFINE a == Reverse(w)
           p == Reverse(t)
           q == Reverse(s)
<1>3. a \in Seq(T) /\ Len(a) = Len(w) /\ \A i \in 1 .. Len(w) : a[i] = w[Len(w) - i + 1]
  BY ReverseIn
<1>4. /\ p \in Seq(T) /\ Len(p) = Len(t) /\ \A i \in 1 .. Len(t) : p[i] = t[Len(t) - i + 1]
      /\ q \in Seq(T) /\ Len(q) = Len(s) /\ \A i \in 1 .. Len(s) : q[i] = s[Len(s) - i + 1]
  BY ReverseIn
<1> HIDE DEF a, p, q
<1>5. /\ p \o q \in Seq(T) /\ Len(p \o q) = Len(p) + Len(q)
      /\ \A i \in 1 .. Len(p) + Len(q) : (p \o q)[i] = IF i <= Len(p) THEN p[i] ELSE q[i - Len(p)]
  <2>1. p \in Seq(T) /\ q \in Seq(T)
    BY <1>4
  <2> QED BY ONLY <2>1, ConcatProperties
<1>6. ASSUME NEW i \in 1 .. Len(a) PROVE a[i] = (p \o q)[i]
  <2>1. i \in 1 .. Len(s) + Len(t) /\ a[i] = w[Len(s) + Len(t) - i + 1]
    BY <1>2, <1>3
  <2>2. CASE i <= Len(t)
    <3>1. i \in 1 .. Len(t) /\ Len(s) + Len(t) - i + 1 \in 1 .. Len(s) + Len(t) /\ ~(Len(s) + Len(t) - i + 1 <= Len(s))
      BY <1>2, <2>1, <2>2
    <3>2. (Len(s) + Len(t) - i + 1) - Len(s) = Len(t) - i + 1
      BY <1>2, <2>1
    <3>3. a[i] = t[Len(t) - i + 1]
      BY <1>2, <2>1, <3>1, <3>2
    <3>4. (p \o q)[i] = p[i]
      BY <1>2, <1>4, <1>5, <2>1, <2>2
    <3> QED BY <1>4, <3>1, <3>3, <3>4
  <2>3. CASE ~(i <= Len(t))
    <3>1. i - Len(t) \in 1 .. Len(s) /\ Len(s) + Len(t) - i + 1 \in 1 .. Len(s)
      BY <1>2, <2>1, <2>3
    <3>2. Len(s) - (i - Len(t)) + 1 = Len(s) + Len(t) - i + 1
      BY <1>2, <2>1
    <3>3. a[i] = s[Len(s) + Len(t) - i + 1]
      BY <1>2, <2>1, <3>1
    <3>4. (p \o q)[i] = q[i - Len(t)]
      BY <1>2, <1>4, <1>5, <2>1, <2>3
    <3> QED BY <1>4, <3>1, <3>2, <3>3, <3>4
  <2> QED BY <1>2, <2>1, <2>2, <2>3
<1>7. Len(a) = Len(p \o q)
  BY <1>2, <1>3, <1>4, <1>5
<1>8. a = p \o q
  BY <1>3, <1>5, <1>6, <1>7, SeqEqual
<1> QED BY <1>1, <1>8 DEF a, p, q

(* From the last to the first, each reversed.                              *)
PartsReversed(f) == [i \in 1 .. Len(f) |-> Reverse(f[Len(f) + 1 - i])]

LEMMA PartsReversedIn ==
  ASSUME NEW T, NEW f \in Seq(Seq(T))
  PROVE  /\ PartsReversed(f) \in Seq(Seq(T)) /\ Len(PartsReversed(f)) = Len(f)
         /\ \A i \in 1 .. Len(f) : PartsReversed(f)[i] = Reverse(f[Len(f) + 1 - i])
<1>1. Len(f) \in Nat /\ \A i \in 1 .. Len(f) : f[i] \in Seq(T)
  BY LenProperties, ElementOfSeq
<1>2. \A i \in 1 .. Len(f) : Len(f) + 1 - i \in 1 .. Len(f) /\ Reverse(f[Len(f) + 1 - i]) \in Seq(T)
  BY <1>1, ReverseIn
<1>3. PartsReversed(f) \in [1 .. Len(f) -> Seq(T)]
  BY <1>1, <1>2 DEF PartsReversed
<1> QED BY <1>1, <1>3, FunctionSeq, SMTT(40), ZenonT(40) DEF PartsReversed

LEMMA ReverseFlatten ==
  ASSUME NEW T, NEW f \in Seq(Seq(T))
  PROVE  Reverse(FlattenSeq(f)) = FlattenSeq(PartsReversed(f))
<1> DEFINE S == {s \in Seq(Seq(T)) : Reverse(FlattenSeq(s)) = FlattenSeq(PartsReversed(s))}
<1>1. <<>> \in S
  <2>1. PartsReversed(<<>>) = <<>> /\ Reverse(<<>>) = <<>>
    BY DEF PartsReversed, Reverse
  <2> QED BY <2>1, EmptySeq, FlattenEmpty
<1>2. ASSUME NEW s \in S, NEW x \in Seq(T) PROVE Append(s, x) \in S
  <2>0. PICK e \in Seq(Seq(T)) : e = Append(s, x)
    BY AppendProperties
  <2>1. Len(e) = Len(s) + 1 /\ Len(s) \in Nat /\ e[Len(s) + 1] = x /\ \A i \in 1 .. Len(s) : e[i] = s[i]
    BY <2>0, AppendProperties, LenProperties
  <2>2. Reverse(FlattenSeq(e)) = Reverse(x) \o Reverse(FlattenSeq(s))
    <3>1. FlattenSeq(e) = FlattenSeq(s) \o x
      BY <2>0, FlattenAppend
    <3> QED BY <3>1, FlattenIn, ReverseConcat
  <2>3. Reverse(x) \in Seq(T) /\ <<Reverse(x)>> \in Seq(Seq(T)) /\ Len(<<Reverse(x)>>) = 1 /\ <<Reverse(x)>>[1] = Reverse(x)
    <3>1. Reverse(x) \in Seq(T)
      BY ReverseIn
    <3> QED BY <3>1
  <2>4. PartsReversed(e) = <<Reverse(x)>> \o PartsReversed(s)
    <3> DEFINE p == PartsReversed(e)
               q == PartsReversed(s)
               o == <<Reverse(x)>>
    <3>1. p \in Seq(Seq(T)) /\ Len(p) = Len(s) + 1 /\ \A i \in 1 .. Len(s) + 1 : p[i] = Reverse(e[Len(s) + 1 + 1 - i])
      <4>1. p \in Seq(Seq(T)) /\ Len(p) = Len(e) /\ \A i \in 1 .. Len(e) : p[i] = Reverse(e[Len(e) + 1 - i])
        BY PartsReversedIn
      <4> QED BY <2>1, <4>1
    <3>2. q \in Seq(Seq(T)) /\ Len(q) = Len(s) /\ \A i \in 1 .. Len(s) : q[i] = Reverse(s[Len(s) + 1 - i])
      BY PartsReversedIn
    <3>3. o \in Seq(Seq(T)) /\ Len(o) = 1 /\ o[1] = Reverse(x)
      BY <2>3
    <3> HIDE DEF p, q, o
    <3>4. /\ o \o q \in Seq(Seq(T)) /\ Len(o \o q) = 1 + Len(s)
          /\ \A i \in 1 .. 1 + Len(s) : (o \o q)[i] = IF i <= 1 THEN o[i] ELSE q[i - 1]
      <4>1. /\ o \o q \in Seq(Seq(T)) /\ Len(o \o q) = Len(o) + Len(q)
            /\ \A i \in 1 .. Len(o) + Len(q) : (o \o q)[i] = IF i <= Len(o) THEN o[i] ELSE q[i - Len(o)]
        BY <3>2, <3>3, ConcatProperties, ZenonT(40)
      <4> QED BY <3>2, <3>3, <4>1
    <3>5. ASSUME NEW i \in 1 .. Len(s) + 1 PROVE p[i] = (o \o q)[i]
      <4>1. CASE i = 1
        <5>1. Len(s) + 1 + 1 - i = Len(s) + 1
          BY <2>1, <4>1
        <5>2. p[i] = Reverse(x)
          BY <2>1, <3>1, <5>1
        <5> QED BY <2>1, <3>3, <3>4, <4>1, <5>2
      <4>2. CASE i # 1
        <5>1. i - 1 \in 1 .. Len(s) /\ Len(s) + 1 + 1 - i = Len(s) + 1 - (i - 1) /\ Len(s) + 1 - (i - 1) \in 1 .. Len(s)
          BY <2>1, <4>2
        <5>2. p[i] = Reverse(s[Len(s) + 1 - (i - 1)])
          BY <2>1, <3>1, <5>1
        <5>3. (o \o q)[i] = q[i - 1]
          BY <2>1, <3>4, <4>2, SMTT(40)
        <5> QED BY <3>2, <5>1, <5>2, <5>3
      <4> QED BY <4>1, <4>2
    <3>6. Len(p) = Len(o \o q) /\ \A i \in 1 .. Len(p) : p[i] = (o \o q)[i]
      BY <2>1, <3>1, <3>4, <3>5
    <3>7. p = o \o q
      BY <3>1, <3>4, <3>6, SeqEqual
    <3> QED BY <3>7 DEF p, q, o
  <2>5. FlattenSeq(PartsReversed(e)) = Reverse(x) \o FlattenSeq(PartsReversed(s))
    <3>1. PartsReversed(s) \in Seq(Seq(T))
      BY PartsReversedIn
    <3>2. FlattenSeq(PartsReversed(e)) = FlattenSeq(<<Reverse(x)>>) \o FlattenSeq(PartsReversed(s))
      BY <2>3, <2>4, <3>1, FlattenConcat
    <3> QED BY <2>3, <3>2, FlattenOne
  <2> QED BY <2>0, <2>2, <2>5
<1>3. S \subseteq Seq(Seq(T))
  OBVIOUS
<1>4. f \in S
  <2> HIDE DEF S
  <2> QED BY <1>1, <1>2, <1>3, SeqInduction
<1> QED BY <1>4

(* A sequence of sequences of sequences, flattened.                        *)
Twice(g) == FlattenSeq([i \in 1 .. Len(g) |-> FlattenSeq(g[i])])
EachEach(h, g) == [i \in 1 .. Len(g) |-> [e \in 1 .. Len(g[i]) |-> Each(h, g[i][e])]]
Rows(g) == [i \in 1 .. Len(g) |-> FlattenSeq(g[i])]

LEMMA RowsIn ==
  ASSUME NEW T, NEW g \in Seq(Seq(Seq(T)))
  PROVE  /\ Rows(g) \in Seq(Seq(T)) /\ Len(Rows(g)) = Len(g)
         /\ \A i \in 1 .. Len(g) : Rows(g)[i] = FlattenSeq(g[i])
<1>1. Len(g) \in Nat /\ \A i \in 1 .. Len(g) : g[i] \in Seq(Seq(T))
  BY LenProperties, ElementOfSeq
<1>2. \A i \in 1 .. Len(g) : FlattenSeq(g[i]) \in Seq(T)
  BY <1>1, FlattenIn
<1>3. Rows(g) \in [1 .. Len(g) -> Seq(T)]
  BY <1>1, <1>2 DEF Rows
<1> QED BY <1>1, <1>3, FunctionSeq, ZenonT(40) DEF Rows

LEMMA TwiceIn ==
  ASSUME NEW T, NEW g \in Seq(Seq(Seq(T)))
  PROVE  Twice(g) \in Seq(T)
<1>1. Twice(g) = FlattenSeq(Rows(g))
  BY DEF Twice, Rows
<1> QED BY <1>1, RowsIn, FlattenIn

LEMMA EachEachIn ==
  ASSUME NEW T, NEW U, NEW h, IsMap(h, T, Seq(U)), NEW g \in Seq(Seq(Seq(T)))
  PROVE  /\ EachEach(h, g) \in Seq(Seq(Seq(U))) /\ Len(EachEach(h, g)) = Len(g)
         /\ \A i \in 1 .. Len(g) : EachEach(h, g)[i] = EachPart(h, g[i])
<1>1. Len(g) \in Nat /\ \A i \in 1 .. Len(g) : g[i] \in Seq(Seq(T))
  BY LenProperties, ElementOfSeq
<1>2. ASSUME NEW i \in 1 .. Len(g)
      PROVE  EachPart(h, g[i]) = [e \in 1 .. Len(g[i]) |-> Each(h, g[i][e])] /\ EachPart(h, g[i]) \in Seq(Seq(U))
  <2>1. g[i] \in Seq(Seq(T))
    BY <1>1
  <2>2. DOMAIN g[i] = 1 .. Len(g[i])
    BY <2>1, LenProperties
  <2>3. EachPart(h, g[i]) = [e \in 1 .. Len(g[i]) |-> Each(h, g[i][e])]
    BY <2>2 DEF EachPart
  <2>4. EachPart(h, g[i]) \in Seq(Seq(U))
    BY <2>1, EachPartIn
  <2> QED BY <2>3, <2>4
<1>3. EachEach(h, g) = [i \in 1 .. Len(g) |-> EachPart(h, g[i])]
  BY <1>2 DEF EachEach
<1>4. EachEach(h, g) \in [1 .. Len(g) -> Seq(Seq(U))]
  BY <1>2, <1>3
<1>5. EachEach(h, g) \in Seq(Seq(Seq(U))) /\ Len(EachEach(h, g)) = Len(g)
  BY <1>1, <1>4, FunctionSeq
<1> QED BY <1>3, <1>5

LEMMA EachTwice ==
  ASSUME NEW T, NEW U, NEW h, IsMap(h, T, Seq(U)), NEW g \in Seq(Seq(Seq(T)))
  PROVE  Each(h, Twice(g)) = Twice(EachEach(h, g))
<1>0. Len(g) \in Nat /\ \A i \in 1 .. Len(g) : g[i] \in Seq(Seq(T))
  BY LenProperties, ElementOfSeq
<1>1. Each(h, Twice(g)) = FlattenSeq(EachPart(h, Rows(g)))
  <2>1. Twice(g) = FlattenSeq(Rows(g))
    BY DEF Twice, Rows
  <2> QED BY <2>1, RowsIn, EachFlatten
<1> DEFINE p == EachPart(h, Rows(g))
           d == EachEach(h, g)
           q == Rows(d)
<1>2. p \in Seq(Seq(U)) /\ Len(p) = Len(g) /\ \A i \in 1 .. Len(g) : p[i] = Each(h, Rows(g)[i])
  <2>1. PICK r \in Seq(Seq(T)) : r = Rows(g) /\ Len(r) = Len(g)
    BY RowsIn
  <2>2. /\ EachPart(h, r) \in Seq(Seq(U)) /\ Len(EachPart(h, r)) = Len(r)
        /\ \A i \in 1 .. Len(r) : EachPart(h, r)[i] = Each(h, r[i])
    BY EachPartIn
  <2> QED BY <2>1, <2>2
<1>3. /\ d \in Seq(Seq(Seq(U))) /\ Len(d) = Len(g)
      /\ \A i \in 1 .. Len(g) : d[i] = EachPart(h, g[i])
  BY EachEachIn
<1>4. q \in Seq(Seq(U)) /\ Len(q) = Len(g) /\ \A i \in 1 .. Len(g) : q[i] = FlattenSeq(d[i])
  <2>1. /\ Rows(d) \in Seq(Seq(U)) /\ Len(Rows(d)) = Len(d)
        /\ \A i \in 1 .. Len(d) : Rows(d)[i] = FlattenSeq(d[i])
    <3>1. d \in Seq(Seq(Seq(U)))
      BY <1>3
    <3> HIDE DEF d
    <3> QED BY <3>1, RowsIn
  <2> QED BY <1>3, <2>1
<1>5. ASSUME NEW i \in 1 .. Len(g) PROVE p[i] = q[i]
  <2>1. g[i] \in Seq(Seq(T)) /\ Rows(g)[i] = FlattenSeq(g[i])
    BY <1>0, RowsIn
  <2>2. Each(h, FlattenSeq(g[i])) = FlattenSeq(EachPart(h, g[i]))
    BY <2>1, EachFlatten
  <2> HIDE DEF p, q, d
  <2> QED BY <1>2, <1>3, <1>4, <2>1, <2>2
<1>6. p = q
  <2> HIDE DEF p, q
  <2> QED BY <1>2, <1>4, <1>5, SeqEqual
<1>7. Twice(d) = FlattenSeq(q)
  BY DEF Twice, Rows
<1> QED BY <1>1, <1>6, <1>7

-----------------------------------------------------------------------------
(* Places: an address and the class of what is there.                      *)
Address == Seq(Nat)
Place == Address \X Nat

InsideMap(at) == [x \in Place |-> <<<<at \o x[1], x[2]>>>>]
ClassMap(cs) == [x \in Place |-> IF x[2] \in cs THEN <<x>> ELSE <<>>]

LEMMA PlaceAt ==
  ASSUME NEW at \in Address, NEW x \in Place
  PROVE  <<at \o x[1], x[2]>> \in Place /\ x[1] \in Address /\ x[2] \in Nat /\ x = <<x[1], x[2]>>
<1>1. x[1] \in Address /\ x[2] \in Nat /\ x = <<x[1], x[2]>>
  BY DEF Place
<1>2. at \o x[1] \in Address
  BY <1>1, ConcatProperties DEF Address
<1> QED BY <1>1, <1>2 DEF Place

LEMMA InsideMapIs ==
  ASSUME NEW at \in Address
  PROVE  IsMap(InsideMap(at), Place, Seq(Place))
<1>1. ASSUME NEW x \in Place PROVE <<<<at \o x[1], x[2]>>>> \in Seq(Place)
  <2>1. PICK y \in Place : y = <<at \o x[1], x[2]>>
    BY PlaceAt
  <2>2. <<y>> \in Seq(Place)
    OBVIOUS
  <2> QED BY <2>1, <2>2
<1> QED BY <1>1 DEF InsideMap, IsMap

LEMMA ClassMapIs ==
  ASSUME NEW cs
  PROVE  IsMap(ClassMap(cs), Place, Seq(Place))
<1>1. \A x \in Place : <<x>> \in Seq(Place) /\ <<>> \in Seq(Place)
  BY EmptySeq
<1> QED BY <1>1 DEF ClassMap, IsMap

LEMMA OfClassesIs ==
  ASSUME NEW cs, NEW s \in Seq(Place)
  PROVE  OfClasses(s, cs) = Each(ClassMap(cs), s)
<1>1. DOMAIN s = 1 .. Len(s) /\ \A k \in 1 .. Len(s) : s[k] \in Place
  BY LenProperties, ElementOfSeq
<1>2. \A k \in 1 .. Len(s) : ClassMap(cs)[s[k]] = IF s[k][2] \in cs THEN <<s[k]>> ELSE <<>>
  BY <1>1 DEF ClassMap
<1>3. Of(ClassMap(cs), s) = [k \in DOMAIN s |-> IF s[k][2] \in cs THEN <<s[k]>> ELSE <<>>]
  BY <1>1, <1>2 DEF Of
<1> QED BY <1>3 DEF Each, OfClasses

LEMMA InsideIn ==
  ASSUME NEW at \in Address, NEW s \in Seq(Place)
  PROVE  /\ Inside(at, s) \in Seq(Place) /\ Len(Inside(at, s)) = Len(s)
         /\ \A k \in 1 .. Len(s) : Inside(at, s)[k] = <<at \o s[k][1], s[k][2]>>
<1>1. Len(s) \in Nat /\ DOMAIN s = 1 .. Len(s) /\ \A k \in 1 .. Len(s) : s[k] \in Place
  BY LenProperties, ElementOfSeq
<1>2. Inside(at, s) \in [1 .. Len(s) -> Place]
  BY <1>1, PlaceAt DEF Inside
<1> QED BY <1>1, <1>2, FunctionSeq DEF Inside

LEMMA EachInsideConcat ==
  ASSUME NEW at \in Address, NEW s \in Seq(Place), NEW t \in Seq(Place)
  PROVE  Each(InsideMap(at), s \o t) = Each(InsideMap(at), s) \o Each(InsideMap(at), t)
BY InsideMapIs, EachConcat

LEMMA InsideIs ==
  ASSUME NEW at \in Address, NEW s \in Seq(Place)
  PROVE  Inside(at, s) = Each(InsideMap(at), s)
<1> DEFINE S == {t \in Seq(Place) : Inside(at, t) = Each(InsideMap(at), t)}
<1>1. <<>> \in S
  <2>1. Inside(at, <<>>) = <<>>
    BY DEF Inside
  <2> QED BY <2>1, EmptySeq, EachEmpty
<1>2. ASSUME NEW t \in S, NEW x \in Place PROVE Append(t, x) \in S
  <2>0. PICK e \in Seq(Place) : e = Append(t, x)
    BY AppendProperties
  <2>1. Len(e) = Len(t) + 1 /\ Len(t) \in Nat /\ e[Len(t) + 1] = x /\ \A i \in 1 .. Len(t) : e[i] = t[i]
    BY <2>0, AppendProperties, LenProperties
  <2> DEFINE y == <<at \o x[1], x[2]>>
             p == Inside(at, e)
             q == Inside(at, t)
  <2>2. y \in Place
    BY PlaceAt
  <2>3. /\ p \in Seq(Place) /\ Len(p) = Len(e) /\ \A k \in 1 .. Len(e) : p[k] = <<at \o e[k][1], e[k][2]>>
        /\ q \in Seq(Place) /\ Len(q) = Len(t) /\ \A k \in 1 .. Len(t) : q[k] = <<at \o t[k][1], t[k][2]>>
    BY InsideIn
  <2>4. Inside(at, e) = Append(Inside(at, t), y)
    <3>0. p[Len(t) + 1] = y
      <4>1. Len(t) + 1 \in 1 .. Len(e)
        BY <2>1
      <4>2. p[Len(t) + 1] = <<at \o e[Len(t) + 1][1], e[Len(t) + 1][2]>>
        BY <2>3, <4>1
      <4> HIDE DEF p
      <4> QED BY <2>1, <4>2
    <3> HIDE DEF p, q, y
    <3>1. /\ Append(q, y) \in Seq(Place) /\ Len(Append(q, y)) = Len(q) + 1 /\ Append(q, y)[Len(q) + 1] = y
          /\ \A i \in 1 .. Len(q) : Append(q, y)[i] = q[i]
      BY <2>2, <2>3, AppendProperties
    <3>2. ASSUME NEW i \in 1 .. Len(p) PROVE p[i] = Append(q, y)[i]
      <4>1. CASE i = Len(t) + 1
        BY <2>3, <3>0, <3>1, <4>1
      <4>2. CASE i # Len(t) + 1
        <5>1. i \in 1 .. Len(t) /\ i \in 1 .. Len(e)
          BY <2>1, <2>3, <4>2
        <5> QED BY <2>1, <2>3, <3>1, <5>1
      <4> QED BY <4>1, <4>2
    <3>3. Len(p) = Len(Append(q, y))
      BY <2>1, <2>3, <3>1
    <3>4. p = Append(q, y)
      BY <2>3, <3>1, <3>2, <3>3, SeqEqual
    <3> QED BY <3>4 DEF p, q
  <2>5. Append(Inside(at, t), y) = Inside(at, t) \o <<y>>
    BY <2>2, <2>3, AppendIsConcat
  <2>6. InsideMap(at)[x] = <<y>>
    BY DEF InsideMap
  <2>7. Each(InsideMap(at), e) = Each(InsideMap(at), t) \o <<y>>
    <3>1. e = t \o <<x>> /\ <<x>> \in Seq(Place)
      BY <2>0, AppendIsConcat
    <3>2. Each(InsideMap(at), <<x>>) = <<y>>
      BY <2>6, InsideMapIs, EachOne
    <3>3. Each(InsideMap(at), t \o <<x>>) = Each(InsideMap(at), t) \o Each(InsideMap(at), <<x>>)
      <4>1. t \in Seq(Place)
        OBVIOUS
      <4> QED BY ONLY <3>1, <4>1, at \in Address, EachInsideConcat
    <3> QED BY <3>1, <3>2, <3>3
  <2> QED BY <2>0, <2>4, <2>5, <2>7
<1>3. S \subseteq Seq(Place)
  OBVIOUS
<1>4. s \in S
  <2> HIDE DEF S
  <2> QED BY <1>1, <1>2, <1>3, SeqInduction
<1> QED BY <1>4

LEMMA OfClassesIn ==
  ASSUME NEW cs, NEW s \in Seq(Place)
  PROVE  OfClasses(s, cs) \in Seq(Place)
BY OfClassesIs, ClassMapIs, EachIn

LEMMA OfClassesConcat ==
  ASSUME NEW cs, NEW s \in Seq(Place), NEW t \in Seq(Place)
  PROVE  OfClasses(s \o t, cs) = OfClasses(s, cs) \o OfClasses(t, cs)
<1>1. s \o t \in Seq(Place)
  BY ConcatProperties
<1>2. Each(ClassMap(cs), s \o t) = Each(ClassMap(cs), s) \o Each(ClassMap(cs), t)
  BY ClassMapIs, EachConcat
<1> QED BY <1>1, <1>2, OfClassesIs

LEMMA InsideConcat ==
  ASSUME NEW at \in Address, NEW s \in Seq(Place), NEW t \in Seq(Place)
  PROVE  Inside(at, s \o t) = Inside(at, s) \o Inside(at, t)
<1>1. s \o t \in Seq(Place)
  BY ConcatProperties
<1>2. Each(InsideMap(at), s \o t) = Each(InsideMap(at), s) \o Each(InsideMap(at), t)
  BY EachInsideConcat
<1> QED BY <1>1, <1>2, InsideIs

LEMMA InsideInside ==
  ASSUME NEW at \in Address, NEW to \in Address, NEW s \in Seq(Place)
  PROVE  Inside(at, Inside(to, s)) = Inside(at \o to, s)
<1>0. at \o to \in Address
  BY ConcatProperties DEF Address
<1> DEFINE p == Inside(to, s)
           q == Inside(at, p)
           r == Inside(at \o to, s)
<1>1. p \in Seq(Place) /\ Len(p) = Len(s) /\ \A k \in 1 .. Len(s) : p[k] = <<to \o s[k][1], s[k][2]>>
  BY InsideIn
<1>2. r \in Seq(Place) /\ Len(r) = Len(s) /\ \A k \in 1 .. Len(s) : r[k] = <<(at \o to) \o s[k][1], s[k][2]>>
  BY <1>0, InsideIn
<1> HIDE DEF p, r
<1>3. q \in Seq(Place) /\ Len(q) = Len(p) /\ \A k \in 1 .. Len(p) : q[k] = <<at \o p[k][1], p[k][2]>>
  BY <1>1, InsideIn
<1> HIDE DEF q
<1>4. ASSUME NEW k \in 1 .. Len(q) PROVE q[k] = r[k]
  <2>1. k \in 1 .. Len(s) /\ s[k] \in Place
    BY <1>1, <1>3, ElementOfSeq
  <2>2. s[k][1] \in Address
    BY <2>1, PlaceAt
  <2>3. (at \o to) \o s[k][1] = at \o (to \o s[k][1])
    <3>1. PICK a : a = s[k][1]
      OBVIOUS
    <3>2. at \in Seq(Nat) /\ to \in Seq(Nat) /\ a \in Seq(Nat)
      BY <2>2, <3>1 DEF Address
    <3>3. (at \o to) \o a = at \o (to \o a)
      BY ONLY <3>2, ConcatAssociative, SMTT(40)
    <3> QED BY <3>1, <3>3
  <2>4. p[k][1] = to \o s[k][1] /\ p[k][2] = s[k][2]
    BY <1>1, <2>1
  <2> QED BY <1>1, <1>2, <1>3, <2>1, <2>3, <2>4, ZenonT(40)
<1>5. Len(q) = Len(r)
  BY <1>1, <1>2, <1>3
<1>6. q = r
  BY <1>2, <1>3, <1>4, <1>5, SeqEqual
<1> QED BY <1>6 DEF p, q, r

LEMMA OfClassesInside ==
  ASSUME NEW at \in Address, NEW cs, NEW s \in Seq(Place)
  PROVE  OfClasses(Inside(at, s), cs) = Inside(at, OfClasses(s, cs))
<1> DEFINE S == {t \in Seq(Place) : OfClasses(Inside(at, t), cs) = Inside(at, OfClasses(t, cs))}
<1>1. <<>> \in S
  <2>1. Inside(at, <<>>) = <<>> /\ <<>> \in Seq(Place)
    BY EmptySeq DEF Inside
  <2>2. OfClasses(<<>>, cs) = <<>>
    BY <2>1, OfClassesIs, EachEmpty
  <2> QED BY <2>1, <2>2
<1>2. ASSUME NEW t \in S, NEW x \in Place PROVE Append(t, x) \in S
  <2> DEFINE y == <<at \o x[1], x[2]>>
  <2>1. y \in Place /\ <<x>> \in Seq(Place) /\ <<y>> \in Seq(Place) /\ y[2] = x[2]
    <3>1. y \in Place
      BY PlaceAt
    <3>2. y[2] = x[2]
      OBVIOUS
    <3> HIDE DEF y
    <3> QED BY <3>1, <3>2
  <2>2. Append(t, x) = t \o <<x>> /\ Append(t, x) \in Seq(Place)
    BY <2>1, AppendIsConcat, AppendProperties
  <2>3. Inside(at, <<x>>) = <<y>>
    BY DEF Inside
  <2>4. Inside(at, t \o <<x>>) = Inside(at, t) \o <<y>>
    BY <2>1, <2>3, InsideConcat, SMTT(40), ZenonT(40)
  <2>5. ASSUME NEW z \in Place PROVE OfClasses(<<z>>, cs) = IF z[2] \in cs THEN <<z>> ELSE <<>>
    <3>1. <<z>> \in Seq(Place) /\ ClassMap(cs)[z] = IF z[2] \in cs THEN <<z>> ELSE <<>>
      BY DEF ClassMap
    <3> QED BY <3>1, OfClassesIs, ClassMapIs, EachOne
  <2>6. OfClasses(<<y>>, cs) = Inside(at, OfClasses(<<x>>, cs))
    <3>1. Inside(at, <<>>) = <<>>
      BY DEF Inside
    <3> HIDE DEF y
    <3> QED BY <2>1, <2>3, <2>5, <3>1
  <2>7. Inside(at, t) \in Seq(Place)
    BY InsideIn
  <2>8. OfClasses(Inside(at, t) \o <<y>>, cs) = OfClasses(Inside(at, t), cs) \o OfClasses(<<y>>, cs)
    BY <2>1, <2>7, OfClassesConcat
  <2>9. OfClasses(t \o <<x>>, cs) = OfClasses(t, cs) \o OfClasses(<<x>>, cs)
    BY <2>1, OfClassesConcat
  <2>10. OfClasses(t, cs) \in Seq(Place) /\ OfClasses(<<x>>, cs) \in Seq(Place)
    BY <2>1, OfClassesIn
  <2>11. Inside(at, OfClasses(t, cs) \o OfClasses(<<x>>, cs)) = Inside(at, OfClasses(t, cs)) \o Inside(at, OfClasses(<<x>>, cs))
    BY <2>10, InsideConcat
  <2> QED BY <2>2, <2>4, <2>6, <2>8, <2>9, <2>11
<1>3. S \subseteq Seq(Place)
  OBVIOUS
<1>4. s \in S
  <2> HIDE DEF S
  <2> QED BY <1>1, <1>2, <1>3, SeqInduction
<1> QED BY <1>4

LEMMA ReverseInside ==
  ASSUME NEW at \in Address, NEW s \in Seq(Place)
  PROVE  Reverse(Inside(at, s)) = Inside(at, Reverse(s))
<1> DEFINE i == Inside(at, s)
           r == Reverse(s)
           a == Reverse(i)
           b == Inside(at, r)
<1>1. i \in Seq(Place) /\ Len(i) = Len(s) /\ \A k \in 1 .. Len(s) : i[k] = <<at \o s[k][1], s[k][2]>>
  BY InsideIn
<1>2. r \in Seq(Place) /\ Len(r) = Len(s) /\ \A k \in 1 .. Len(s) : r[k] = s[Len(s) - k + 1]
  BY ReverseIn
<1> HIDE DEF i, r
<1>3. a \in Seq(Place) /\ Len(a) = Len(i) /\ \A k \in 1 .. Len(i) : a[k] = i[Len(i) - k + 1]
  BY <1>1, ReverseIn
<1>4. b \in Seq(Place) /\ Len(b) = Len(r) /\ \A k \in 1 .. Len(r) : b[k] = <<at \o r[k][1], r[k][2]>>
  BY <1>2, InsideIn
<1> HIDE DEF a, b
<1>5. ASSUME NEW k \in 1 .. Len(a) PROVE a[k] = b[k]
  <2>1. k \in 1 .. Len(s) /\ Len(s) - k + 1 \in 1 .. Len(s)
    <3>1. Len(s) \in Nat
      BY LenProperties
    <3> QED BY <1>1, <1>3, <3>1
  <2> QED BY <1>1, <1>2, <1>3, <1>4, <2>1
<1>6. Len(a) = Len(b)
  BY <1>1, <1>2, <1>3, <1>4
<1>7. a = b
  BY <1>3, <1>4, <1>5, <1>6, SeqEqual
<1> QED BY <1>7 DEF a, b, i, r

(* The last place of s at address a has class v; s has none there.         *)
Leaves(s, a, v) == \E k \in 1 .. Len(s) : s[k] = <<a, v>> /\ \A j \in k + 1 .. Len(s) : s[j][1] # a
Silent(s, a) == \A j \in 1 .. Len(s) : s[j][1] # a
Among(x, s) == \E k \in 1 .. Len(s) : s[k] = x

Joined(w, s, t) ==
  /\ Len(w) = Len(s) + Len(t) /\ Len(s) \in Nat /\ Len(t) \in Nat
  /\ \A k \in 1 .. Len(s) : k \in 1 .. Len(w) /\ w[k] = s[k]
  /\ \A k \in 1 .. Len(t) : Len(s) + k \in 1 .. Len(w) /\ w[Len(s) + k] = t[k]
  /\ \A k \in 1 .. Len(w) : k \in 1 .. Len(s) \/ k - Len(s) \in 1 .. Len(t)

LEMMA ConcatJoins ==
  ASSUME NEW T, NEW s \in Seq(T), NEW t \in Seq(T)
  PROVE  Joined(s \o t, s, t)
<1>1. PICK w : w = s \o t
  OBVIOUS
<1>2. /\ Len(w) = Len(s) + Len(t) /\ Len(s) \in Nat /\ Len(t) \in Nat
      /\ \A i \in 1 .. Len(s) + Len(t) : w[i] = IF i <= Len(s) THEN s[i] ELSE t[i - Len(s)]
  BY <1>1, ConcatProperties, LenProperties
<1>3. ASSUME NEW k \in 1 .. Len(s) PROVE k \in 1 .. Len(w) /\ w[k] = s[k]
  BY <1>2
<1>4. ASSUME NEW k \in 1 .. Len(t) PROVE Len(s) + k \in 1 .. Len(w) /\ w[Len(s) + k] = t[k]
  <2>1. Len(s) + k \in 1 .. Len(s) + Len(t) /\ ~(Len(s) + k <= Len(s)) /\ Len(s) + k - Len(s) = k
    BY <1>2
  <2> QED BY <1>2, <2>1
<1>5. \A k \in 1 .. Len(w) : k \in 1 .. Len(s) \/ k - Len(s) \in 1 .. Len(t)
  BY <1>2
<1> QED BY <1>1, <1>2, <1>3, <1>4, <1>5 DEF Joined

LEMMA JoinedLeaves ==
  ASSUME NEW w, NEW s, NEW t, Joined(w, s, t), NEW a, NEW v
  PROVE  /\ Leaves(t, a, v) => Leaves(w, a, v)
         /\ Leaves(s, a, v) /\ Silent(t, a) => Leaves(w, a, v)
         /\ Silent(w, a) <=> Silent(s, a) /\ Silent(t, a)
         /\ Leaves(w, a, v) => Leaves(t, a, v) \/ (Leaves(s, a, v) /\ Silent(t, a))
<1> USE DEF Joined
<1>1. ASSUME Leaves(t, a, v) PROVE Leaves(w, a, v)
  <2>1. PICK k \in 1 .. Len(t) : t[k] = <<a, v>> /\ \A j \in k + 1 .. Len(t) : t[j][1] # a
    BY <1>1 DEF Leaves
  <2>2. Len(s) + k \in 1 .. Len(w) /\ w[Len(s) + k] = <<a, v>>
    BY <2>1
  <2>3. ASSUME NEW j \in Len(s) + k + 1 .. Len(w) PROVE w[j][1] # a
    <3>1. j - Len(s) \in k + 1 .. Len(t) /\ j - Len(s) \in 1 .. Len(t) /\ j = Len(s) + (j - Len(s))
      OBVIOUS
    <3>2. w[j] = t[j - Len(s)]
      BY <3>1
    <3> QED BY <2>1, <3>1, <3>2
  <2> QED BY <2>2, <2>3 DEF Leaves
<1>2. ASSUME Leaves(s, a, v), Silent(t, a) PROVE Leaves(w, a, v)
  <2>1. PICK k \in 1 .. Len(s) : s[k] = <<a, v>> /\ \A j \in k + 1 .. Len(s) : s[j][1] # a
    BY <1>2 DEF Leaves
  <2>2. k \in 1 .. Len(w) /\ w[k] = <<a, v>>
    BY <2>1
  <2>3. ASSUME NEW j \in k + 1 .. Len(w) PROVE w[j][1] # a
    <3>1. CASE j \in 1 .. Len(s)
      <4>1. j \in k + 1 .. Len(s) /\ w[j] = s[j]
        BY <3>1
      <4> QED BY <2>1, <4>1
    <3>2. CASE j - Len(s) \in 1 .. Len(t)
      <4>1. w[j] = t[j - Len(s)]
        <5>1. j = Len(s) + (j - Len(s))
          OBVIOUS
        <5> QED BY <3>2, <5>1
      <4> QED BY <1>2, <3>2, <4>1 DEF Silent
    <3>3. j \in 1 .. Len(w)
      OBVIOUS
    <3> QED BY <3>1, <3>2, <3>3
  <2> QED BY <2>2, <2>3 DEF Leaves
<1>3. Silent(w, a) <=> Silent(s, a) /\ Silent(t, a)
  <2>1. ASSUME Silent(w, a) PROVE Silent(s, a) /\ Silent(t, a)
    BY <2>1 DEF Silent
  <2>2. ASSUME Silent(s, a), Silent(t, a), NEW j \in 1 .. Len(w) PROVE w[j][1] # a
    <3>1. CASE j \in 1 .. Len(s)
      BY <2>2, <3>1 DEF Silent
    <3>2. CASE j - Len(s) \in 1 .. Len(t)
      <4>1. j = Len(s) + (j - Len(s))
        OBVIOUS
      <4>2. w[j] = t[j - Len(s)]
        BY <3>2, <4>1
      <4> QED BY <2>2, <3>2, <4>2 DEF Silent
    <3> QED BY <3>1, <3>2
  <2> QED BY <2>1, <2>2 DEF Silent
<1>4. ASSUME Leaves(w, a, v), ~ Leaves(t, a, v) PROVE Leaves(s, a, v) /\ Silent(t, a)
  <2>1. PICK k \in 1 .. Len(w) : w[k] = <<a, v>> /\ \A j \in k + 1 .. Len(w) : w[j][1] # a
    BY <1>4 DEF Leaves
  <2>2. ~ (k - Len(s) \in 1 .. Len(t))
    <3> SUFFICES ASSUME k - Len(s) \in 1 .. Len(t) PROVE FALSE
      OBVIOUS
    <3>1. k = Len(s) + (k - Len(s))
      OBVIOUS
    <3>2. t[k - Len(s)] = <<a, v>>
      BY <2>1, <3>1
    <3>3. ASSUME NEW j \in k - Len(s) + 1 .. Len(t) PROVE t[j][1] # a
      <4>1. Len(s) + j \in k + 1 .. Len(w) /\ j \in 1 .. Len(t)
        OBVIOUS
      <4> QED BY <2>1, <4>1
    <3> QED BY <1>4, <3>2, <3>3 DEF Leaves
  <2>3. k \in 1 .. Len(s) /\ s[k] = <<a, v>>
    BY <2>1, <2>2
  <2>4. ASSUME NEW j \in k + 1 .. Len(s) PROVE s[j][1] # a
    <3>1. j \in k + 1 .. Len(w) /\ j \in 1 .. Len(s)
      BY <2>3
    <3> QED BY <2>1, <3>1
  <2>5. ASSUME NEW j \in 1 .. Len(t) PROVE t[j][1] # a
    <3>1. Len(s) + j \in k + 1 .. Len(w)
      BY <2>3
    <3> QED BY <2>1, <3>1
  <2> QED BY <2>3, <2>4, <2>5 DEF Leaves, Silent
<1> QED BY <1>1, <1>2, <1>3, <1>4

LEMMA LeavesConcat ==
  ASSUME NEW T, NEW s \in Seq(T), NEW t \in Seq(T), NEW a, NEW v
  PROVE  /\ Leaves(t, a, v) => Leaves(s \o t, a, v)
         /\ Leaves(s, a, v) /\ Silent(t, a) => Leaves(s \o t, a, v)
         /\ Silent(s \o t, a) <=> Silent(s, a) /\ Silent(t, a)
         /\ Leaves(s \o t, a, v) => Leaves(t, a, v) \/ (Leaves(s, a, v) /\ Silent(t, a))
<1>1. PICK w : w = s \o t
  OBVIOUS
<1>2. Joined(w, s, t)
  BY <1>1, ConcatJoins
<1> QED BY <1>1, <1>2, JoinedLeaves

LEMMA AmongConcat ==
  ASSUME NEW T, NEW s \in Seq(T), NEW t \in Seq(T), NEW x
  PROVE  Among(x, s \o t) <=> Among(x, s) \/ Among(x, t)
<1>1. PICK w : w = s \o t
  OBVIOUS
<1>2. Joined(w, s, t)
  BY <1>1, ConcatJoins
<1>3. ASSUME Among(x, s) \/ Among(x, t) PROVE Among(x, w)
  BY <1>2, <1>3 DEF Joined, Among
<1>4. ASSUME Among(x, w) PROVE Among(x, s) \/ Among(x, t)
  <2>1. PICK k \in 1 .. Len(w) : w[k] = x
    BY <1>4 DEF Among
  <2>2. CASE k \in 1 .. Len(s)
    BY <1>2, <2>1, <2>2 DEF Joined, Among
  <2>3. CASE k - Len(s) \in 1 .. Len(t)
    <3>1. k = Len(s) + (k - Len(s))
      BY <1>2 DEF Joined
    <3>2. t[k - Len(s)] = x
      BY <1>2, <2>1, <2>3, <3>1 DEF Joined
    <3> QED BY <2>3, <3>2 DEF Among
  <2> QED BY <1>2, <2>2, <2>3 DEF Joined
<1> QED BY <1>1, <1>3, <1>4

LEMMA AmongSeq ==
  ASSUME NEW T, NEW s \in Seq(T), NEW x, Among(x, s)
  PROVE  x \in T
BY ElementOfSeq DEF Among

LEMMA SameAfter ==
  ASSUME NEW at \in Address, NEW p \in Address, NEW q \in Address, at \o p = at \o q
  PROVE  p = q
<1>1. at \in Seq(Nat) /\ p \in Seq(Nat) /\ q \in Seq(Nat)
  BY DEF Address
<1> QED BY <1>1, ConcatSimplifications

LEMMA LeavesInside ==
  ASSUME NEW at \in Address, NEW s \in Seq(Place), NEW p \in Address, NEW v
  PROVE  /\ Leaves(s, p, v) => Leaves(Inside(at, s), at \o p, v)
         /\ Among(<<p, v>>, s) => Among(<<at \o p, v>>, Inside(at, s))
<1> DEFINE i == Inside(at, s)
<1>1. Len(i) = Len(s) /\ \A k \in 1 .. Len(s) : i[k] = <<at \o s[k][1], s[k][2]>>
  BY InsideIn
<1>2. \A k \in 1 .. Len(s) : s[k] \in Place /\ s[k][1] \in Address
  <2>1. \A k \in 1 .. Len(s) : s[k] \in Place
    BY ElementOfSeq
  <2> QED BY <2>1, PlaceAt
<1> HIDE DEF i
<1>3. ASSUME Leaves(s, p, v) PROVE Leaves(i, at \o p, v)
  <2>1. PICK k \in 1 .. Len(s) : s[k] = <<p, v>> /\ \A j \in k + 1 .. Len(s) : s[j][1] # p
    BY <1>3 DEF Leaves
  <2>2. i[k] = <<at \o p, v>>
    BY <1>1, <2>1, SMTT(40)
  <2>3. ASSUME NEW j \in k + 1 .. Len(s) PROVE i[j][1] # at \o p
    <3>1. j \in 1 .. Len(s)
      <4>1. Len(s) \in Nat
        BY LenProperties
      <4> QED BY <4>1
    <3>2. i[j][1] = at \o s[j][1]
      <4>1. i[j] = <<at \o s[j][1], s[j][2]>>
        BY <1>1, <3>1
      <4> QED BY <4>1
    <3>3. s[j][1] \in Address /\ s[j][1] # p
      BY <1>2, <2>1, <3>1
    <3> QED BY <3>2, <3>3, SameAfter
  <2> QED BY <1>1, <2>2, <2>3 DEF Leaves
<1>4. ASSUME Among(<<p, v>>, s) PROVE Among(<<at \o p, v>>, i)
  <2>1. PICK k \in 1 .. Len(s) : s[k] = <<p, v>>
    BY <1>4 DEF Among
  <2>2. i[k] = <<at \o p, v>>
    BY <1>1, <2>1
  <2> QED BY <1>1, <2>2 DEF Among
<1> QED BY <1>3, <1>4 DEF i

LEMMA SeqSilent ==
  ASSUME NEW a, NEW T, \A x \in T : x[1] # a, NEW s \in Seq(T)
  PROVE  Silent(s, a)
BY ElementOfSeq DEF Silent

(* The members of a class, by their number and element.                    *)
FieldsBelow(c) == [shape : AlikeShapes, class : 1 .. c - 1]
MemberCount(f) == IF Owns(f.shape) THEN Elements(f.shape) ELSE 0
GridOf(F, fs, c) ==
  [i \in 1 .. Len(fs) |-> [e \in 1 .. MemberCount(fs[i]) |-> Inside(Part(<<>>, c, i, e), F[fs[i].class])]]

PlacesOf(c) == {x \in Place : x[2] \in 1 .. c /\ (x[1] # <<>> => x[1][1] \in 1 .. c)}
Fits(F, fs) == Len(fs) \in Nat /\ \A i \in 1 .. Len(fs) : F[fs[i].class] \in Seq(Place)
Below(F, c) == \A b \in 1 .. c - 1 : F[b] \in Seq(PlacesOf(b))

(* Address a begins with element e of member i of class c.                 *)
Starts(a, c, i, e) == Len(a) >= 3 /\ a[1] = c /\ a[2] = i /\ a[3] = e
Beside(c, i, e) == {x \in Place : ~ Starts(x[1], c, i, e)}
MembersOf(F, fs, c) ==
  {x \in Place : \E i \in 1 .. Len(fs) : \E e \in 1 .. MemberCount(fs[i]) : \E y \in Place :
     /\ Among(y, F[fs[i].class])
     /\ x = <<Part(<<>>, c, i, e) \o y[1], y[2]>>}

LEMMA CountIs ==
  ASSUME NEW f
  PROVE  MemberCount(f) \in Nat /\ (Owns(f.shape) => MemberCount(f) # 0)
<1>1. ArrayLen \in Nat \ {0}
  BY ProgramAssumption
<1>2. Elements(f.shape) \in Nat \ {0}
  <2>1. CASE f.shape \in {"array", "const array"}
    BY <1>1, <2>1 DEF Elements
  <2>2. CASE ~ (f.shape \in {"array", "const array"})
    <3>1. Elements(f.shape) = 1
      BY <2>2, Zenon DEF Elements
    <3> QED BY <3>1
  <2> QED BY <2>1, <2>2
<1> QED BY <1>2 DEF MemberCount

LEMMA PartIs ==
  ASSUME NEW c \in Nat, NEW i \in Nat, NEW e \in Nat
  PROVE  /\ Part(<<>>, c, i, e) \in Address /\ Part(<<>>, c, i, e) = <<c, i, e>>
         /\ \A at \in Address : Part(at, c, i, e) = at \o <<c, i, e>> /\ Part(at, c, i, e) \in Address
<1>1. <<c, i, e>> \in Seq(Nat)
  OBVIOUS
<1>2. Part(<<>>, c, i, e) = <<c, i, e>>
  BY <1>1, ConcatEmptySeq DEF Part
<1>3. ASSUME NEW at \in Address PROVE at \o <<c, i, e>> \in Address
  <2>1. at \in Seq(Nat)
    BY DEF Address
  <2> QED BY <1>1, <2>1, ConcatProperties DEF Address
<1> QED BY <1>1, <1>2, <1>3 DEF Part, Address

LEMMA StartsIs ==
  ASSUME NEW c \in Nat, NEW i \in Nat, NEW e \in Nat, NEW a \in Address
  PROVE  /\ Starts(<<c, i, e>> \o a, c, i, e)
         /\ <<c, i, e>> \o a \in Address /\ <<c, i, e>> \o a # <<>> /\ (<<c, i, e>> \o a)[1] = c
<1>1. PICK t : t = <<c, i, e>>
  OBVIOUS
<1>2. t \in Seq(Nat) /\ Len(t) = 3 /\ t[1] = c /\ t[2] = i /\ t[3] = e
  BY <1>1
<1>3. a \in Seq(Nat)
  BY DEF Address
<1>4. PICK w : w = t \o a
  OBVIOUS
<1>5. Joined(w, t, a) /\ w \in Seq(Nat)
  BY <1>2, <1>3, <1>4, ConcatJoins, ConcatProperties
<1>6. Len(w) = 3 + Len(a) /\ Len(a) \in Nat /\ \A k \in 1 .. 3 : w[k] = t[k]
  BY <1>2, <1>5 DEF Joined
<1>7. w[1] = c /\ w[2] = i /\ w[3] = e /\ Len(w) >= 3
  BY <1>2, <1>6
<1>8. w # <<>>
  BY <1>7
<1> QED BY <1>1, <1>4, <1>5, <1>7, <1>8 DEF Starts, Address

LEMMA OneMember ==
  ASSUME NEW F, NEW c \in Nat, NEW fs, Fits(F, fs),
         NEW i \in 1 .. Len(fs), NEW e \in 1 .. MemberCount(fs[i])
  PROVE  LET m == Inside(Part(<<>>, c, i, e), F[fs[i].class])
         IN  /\ m \in Seq(Place) /\ m \in Seq(MembersOf(F, fs, c))
             /\ F[fs[i].class] \in Seq(Place)
             /\ \A x \in Place : Among(x, m) => Starts(x[1], c, i, e)
<1>1. i \in Nat /\ e \in Nat
  <2>1. Len(fs) \in Nat /\ MemberCount(fs[i]) \in Nat
    BY CountIs DEF Fits
  <2> QED BY <2>1
<1>2. PICK s \in Seq(Place) : s = F[fs[i].class]
  BY DEF Fits
<1>5. PICK at \in Address : at = Part(<<>>, c, i, e) /\ at = <<c, i, e>>
  BY <1>1, PartIs
<1>6. PICK m : m = Inside(at, s)
  OBVIOUS
<1>7. m \in Seq(Place) /\ Len(m) = Len(s) /\ \A k \in 1 .. Len(s) : m[k] = <<at \o s[k][1], s[k][2]>>
  BY <1>6, InsideIn
<1>8. ASSUME NEW k \in 1 .. Len(m)
      PROVE  m[k] \in MembersOf(F, fs, c) /\ Starts(m[k][1], c, i, e)
  <2>1. PICK y \in Place : y = s[k]
    BY <1>7, ElementOfSeq
  <2>2. y[1] \in Address
    BY PlaceAt
  <2>3. m[k] = <<at \o y[1], y[2]>>
    BY <1>7, <2>1
  <2>4. Starts(at \o y[1], c, i, e)
    BY <1>1, <1>5, <2>2, StartsIs
  <2>5. m[k] \in Place
    BY <1>7, ElementOfSeq
  <2>6. m[k][1] = at \o y[1]
    BY <2>3
  <2>7. Among(y, s)
    BY <1>7, <2>1 DEF Among
  <2>8. m[k] \in MembersOf(F, fs, c)
    BY <1>2, <1>5, <2>3, <2>5, <2>7 DEF MembersOf
  <2> QED BY <2>4, <2>6, <2>8
<1>9. m \in Seq(MembersOf(F, fs, c))
  <2>1. Len(m) \in Nat /\ m = [k \in 1 .. Len(m) |-> m[k]]
    BY <1>7, LenProperties
  <2>2. m \in [1 .. Len(m) -> MembersOf(F, fs, c)]
    BY <1>8, <2>1
  <2> QED BY <2>1, <2>2, FunctionSeq
<1>10. \A x \in Place : Among(x, m) => Starts(x[1], c, i, e)
  BY <1>8 DEF Among
<1> QED BY <1>2, <1>5, <1>6, <1>7, <1>9, <1>10

LEMMA OneBelow ==
  ASSUME NEW F, NEW c \in Nat \ {0}, NEW fs, Fits(F, fs), Below(F, c),
         NEW i \in 1 .. Len(fs), fs[i].class \in 1 .. c - 1, NEW e \in 1 .. MemberCount(fs[i])
  PROVE  Inside(Part(<<>>, c, i, e), F[fs[i].class]) \in Seq(PlacesOf(c))
<1>1. i \in Nat /\ e \in Nat
  <2>1. Len(fs) \in Nat /\ MemberCount(fs[i]) \in Nat
    BY CountIs DEF Fits
  <2> QED BY <2>1
<1>2. PICK b \in 1 .. c - 1 : b = fs[i].class
  OBVIOUS
<1>3. PICK s \in Seq(PlacesOf(b)) : s = F[b]
  BY DEF Below
<1>4. s \in Seq(Place)
  BY <1>2, <1>3 DEF Fits
<1>5. PICK at \in Address : at = Part(<<>>, c, i, e) /\ at = <<c, i, e>>
  BY <1>1, PartIs
<1>6. PICK m : m = Inside(at, s)
  OBVIOUS
<1>7. m \in Seq(Place) /\ Len(m) = Len(s) /\ \A k \in 1 .. Len(s) : m[k] = <<at \o s[k][1], s[k][2]>>
  BY <1>4, <1>6, InsideIn
<1>8. ASSUME NEW k \in 1 .. Len(m) PROVE m[k] \in PlacesOf(c)
  <2>1. PICK y \in PlacesOf(b) : y = s[k]
    BY <1>7, ElementOfSeq
  <2>2. y \in Place /\ y[2] \in 1 .. b /\ y[1] \in Address
    BY <2>1, PlaceAt DEF PlacesOf
  <2>3. m[k] = <<at \o y[1], y[2]>>
    BY <1>7, <2>1
  <2>4. (at \o y[1])[1] = c
    BY <1>1, <1>5, <2>2, StartsIs
  <2>5. m[k] \in Place
    BY <1>7, ElementOfSeq
  <2>6. m[k][1] = at \o y[1] /\ m[k][2] = y[2]
    BY <2>3, SMTT(40)
  <2>7. y[2] \in 1 .. c /\ c \in 1 .. c
    BY <2>2
  <2> QED BY <2>4, <2>5, <2>6, <2>7 DEF PlacesOf
<1>9. m \in Seq(PlacesOf(c))
  <2>1. Len(m) \in Nat /\ m = [k \in 1 .. Len(m) |-> m[k]]
    BY <1>7, LenProperties
  <2>2. m \in [1 .. Len(m) -> PlacesOf(c)]
    BY <1>8, <2>1
  <2> QED BY <2>1, <2>2, FunctionSeq
<1> QED BY <1>2, <1>3, <1>5, <1>6, <1>9

LEMMA GridIn ==
  ASSUME NEW F, NEW c, NEW fs, Len(fs) \in Nat,
         NEW T, \A i \in 1 .. Len(fs) : \A e \in 1 .. MemberCount(fs[i]) :
                  Inside(Part(<<>>, c, i, e), F[fs[i].class]) \in Seq(T)
  PROVE  LET g == GridOf(F, fs, c)
         IN  /\ g \in Seq(Seq(Seq(T))) /\ Len(g) = Len(fs) /\ Len(fs) \in Nat
             /\ \A i \in 1 .. Len(fs) :
                  /\ g[i] \in Seq(Seq(T)) /\ Len(g[i]) = MemberCount(fs[i])
                  /\ \A e \in 1 .. MemberCount(fs[i]) : g[i][e] = Inside(Part(<<>>, c, i, e), F[fs[i].class])
<1> DEFINE g == GridOf(F, fs, c)
<1>1. ASSUME NEW i \in 1 .. Len(fs)
      PROVE  /\ g[i] = [e \in 1 .. MemberCount(fs[i]) |-> Inside(Part(<<>>, c, i, e), F[fs[i].class])]
             /\ g[i] \in Seq(Seq(T)) /\ Len(g[i]) = MemberCount(fs[i])
  <2>1. g[i] = [e \in 1 .. MemberCount(fs[i]) |-> Inside(Part(<<>>, c, i, e), F[fs[i].class])]
    BY DEF GridOf
  <2> HIDE DEF g
  <2>2. g[i] \in [1 .. MemberCount(fs[i]) -> Seq(T)]
    BY <2>1
  <2> QED BY <2>1, <2>2, CountIs, FunctionSeq
<1>2. Len(fs) \in Nat
  BY LenProperties
<1>3. g \in [1 .. Len(fs) -> Seq(Seq(T))]
  <2>1. g = [i \in 1 .. Len(fs) |-> g[i]]
    BY DEF GridOf
  <2> HIDE DEF g
  <2> QED BY <1>1, <2>1
<1>4. g \in Seq(Seq(Seq(T))) /\ Len(g) = Len(fs)
  <2> HIDE DEF g
  <2> QED BY <1>2, <1>3, FunctionSeq
<1>5. ASSUME NEW i \in 1 .. Len(fs), NEW e \in 1 .. MemberCount(fs[i])
      PROVE  g[i][e] = Inside(Part(<<>>, c, i, e), F[fs[i].class])
  <2> HIDE DEF g
  <2> QED BY <1>1
<1> HIDE DEF g
<1>6. /\ g \in Seq(Seq(Seq(T))) /\ Len(g) = Len(fs) /\ Len(fs) \in Nat
      /\ \A i \in 1 .. Len(fs) :
                  /\ g[i] \in Seq(Seq(T)) /\ Len(g[i]) = MemberCount(fs[i])
                  /\ \A e \in 1 .. MemberCount(fs[i]) : g[i][e] = Inside(Part(<<>>, c, i, e), F[fs[i].class])
  BY <1>1, <1>2, <1>4, <1>5
<1> QED BY <1>6 DEF g

(* What the grid has, flattened.                                           *)
LEMMA GridPlaces ==
  ASSUME NEW F, NEW c \in Nat, NEW fs, Fits(F, fs)
  PROVE  LET m == Twice(GridOf(F, fs, c))
         IN  m \in Seq(Place) /\ m \in Seq(MembersOf(F, fs, c))
<1> DEFINE Each1(T) == \A i \in 1 .. Len(fs) : \A e \in 1 .. MemberCount(fs[i]) :
                          Inside(Part(<<>>, c, i, e), F[fs[i].class]) \in Seq(T)
<1>1. Each1(Place) /\ Each1(MembersOf(F, fs, c))
  BY OneMember
<1>2. ASSUME NEW T, Each1(T) PROVE Twice(GridOf(F, fs, c)) \in Seq(T)
  <2>1. GridOf(F, fs, c) \in Seq(Seq(Seq(T)))
    BY <1>2, GridIn DEF Fits
  <2> QED BY <2>1, TwiceIn
<1> QED BY <1>1, <1>2

LEMMA GridBelow ==
  ASSUME NEW F, NEW c \in Nat \ {0}, NEW fs, Fits(F, fs), Below(F, c),
         \A i \in 1 .. Len(fs) : fs[i].class \in 1 .. c - 1
  PROVE  Twice(GridOf(F, fs, c)) \in Seq(PlacesOf(c))
<1>1. \A i \in 1 .. Len(fs) : \A e \in 1 .. MemberCount(fs[i]) :
        Inside(Part(<<>>, c, i, e), F[fs[i].class]) \in Seq(PlacesOf(c))
  BY OneBelow
<1>2. GridOf(F, fs, c) \in Seq(Seq(Seq(PlacesOf(c))))
  BY <1>1, GridIn DEF Fits
<1> QED BY <1>2, TwiceIn

Regrouped(a, b, m, d, z) == (a \o ((b \o m) \o d)) \o z = ((a \o b) \o m) \o (d \o z)

LEMMA Regroup ==
  ASSUME NEW T, NEW a, NEW b, NEW m, NEW d, NEW z,
         a \in Seq(T) /\ b \in Seq(T) /\ m \in Seq(T), d \in Seq(T) /\ z \in Seq(T)
  PROVE  Regrouped(a, b, m, d, z)
<1>1. PICK bm : bm = b \o m
  OBVIOUS
<1>2. PICK abm : abm = (a \o b) \o m
  OBVIOUS
<1>3. a \o b \in Seq(T) /\ bm \in Seq(T) /\ abm \in Seq(T)
  <2>1. a \o b \in Seq(T) /\ bm \in Seq(T)
    BY <1>1, ConcatProperties
  <2>2. PICK ab \in Seq(T) : ab = a \o b
    BY <2>1
  <2>3. abm = ab \o m
    BY <1>2, <2>2
  <2> QED BY <2>1, <2>3, ConcatProperties
<1>4. a \o bm = abm
  <2>1. a \in Seq(T) /\ b \in Seq(T) /\ m \in Seq(T)
    OBVIOUS
  <2>2. (a \o b) \o m = a \o (b \o m)
    BY ONLY <2>1, ConcatAssociative
  <2> QED BY ONLY <1>1, <1>2, <2>2
<1>5. a \o (bm \o d) = abm \o d
  <2>1. a \in Seq(T) /\ bm \in Seq(T) /\ d \in Seq(T)
    BY <1>3
  <2>2. (a \o bm) \o d = a \o (bm \o d)
    BY ONLY <2>1, ConcatAssociative
  <2> QED BY ONLY <1>4, <2>2
<1>6. (abm \o d) \o z = abm \o (d \o z)
  <2>1. abm \in Seq(T) /\ d \in Seq(T) /\ z \in Seq(T)
    BY <1>3
  <2> QED BY ONLY <2>1, ConcatAssociative
<1> QED BY ONLY <1>1, <1>2, <1>5, <1>6 DEF Regrouped

(* One member in the grid, and behind it none that begins like it.         *)
LEMMA GridAround ==
  ASSUME NEW F, NEW c \in Nat, NEW fs, Fits(F, fs),
         NEW i \in 1 .. Len(fs), NEW e \in 1 .. MemberCount(fs[i])
  PROVE  \E u \in Seq(Place), v \in Seq(Beside(c, i, e)) :
           /\ Twice(GridOf(F, fs, c)) = (u \o Inside(Part(<<>>, c, i, e), F[fs[i].class])) \o v
           /\ v \in Seq(Place)
<1>1. PICK g : g = GridOf(F, fs, c)
  OBVIOUS
<1>2. /\ g \in Seq(Seq(Seq(Place))) /\ Len(g) = Len(fs) /\ Len(fs) \in Nat
      /\ \A j \in 1 .. Len(fs) :
           /\ g[j] \in Seq(Seq(Place)) /\ Len(g[j]) = MemberCount(fs[j])
           /\ \A k \in 1 .. MemberCount(fs[j]) : g[j][k] = Inside(Part(<<>>, c, j, k), F[fs[j].class])
  <2>1. \A j \in 1 .. Len(fs) : \A k \in 1 .. MemberCount(fs[j]) :
                          Inside(Part(<<>>, c, j, k), F[fs[j].class]) \in Seq(Place)
    BY OneMember
  <2> QED BY <1>1, <2>1, GridIn DEF Fits
<1>3. MemberCount(fs[i]) \in Nat
  BY CountIs
<1>4. ASSUME NEW j \in 1 .. Len(fs), NEW k \in 1 .. MemberCount(fs[j]), j # i \/ k # e
      PROVE  g[j][k] \in Seq(Beside(c, i, e))
  <2>1. PICK m \in Seq(Place) : m = g[j][k] /\ \A x \in Place : Among(x, m) => Starts(x[1], c, j, k)
    BY <1>2, OneMember, ZenonT(100)
  <2>2. Len(m) \in Nat /\ m = [n \in 1 .. Len(m) |-> m[n]]
    BY LenProperties
  <2>3. ASSUME NEW n \in 1 .. Len(m) PROVE m[n] \in Beside(c, i, e)
    <3>1. m[n] \in Place /\ Among(m[n], m)
      BY ElementOfSeq DEF Among
    <3>2. Starts(m[n][1], c, j, k)
      BY <2>1, <3>1
    <3> QED BY <1>4, <3>1, <3>2 DEF Beside, Starts
  <2>4. m \in [1 .. Len(m) -> Beside(c, i, e)]
    BY <2>2, <2>3
  <2> QED BY <2>1, <2>2, <2>4, FunctionSeq
<1>5. PICK r \in Seq(Seq(Place)) : r = Rows(g) /\ Len(r) = Len(fs) /\ \A j \in 1 .. Len(fs) : r[j] = FlattenSeq(g[j])
  BY <1>2, RowsIn
<1>6. Twice(g) = FlattenSeq(r)
  BY <1>5 DEF Twice, Rows
<1> DEFINE a == SubSeq(r, 1, i - 1)
           b == SubSeq(r, i + 1, Len(r))
           s == g[i]
           a2 == SubSeq(s, 1, e - 1)
           b2 == SubSeq(s, e + 1, Len(s))
<1>7. /\ FlattenSeq(r) = (FlattenSeq(a) \o r[i]) \o FlattenSeq(b)
      /\ a \in Seq(Seq(Place)) /\ b \in Seq(Seq(Place)) /\ r[i] \in Seq(Place)
  BY <1>5, FlattenAround
<1>8. /\ FlattenSeq(s) = (FlattenSeq(a2) \o s[e]) \o FlattenSeq(b2)
      /\ a2 \in Seq(Seq(Place)) /\ b2 \in Seq(Seq(Place)) /\ s[e] \in Seq(Place)
  <2>1. s \in Seq(Seq(Place)) /\ e \in 1 .. Len(s)
    BY <1>2
  <2> HIDE DEF s
  <2> QED BY <2>1, FlattenAround
<1>9. b \in Seq(Seq(Beside(c, i, e)))
  <2>1. ASSUME NEW j \in i + 1 .. Len(r) PROVE r[j] \in Seq(Beside(c, i, e))
    <3>1. j \in 1 .. Len(fs) /\ j # i /\ r[j] = FlattenSeq(g[j])
      BY <1>2, <1>5
    <3>2. g[j] \in [1 .. Len(g[j]) -> Seq(Beside(c, i, e))]
      <4>1. g[j] = [k \in 1 .. Len(g[j]) |-> g[j][k]]
        BY <1>2, <3>1, LenProperties
      <4>2. \A k \in 1 .. Len(g[j]) : g[j][k] \in Seq(Beside(c, i, e))
        BY <1>2, <1>4, <3>1
      <4> QED BY <4>1, <4>2
    <3>3. g[j] \in Seq(Seq(Beside(c, i, e)))
      <4>1. Len(g[j]) \in Nat
        BY <1>2, <3>1, CountIs
      <4> QED BY <3>2, <4>1, FunctionSeq
    <3> QED BY <3>1, <3>3, FlattenIn
  <2>2. i + 1 \in Int /\ Len(r) \in Int
    BY <1>2, <1>5
  <2> QED BY <2>1, <2>2, SubSeqProperties
<1>10. b2 \in Seq(Seq(Beside(c, i, e)))
  <2>1. ASSUME NEW k \in e + 1 .. Len(s) PROVE s[k] \in Seq(Beside(c, i, e))
    <3>1. k \in 1 .. MemberCount(fs[i]) /\ k # e
      BY <1>2, <1>3
    <3> QED BY <1>4, <3>1
  <2>2. e + 1 \in Int /\ Len(s) \in Int
    BY <1>2, <1>3
  <2> QED BY <2>1, <2>2, SubSeqProperties
<1>11. s[e] = Inside(Part(<<>>, c, i, e), F[fs[i].class])
  BY <1>2
<1>12. r[i] = FlattenSeq(s)
  BY <1>5
<1> HIDE DEF a, b, a2, b2, s
<1>13. PICK A \in Seq(Place), B \in Seq(Place), A2 \in Seq(Place), B2 \in Seq(Place) :
        A = FlattenSeq(a) /\ B = FlattenSeq(b) /\ A2 = FlattenSeq(a2) /\ B2 = FlattenSeq(b2)
  BY <1>7, <1>8, FlattenIn
<1>14. B \in Seq(Beside(c, i, e)) /\ B2 \in Seq(Beside(c, i, e))
  BY <1>9, <1>10, <1>13, FlattenIn
<1>15. Twice(g) = ((A \o A2) \o s[e]) \o (B2 \o B)
  <2>1. Twice(g) = (A \o ((A2 \o s[e]) \o B2)) \o B
    BY <1>6, <1>7, <1>8, <1>12, <1>13
  <2>2. PICK m \in Seq(Place) : m = s[e]
    BY <1>8
  <2>3. (A \o ((A2 \o m) \o B2)) \o B = ((A \o A2) \o m) \o (B2 \o B)
    <3>1. Regrouped(A, A2, m, B2, B)
      BY Regroup
    <3> QED BY ONLY <3>1 DEF Regrouped
  <2> QED BY <2>1, <2>2, <2>3
<1>16. A \o A2 \in Seq(Place) /\ B2 \o B \in Seq(Place) /\ B2 \o B \in Seq(Beside(c, i, e))
  BY <1>14, ConcatProperties
<1> QED BY <1>1, <1>11, <1>15, <1>16

LEMMA GridLeaves ==
  ASSUME NEW F, NEW c \in Nat, NEW fs, Fits(F, fs),
         NEW i \in 1 .. Len(fs), NEW e \in 1 .. MemberCount(fs[i]), NEW q \in Address, NEW v
  PROVE  LET m == Twice(GridOf(F, fs, c))
             at == Part(<<>>, c, i, e)
         IN  /\ Leaves(F[fs[i].class], q, v) => Leaves(m, at \o q, v)
             /\ Among(<<q, v>>, F[fs[i].class]) => Among(<<at \o q, v>>, m)
<1>1. i \in Nat /\ e \in Nat
  <2>1. Len(fs) \in Nat /\ MemberCount(fs[i]) \in Nat
    BY CountIs DEF Fits
  <2> QED BY <2>1
<1>2. PICK at \in Address : at = Part(<<>>, c, i, e) /\ at = <<c, i, e>>
  BY <1>1, PartIs
<1>3. PICK s \in Seq(Place) : s = F[fs[i].class] /\ Inside(at, s) \in Seq(Place)
  BY <1>2, OneMember
<1>4. PICK u \in Seq(Place), w \in Seq(Beside(c, i, e)) :
        Twice(GridOf(F, fs, c)) = (u \o Inside(at, s)) \o w /\ w \in Seq(Place)
  <2>1. \E u \in Seq(Place), w \in Seq(Beside(c, i, e)) :
           /\ Twice(GridOf(F, fs, c)) = (u \o Inside(Part(<<>>, c, i, e), F[fs[i].class])) \o w
           /\ w \in Seq(Place)
    BY GridAround, ZenonT(40)
  <2> QED BY <1>2, <1>3, <2>1
<1>5. Silent(w, at \o q)
  <2>1. Starts(at \o q, c, i, e)
    BY <1>1, <1>2, StartsIs
  <2>2. \A x \in Beside(c, i, e) : x[1] # at \o q
    BY <2>1 DEF Beside
  <2> QED BY <2>2, SeqSilent
<1>6. PICK z \in Seq(Place) : z = Inside(at, s)
  BY <1>3
<1>7. u \o z \in Seq(Place)
  BY ConcatProperties
<1>8. ASSUME Leaves(s, q, v) PROVE Leaves((u \o z) \o w, at \o q, v)
  <2>1. Leaves(z, at \o q, v)
    BY <1>6, <1>8, LeavesInside
  <2>2. Leaves(u \o z, at \o q, v)
    BY <2>1, LeavesConcat
  <2> QED BY <1>4, <1>5, <1>7, <2>2, LeavesConcat
<1>9. ASSUME Among(<<q, v>>, s) PROVE Among(<<at \o q, v>>, (u \o z) \o w)
  <2>1. Among(<<at \o q, v>>, z)
    BY <1>6, <1>9, LeavesInside
  <2>2. Among(<<at \o q, v>>, u \o z)
    BY <2>1, AmongConcat
  <2> QED BY <1>4, <1>7, <2>2, AmongConcat
<1> QED BY <1>2, <1>3, <1>4, <1>6, <1>8, <1>9

(* The members of the object at an address.                                *)
Placed(at, F, fs, c) ==
  [i \in 1 .. Len(fs) |-> [e \in 1 .. MemberCount(fs[i]) |-> Inside(Part(at, c, i, e), F[fs[i].class])]]

PlacedIs(g, at, F, fs, c) ==
  /\ g \in Seq(Seq(Seq(Place))) /\ Len(g) = Len(fs) /\ Len(fs) \in Nat
  /\ \A i \in 1 .. Len(fs) :
       /\ g[i] \in Seq(Seq(Place)) /\ Len(g[i]) = MemberCount(fs[i])
       /\ \A e \in 1 .. MemberCount(fs[i]) : g[i][e] = Inside(Part(at, c, i, e), F[fs[i].class])

LEMMA FieldNumbers ==
  ASSUME NEW F, NEW fs, Fits(F, fs), NEW i \in 1 .. Len(fs), NEW e \in 1 .. MemberCount(fs[i])
  PROVE  i \in Nat /\ e \in Nat /\ F[fs[i].class] \in Seq(Place)
<1>1. Len(fs) \in Nat /\ MemberCount(fs[i]) \in Nat /\ F[fs[i].class] \in Seq(Place)
  BY CountIs DEF Fits
<1> QED BY <1>1

LEMMA PlacedIn ==
  ASSUME NEW at \in Address, NEW F, NEW c \in Nat, NEW fs, Fits(F, fs)
  PROVE  PlacedIs(Placed(at, F, fs, c), at, F, fs, c)
<1>1. PICK g : g = Placed(at, F, fs, c)
  OBVIOUS
<1>2. Len(fs) \in Nat
  BY DEF Fits
<1>3. ASSUME NEW i \in 1 .. Len(fs), NEW e \in 1 .. MemberCount(fs[i])
      PROVE  Inside(Part(at, c, i, e), F[fs[i].class]) \in Seq(Place)
  <2>1. i \in Nat /\ e \in Nat /\ F[fs[i].class] \in Seq(Place)
    BY FieldNumbers
  <2>2. Part(at, c, i, e) \in Address
    BY <2>1, PartIs
  <2> QED BY <2>1, <2>2, InsideIn
<1>4. ASSUME NEW i \in 1 .. Len(fs)
      PROVE  /\ g[i] = [e \in 1 .. MemberCount(fs[i]) |-> Inside(Part(at, c, i, e), F[fs[i].class])]
             /\ g[i] \in Seq(Seq(Place)) /\ Len(g[i]) = MemberCount(fs[i])
  <2>1. g[i] = [e \in 1 .. MemberCount(fs[i]) |-> Inside(Part(at, c, i, e), F[fs[i].class])]
    BY <1>1 DEF Placed
  <2>2. g[i] \in [1 .. MemberCount(fs[i]) -> Seq(Place)]
    BY <1>3, <2>1
  <2> QED BY <2>1, <2>2, CountIs, FunctionSeq
<1>5. g = [i \in 1 .. Len(fs) |-> g[i]]
  BY <1>1 DEF Placed
<1>6. g \in [1 .. Len(fs) -> Seq(Seq(Place))]
  BY <1>4, <1>5
<1>7. g \in Seq(Seq(Seq(Place))) /\ Len(g) = Len(fs)
  BY <1>2, <1>6, FunctionSeq
<1>8. ASSUME NEW i \in 1 .. Len(fs), NEW e \in 1 .. MemberCount(fs[i])
      PROVE  g[i][e] = Inside(Part(at, c, i, e), F[fs[i].class])
  BY <1>4
<1> QED BY <1>1, <1>2, <1>4, <1>7, <1>8 DEF PlacedIs

LEMMA PartAfter ==
  ASSUME NEW at \in Address, NEW c \in Nat, NEW i \in Nat, NEW e \in Nat
  PROVE  at \o Part(<<>>, c, i, e) = Part(at, c, i, e)
<1>1. Part(<<>>, c, i, e) = <<c, i, e>>
  BY PartIs
<1> QED BY <1>1 DEF Part

LEMMA EmptyAddress == <<>> \in Address
BY EmptySeq DEF Address

LEMMA GridInside ==
  ASSUME NEW at \in Address, NEW F, NEW c \in Nat, NEW fs, Fits(F, fs)
  PROVE  /\ Inside(at, Twice(GridOf(F, fs, c))) = Twice(Placed(at, F, fs, c))
         /\ Twice(GridOf(F, fs, c)) \in Seq(Place)
<1>1. PICK g : g = GridOf(F, fs, c)
  OBVIOUS
<1>2. /\ g \in Seq(Seq(Seq(Place))) /\ Len(g) = Len(fs) /\ Len(fs) \in Nat
      /\ \A i \in 1 .. Len(fs) :
                  /\ g[i] \in Seq(Seq(Place)) /\ Len(g[i]) = MemberCount(fs[i])
                  /\ \A e \in 1 .. MemberCount(fs[i]) : g[i][e] = Inside(Part(<<>>, c, i, e), F[fs[i].class])
  <2>1. \A i \in 1 .. Len(fs) : \A e \in 1 .. MemberCount(fs[i]) :
                          Inside(Part(<<>>, c, i, e), F[fs[i].class]) \in Seq(Place)
    BY OneMember
  <2> QED BY <1>1, <2>1, GridIn DEF Fits
<1>3. Twice(g) \in Seq(Place)
  BY <1>2, TwiceIn
<1>4. Inside(at, Twice(g)) = Twice(EachEach(InsideMap(at), g))
  <2>1. Inside(at, Twice(g)) = Each(InsideMap(at), Twice(g))
    BY <1>3, InsideIs
  <2>2. Each(InsideMap(at), Twice(g)) = Twice(EachEach(InsideMap(at), g))
    BY <1>2, InsideMapIs, EachTwice
  <2> QED BY <2>1, <2>2
<1>5. ASSUME NEW i \in 1 .. Len(fs), NEW e \in 1 .. MemberCount(fs[i])
      PROVE  Each(InsideMap(at), g[i][e]) = Inside(Part(at, c, i, e), F[fs[i].class])
  <2>1. i \in Nat /\ e \in Nat
    BY FieldNumbers
  <2>2. PICK s \in Seq(Place) : s = F[fs[i].class]
    BY FieldNumbers
  <2>3. PICK to \in Address : to = Part(<<>>, c, i, e) /\ at \o to = Part(at, c, i, e)
    BY <2>1, PartIs, PartAfter, SMTT(40), ZenonT(40)
  <2>4. PICK t \in Seq(Place) : t = Inside(to, s)
    BY InsideIn
  <2>5. Each(InsideMap(at), t) = Inside(at, t)
    BY InsideIs
  <2>6. Inside(at, Inside(to, s)) = Inside(at \o to, s)
    BY InsideInside
  <2>7. g[i][e] = t
    BY <1>2, <2>2, <2>3, <2>4
  <2> QED BY ONLY <2>2, <2>3, <2>4, <2>5, <2>6, <2>7
<1>6. EachEach(InsideMap(at), g) = Placed(at, F, fs, c)
  <2>1. ASSUME NEW i \in 1 .. Len(fs)
        PROVE  [e \in 1 .. Len(g[i]) |-> Each(InsideMap(at), g[i][e])]
                 = [e \in 1 .. MemberCount(fs[i]) |-> Inside(Part(at, c, i, e), F[fs[i].class])]
    <3>1. Len(g[i]) = MemberCount(fs[i])
      BY <1>2
    <3> QED BY <1>5, <3>1
  <2> QED BY <1>2, <2>1 DEF EachEach, Placed
<1> QED BY <1>1, <1>3, <1>4, <1>6

LEMMA GridClasses ==
  ASSUME NEW cs, NEW F, NEW G, NEW c \in Nat, NEW fs, Fits(F, fs),
         \A i \in 1 .. Len(fs) : G[fs[i].class] = OfClasses(F[fs[i].class], cs)
  PROVE  OfClasses(Twice(GridOf(F, fs, c)), cs) = Twice(GridOf(G, fs, c)) /\ Fits(G, fs)
<1>1. PICK g : g = GridOf(F, fs, c)
  OBVIOUS
<1>2. /\ g \in Seq(Seq(Seq(Place))) /\ Len(g) = Len(fs) /\ Len(fs) \in Nat
      /\ \A i \in 1 .. Len(fs) :
                  /\ g[i] \in Seq(Seq(Place)) /\ Len(g[i]) = MemberCount(fs[i])
                  /\ \A e \in 1 .. MemberCount(fs[i]) : g[i][e] = Inside(Part(<<>>, c, i, e), F[fs[i].class])
  <2>1. \A i \in 1 .. Len(fs) : \A e \in 1 .. MemberCount(fs[i]) :
                          Inside(Part(<<>>, c, i, e), F[fs[i].class]) \in Seq(Place)
    BY OneMember
  <2> QED BY <1>1, <2>1, GridIn DEF Fits
<1>3. Twice(g) \in Seq(Place)
  BY <1>2, TwiceIn
<1>4. OfClasses(Twice(g), cs) = Twice(EachEach(ClassMap(cs), g))
  <2>1. OfClasses(Twice(g), cs) = Each(ClassMap(cs), Twice(g))
    BY <1>3, OfClassesIs
  <2>2. Each(ClassMap(cs), Twice(g)) = Twice(EachEach(ClassMap(cs), g))
    BY <1>2, ClassMapIs, EachTwice
  <2> QED BY <2>1, <2>2
<1>5. ASSUME NEW i \in 1 .. Len(fs), NEW e \in 1 .. MemberCount(fs[i])
      PROVE  Each(ClassMap(cs), g[i][e]) = Inside(Part(<<>>, c, i, e), G[fs[i].class])
  <2>1. i \in Nat /\ e \in Nat
    BY FieldNumbers
  <2>2. PICK s \in Seq(Place) : s = F[fs[i].class]
    BY FieldNumbers
  <2>3. PICK to \in Address : to = Part(<<>>, c, i, e)
    BY <2>1, PartIs
  <2>4. PICK t \in Seq(Place) : t = Inside(to, s)
    BY InsideIn
  <2>5. Each(ClassMap(cs), t) = OfClasses(t, cs)
    BY OfClassesIs
  <2>6. OfClasses(Inside(to, s), cs) = Inside(to, OfClasses(s, cs))
    BY OfClassesInside
  <2>7. g[i][e] = t
    BY <1>2, <2>2, <2>3, <2>4
  <2>8. G[fs[i].class] = OfClasses(s, cs)
    BY <2>2
  <2> QED BY ONLY <2>3, <2>4, <2>5, <2>6, <2>7, <2>8
<1>6. EachEach(ClassMap(cs), g) = GridOf(G, fs, c)
  <2>1. ASSUME NEW i \in 1 .. Len(fs)
        PROVE  [e \in 1 .. Len(g[i]) |-> Each(ClassMap(cs), g[i][e])]
                 = [e \in 1 .. MemberCount(fs[i]) |-> Inside(Part(<<>>, c, i, e), G[fs[i].class])]
    <3>1. Len(g[i]) = MemberCount(fs[i])
      BY <1>2
    <3> QED BY <1>5, <3>1
  <2> QED BY <1>2, <2>1 DEF EachEach, GridOf
<1>7. Fits(G, fs)
  <2>1. \A i \in 1 .. Len(fs) : OfClasses(F[fs[i].class], cs) \in Seq(Place)
    BY OfClassesIn DEF Fits
  <2> QED BY <1>2, <2>1 DEF Fits
<1> QED BY <1>1, <1>4, <1>6, <1>7

-----------------------------------------------------------------------------
(* Statements.                                                             *)
Ops == {"ctor", "ctor body", "vtable", "use", "dtor", "dtor body", "delete"}
Statement == [op : Ops, at : Address, class : Nat]

CallGrid(at, fs, c) ==
  [i \in 1 .. Len(fs) |-> [e \in 1 .. MemberCount(fs[i]) |-> Initialise(Part(at, c, i, e), fs[i].class)]]

LEMMA CallGridIn ==
  ASSUME NEW at \in Address, NEW c \in Nat, NEW fs, Len(fs) \in Nat, NEW T,
         \A i \in 1 .. Len(fs) : \A a \in Address : Initialise(a, fs[i].class) \in Seq(T)
  PROVE  LET g == CallGrid(at, fs, c)
         IN  /\ g \in Seq(Seq(Seq(T))) /\ Len(g) = Len(fs) /\ Len(fs) \in Nat
             /\ \A i \in 1 .. Len(fs) :
                  /\ g[i] \in Seq(Seq(T)) /\ Len(g[i]) = MemberCount(fs[i])
                  /\ \A e \in 1 .. MemberCount(fs[i]) : g[i][e] = Initialise(Part(at, c, i, e), fs[i].class)
<1>1. PICK g : g = CallGrid(at, fs, c)
  OBVIOUS
<1>3. ASSUME NEW i \in 1 .. Len(fs), NEW e \in 1 .. MemberCount(fs[i])
      PROVE  Initialise(Part(at, c, i, e), fs[i].class) \in Seq(T)
  <2>1. i \in Nat /\ e \in Nat
    <3>1. MemberCount(fs[i]) \in Nat
      BY CountIs
    <3> QED BY <3>1
  <2>2. Part(at, c, i, e) \in Address
    BY <2>1, PartIs
  <2> QED BY <2>2
<1>4. ASSUME NEW i \in 1 .. Len(fs)
      PROVE  /\ g[i] = [e \in 1 .. MemberCount(fs[i]) |-> Initialise(Part(at, c, i, e), fs[i].class)]
             /\ g[i] \in Seq(Seq(T)) /\ Len(g[i]) = MemberCount(fs[i])
  <2>1. g[i] = [e \in 1 .. MemberCount(fs[i]) |-> Initialise(Part(at, c, i, e), fs[i].class)]
    BY <1>1 DEF CallGrid
  <2>2. g[i] \in [1 .. MemberCount(fs[i]) -> Seq(T)]
    BY <1>3, <2>1
  <2> QED BY <2>1, <2>2, CountIs, FunctionSeq
<1>5. g = [i \in 1 .. Len(fs) |-> g[i]]
  BY <1>1 DEF CallGrid
<1>6. g \in [1 .. Len(fs) -> Seq(Seq(T))]
  BY <1>4, <1>5
<1>7. g \in Seq(Seq(Seq(T))) /\ Len(g) = Len(fs)
  BY <1>6, FunctionSeq
<1>8. ASSUME NEW i \in 1 .. Len(fs), NEW e \in 1 .. MemberCount(fs[i])
      PROVE  g[i][e] = Initialise(Part(at, c, i, e), fs[i].class)
  BY <1>4
<1> QED BY <1>1, <1>4, <1>7, <1>8

LEMMA CallsPlace ==
  ASSUME NEW at \in Address, NEW F, NEW c \in Nat, NEW fs, Fits(F, fs),
         NEW h, IsMap(h, Statement, Seq(Place)),
         \A i \in 1 .. Len(fs) : \A a \in Address :
           /\ Initialise(a, fs[i].class) \in Seq(Statement)
           /\ Each(h, Initialise(a, fs[i].class)) = Inside(a, F[fs[i].class])
  PROVE  /\ Each(h, Twice(CallGrid(at, fs, c))) = Inside(at, Twice(GridOf(F, fs, c)))
         /\ Twice(CallGrid(at, fs, c)) \in Seq(Statement)
<1>1. PICK g : g = CallGrid(at, fs, c)
  OBVIOUS
<1>2. /\ g \in Seq(Seq(Seq(Statement))) /\ Len(g) = Len(fs) /\ Len(fs) \in Nat
      /\ \A i \in 1 .. Len(fs) :
                  /\ g[i] \in Seq(Seq(Statement)) /\ Len(g[i]) = MemberCount(fs[i])
                  /\ \A e \in 1 .. MemberCount(fs[i]) : g[i][e] = Initialise(Part(at, c, i, e), fs[i].class)
  <2>1. Len(fs) \in Nat
    BY DEF Fits
  <2> QED BY <1>1, <2>1, CallGridIn
<1>3. Each(h, Twice(g)) = Twice(EachEach(h, g)) /\ Twice(g) \in Seq(Statement)
  BY <1>2, EachTwice, TwiceIn
<1>5. ASSUME NEW i \in 1 .. Len(fs), NEW e \in 1 .. MemberCount(fs[i])
      PROVE  Each(h, g[i][e]) = Inside(Part(at, c, i, e), F[fs[i].class])
  <2>1. i \in Nat /\ e \in Nat
    BY FieldNumbers
  <2>2. Part(at, c, i, e) \in Address
    BY <2>1, PartIs
  <2> QED BY <1>2, <2>2
<1>6. EachEach(h, g) = Placed(at, F, fs, c)
  <2>1. ASSUME NEW i \in 1 .. Len(fs)
        PROVE  [e \in 1 .. Len(g[i]) |-> Each(h, g[i][e])]
                 = [e \in 1 .. MemberCount(fs[i]) |-> Inside(Part(at, c, i, e), F[fs[i].class])]
    <3>1. Len(g[i]) = MemberCount(fs[i])
      BY <1>2
    <3> QED BY <1>5, <3>1
  <2> QED BY <1>2, <2>1 DEF EachEach, Placed
<1> QED BY <1>1, <1>3, <1>6, GridInside

DtorRow(at, c, i, class, n) == [j \in 1 .. n |-> Perform("dtor", Part(at, c, i, n + 1 - j), class)]
PlaceRow(at, c, i, s, n) == [e \in 1 .. n |-> Inside(Part(at, c, i, e), s)]

DtorRowIs(d, at, c, i, class, n) ==
  /\ d \in Seq(Statement) /\ Len(d) = n
  /\ \A j \in 1 .. n : d[j] = Perform("dtor", Part(at, c, i, n + 1 - j), class)

LEMMA PlaceRowIn ==
  ASSUME NEW at \in Address, NEW c \in Nat, NEW i \in Nat, NEW n \in Nat, NEW s \in Seq(Place)
  PROVE  /\ PlaceRow(at, c, i, s, n) \in Seq(Seq(Place)) /\ Len(PlaceRow(at, c, i, s, n)) = n
         /\ \A e \in 1 .. n : PlaceRow(at, c, i, s, n)[e] = Inside(Part(at, c, i, e), s)
<1>1. ASSUME NEW e \in 1 .. n PROVE Inside(Part(at, c, i, e), s) \in Seq(Place)
  <2>0. e \in Nat
    OBVIOUS
  <2>1. Part(at, c, i, e) \in Address
    BY <2>0, PartIs
  <2> QED BY <2>1, InsideIn
<1>2. PlaceRow(at, c, i, s, n) \in [1 .. n -> Seq(Place)]
  BY <1>1 DEF PlaceRow
<1> QED BY <1>2, FunctionSeq DEF PlaceRow

LEMMA PerformIn ==
  ASSUME NEW o \in Ops, NEW at \in Address, NEW c \in Nat
  PROVE  /\ Perform(o, at, c) \in Statement /\ Perform(o, at, c).op = o
         /\ Perform(o, at, c).at = at /\ Perform(o, at, c).class = c
BY DEF Perform, Statement

LEMMA DtorRowIn ==
  ASSUME NEW at \in Address, NEW c \in Nat, NEW i \in Nat, NEW n \in Nat, NEW class \in Nat
  PROVE  DtorRowIs(DtorRow(at, c, i, class, n), at, c, i, class, n)
<1>1. ASSUME NEW j \in 1 .. n PROVE Perform("dtor", Part(at, c, i, n + 1 - j), class) \in Statement
  <2>1. n + 1 - j \in Nat /\ "dtor" \in Ops
    BY DEF Ops
  <2>2. Part(at, c, i, n + 1 - j) \in Address
    BY <2>1, PartIs
  <2> QED BY <2>1, <2>2, PerformIn
<1>2. DtorRow(at, c, i, class, n) \in [1 .. n -> Statement]
  BY <1>1 DEF DtorRow
<1>3. DtorRow(at, c, i, class, n) \in Seq(Statement) /\ Len(DtorRow(at, c, i, class, n)) = n
  BY <1>2, FunctionSeq
<1> QED BY <1>3 DEF DtorRow, DtorRowIs

LEMMA DtorRowPlaces ==
  ASSUME NEW at \in Address, NEW c \in Nat, NEW i \in Nat, NEW n \in Nat, NEW class \in Nat, NEW s \in Seq(Place),
         NEW h, IsMap(h, Statement, Seq(Place)),
         \A a \in Address : h[Perform("dtor", a, class)] = Inside(a, Reverse(s))
  PROVE  Each(h, DtorRow(at, c, i, class, n)) = Reverse(FlattenSeq(PlaceRow(at, c, i, s, n)))
<1>a. PICK d : d = DtorRow(at, c, i, class, n)
  OBVIOUS
<1>b. PICK r : r = PlaceRow(at, c, i, s, n)
  OBVIOUS
<1>1. /\ d \in Seq(Statement) /\ Len(d) = n
      /\ \A j \in 1 .. n : d[j] = Perform("dtor", Part(at, c, i, n + 1 - j), class)
  <2>1. DtorRowIs(DtorRow(at, c, i, class, n), at, c, i, class, n)
    BY DtorRowIn
  <2> QED BY ONLY <1>a, <2>1 DEF DtorRowIs
<1>2. /\ r \in Seq(Seq(Place)) /\ Len(r) = n
      /\ \A e \in 1 .. n : r[e] = Inside(Part(at, c, i, e), s)
  <2>1. /\ PlaceRow(at, c, i, s, n) \in Seq(Seq(Place)) /\ Len(PlaceRow(at, c, i, s, n)) = n
        /\ \A e \in 1 .. n : PlaceRow(at, c, i, s, n)[e] = Inside(Part(at, c, i, e), s)
    BY ONLY at \in Address, c \in Nat, i \in Nat, n \in Nat, s \in Seq(Place), PlaceRowIn, ZenonT(40)
  <2> QED BY ONLY <1>b, <2>1
<1>3. /\ Of(h, d) \in Seq(Seq(Place)) /\ Len(Of(h, d)) = n
      /\ \A j \in 1 .. n : Of(h, d)[j] = h[d[j]]
  <2>1. d \in Seq(Statement) /\ Len(d) = n
    BY <1>1
  <2>2. IsMap(h, Statement, Seq(Place))
    OBVIOUS
  <2> QED BY ONLY <2>1, <2>2, OfIn
<1>4. /\ PartsReversed(r) \in Seq(Seq(Place)) /\ Len(PartsReversed(r)) = n
      /\ \A j \in 1 .. n : PartsReversed(r)[j] = Reverse(r[n + 1 - j])
  <2>1. r \in Seq(Seq(Place)) /\ Len(r) = n
    BY <1>2
  <2> QED BY ONLY <2>1, PartsReversedIn
<1>5. ASSUME NEW j \in 1 .. n PROVE Of(h, d)[j] = PartsReversed(r)[j]
  <2>1. n + 1 - j \in Nat /\ n + 1 - j \in 1 .. n
    OBVIOUS
  <2>2. PICK a \in Address : a = Part(at, c, i, n + 1 - j)
    BY <2>1, PartIs
  <2>3. Reverse(Inside(a, s)) = Inside(a, Reverse(s))
    BY ReverseInside
  <2>4. Of(h, d)[j] = Inside(a, Reverse(s))
    BY <1>1, <1>3, <2>2
  <2>5. PartsReversed(r)[j] = Reverse(Inside(a, s))
    BY <1>2, <1>4, <2>1, <2>2
  <2> QED BY ONLY <2>3, <2>4, <2>5
<1>6. Of(h, d) = PartsReversed(r)
  BY <1>3, <1>4, <1>5, SeqEqual
<1>7. Reverse(FlattenSeq(r)) = FlattenSeq(PartsReversed(r))
  BY <1>2, ReverseFlatten
<1> QED BY <1>a, <1>b, <1>6, <1>7 DEF Each

LEMMA FlattenNothing ==
  ASSUME NEW f, Len(f) \in Nat, f = [k \in 1 .. Len(f) |-> <<>>]
  PROVE  FlattenSeq(f) = <<>>
<1>1. <<>> \in Seq({})
  BY EmptySeq
<1>2. f \in [1 .. Len(f) -> Seq({})]
  BY <1>1
<1>3. f \in Seq(Seq({}))
  BY <1>2, FunctionSeq
<1>4. FlattenSeq(f) \in Seq({})
  BY <1>3, FlattenIn
<1>5. \A s \in Seq({}) : s = <<>>
  <2> TAKE s \in Seq({})
  <2>1. Len(s) = 0
    <3> SUFFICES ASSUME Len(s) # 0 PROVE FALSE
      OBVIOUS
    <3>1. 1 \in 1 .. Len(s)
      BY LenProperties
    <3> QED BY <3>1, ElementOfSeq
  <2> QED BY <2>1, EmptySeq
<1> QED BY <1>4, <1>5

DtorCalls(at, fs, c, live) ==
  [k \in 1 .. Len(fs) |->
     DtorRow(at, c, Len(fs) + 1 - k, fs[Len(fs) + 1 - k].class,
             IF Len(fs) + 1 - k \in live THEN MemberCount(fs[Len(fs) + 1 - k]) ELSE 0)]

LEMMA DtorCallsIn ==
  ASSUME NEW at \in Address, NEW c \in Nat, NEW fs, Len(fs) \in Nat, NEW live,
         \A i \in 1 .. Len(fs) : fs[i].class \in Nat
  PROVE  LET d == DtorCalls(at, fs, c, live)
         IN  /\ d \in Seq(Seq(Statement)) /\ Len(d) = Len(fs)
             /\ \A k \in 1 .. Len(fs) : \A i : i = Len(fs) + 1 - k =>
                  d[k] = DtorRow(at, c, i, fs[i].class, IF i \in live THEN MemberCount(fs[i]) ELSE 0)
<1>1. ASSUME NEW k \in 1 .. Len(fs)
      PROVE  DtorRow(at, c, Len(fs) + 1 - k, fs[Len(fs) + 1 - k].class,
               IF Len(fs) + 1 - k \in live THEN MemberCount(fs[Len(fs) + 1 - k]) ELSE 0) \in Seq(Statement)
  <2>1. PICK i \in 1 .. Len(fs) : i = Len(fs) + 1 - k
    BY ONLY Len(fs) \in Nat, k \in 1 .. Len(fs)
  <2>2. (IF i \in live THEN MemberCount(fs[i]) ELSE 0) \in Nat /\ i \in Nat
    BY CountIs
  <2>3. DtorRow(at, c, i, fs[i].class, IF i \in live THEN MemberCount(fs[i]) ELSE 0) \in Seq(Statement)
    BY <2>2, DtorRowIn DEF DtorRowIs
  <2> QED BY <2>1, <2>3
<1>2. DtorCalls(at, fs, c, live) \in [1 .. Len(fs) -> Seq(Statement)]
  BY <1>1 DEF DtorCalls
<1>3. DtorCalls(at, fs, c, live) \in Seq(Seq(Statement)) /\ Len(DtorCalls(at, fs, c, live)) = Len(fs)
  BY ONLY Len(fs) \in Nat, <1>2, FunctionSeq
<1>4. ASSUME NEW k \in 1 .. Len(fs), NEW i, i = Len(fs) + 1 - k
      PROVE  DtorCalls(at, fs, c, live)[k]
               = DtorRow(at, c, i, fs[i].class, IF i \in live THEN MemberCount(fs[i]) ELSE 0)
  <2>1. DtorCalls(at, fs, c, live)[k]
          = DtorRow(at, c, Len(fs) + 1 - k, fs[Len(fs) + 1 - k].class,
              IF Len(fs) + 1 - k \in live THEN MemberCount(fs[Len(fs) + 1 - k]) ELSE 0)
    BY ONLY k \in 1 .. Len(fs) DEF DtorCalls
  <2> QED BY ONLY <1>4, <2>1
<1> QED BY ONLY <1>3, <1>4

LEMMA DtorsPlace ==
  ASSUME NEW at \in Address, NEW F, NEW c \in Nat, NEW fs, Fits(F, fs), NEW live,
         NEW h, IsMap(h, Statement, Seq(Place)),
         \A i \in 1 .. Len(fs) : fs[i].class \in Nat,
         \A i \in 1 .. Len(fs) : \A a \in Address :
           h[Perform("dtor", a, fs[i].class)] = Inside(a, Reverse(F[fs[i].class])),
         \A i \in 1 .. Len(fs) : i \notin live => MemberCount(fs[i]) = 0 \/ F[fs[i].class] = <<>>
  PROVE  /\ Each(h, FlattenSeq(DtorCalls(at, fs, c, live))) = Inside(at, Reverse(Twice(GridOf(F, fs, c))))
         /\ FlattenSeq(DtorCalls(at, fs, c, live)) \in Seq(Statement)
<1>0. Len(fs) \in Nat
  BY DEF Fits
<1>1. PICK d : /\ d = DtorCalls(at, fs, c, live)
               /\ d \in Seq(Seq(Statement)) /\ Len(d) = Len(fs)
               /\ \A k \in 1 .. Len(fs) : \A i : i = Len(fs) + 1 - k =>
                    d[k] = DtorRow(at, c, i, fs[i].class, IF i \in live THEN MemberCount(fs[i]) ELSE 0)
  BY <1>0, DtorCallsIn
<1>a. PICK p : p = Placed(at, F, fs, c)
  OBVIOUS
<1>2. /\ p = Placed(at, F, fs, c)
               /\ p \in Seq(Seq(Seq(Place))) /\ Len(p) = Len(fs)
               /\ \A i \in 1 .. Len(fs) :
                  /\ p[i] \in Seq(Seq(Place)) /\ Len(p[i]) = MemberCount(fs[i])
                  /\ \A e \in 1 .. MemberCount(fs[i]) : p[i][e] = Inside(Part(at, c, i, e), F[fs[i].class])
  <2>1. Fits(F, fs)
    OBVIOUS
  <2>2. PlacedIs(Placed(at, F, fs, c), at, F, fs, c)
    BY PlacedIn
  <2> QED BY ONLY <1>a, <2>2 DEF PlacedIs
<1>3. PICK r \in Seq(Seq(Place)) : r = Rows(p) /\ Len(r) = Len(fs) /\ \A i \in 1 .. Len(fs) : r[i] = FlattenSeq(p[i])
  BY <1>2, RowsIn
<1>4. Twice(p) = FlattenSeq(r)
  BY <1>3 DEF Twice, Rows
<1>5. /\ PartsReversed(r) \in Seq(Seq(Place)) /\ Len(PartsReversed(r)) = Len(fs)
      /\ \A k \in 1 .. Len(fs) : PartsReversed(r)[k] = Reverse(r[Len(fs) + 1 - k])
  BY <1>3, PartsReversedIn
<1>6. /\ EachPart(h, d) \in Seq(Seq(Place)) /\ Len(EachPart(h, d)) = Len(fs)
      /\ \A k \in 1 .. Len(fs) : EachPart(h, d)[k] = Each(h, d[k])
  BY <1>1, EachPartIn
<1>7. ASSUME NEW k \in 1 .. Len(fs) PROVE EachPart(h, d)[k] = PartsReversed(r)[k]
  <2>1. PICK i \in 1 .. Len(fs) : i = Len(fs) + 1 - k
    BY <1>0
  <2>2. PICK n \in Nat : n = MemberCount(fs[i])
    BY CountIs
  <2>3. PICK s \in Seq(Place) : s = F[fs[i].class]
    BY DEF Fits
  <2>4. PICK class \in Nat : class = fs[i].class
    OBVIOUS
  <2>5. i \in Nat
    BY <1>0
  <2>6. PartsReversed(r)[k] = Reverse(FlattenSeq(p[i]))
    BY <1>3, <1>5, <2>1
  <2>7. p[i] = PlaceRow(at, c, i, s, n)
    <3>1. /\ PlaceRow(at, c, i, s, n) \in Seq(Seq(Place)) /\ Len(PlaceRow(at, c, i, s, n)) = n
          /\ \A e \in 1 .. n : PlaceRow(at, c, i, s, n)[e] = Inside(Part(at, c, i, e), s)
      BY ONLY <2>5, at \in Address, c \in Nat, n \in Nat, s \in Seq(Place), PlaceRowIn, ZenonT(40)
    <3>2. p[i] \in Seq(Seq(Place)) /\ Len(p[i]) = n /\ \A e \in 1 .. n : p[i][e] = Inside(Part(at, c, i, e), s)
      BY <1>2, <2>2, <2>3
    <3> QED BY <3>1, <3>2, SeqEqual
  <2>8. CASE i \in live
    <3>1. d[k] = DtorRow(at, c, i, class, n)
      BY <1>1, <2>1, <2>2, <2>4, <2>8
    <3>2. \A a \in Address : h[Perform("dtor", a, class)] = Inside(a, Reverse(s))
      BY <2>3, <2>4
    <3>3. Each(h, DtorRow(at, c, i, class, n)) = Reverse(FlattenSeq(PlaceRow(at, c, i, s, n)))
      <4>1. IsMap(h, Statement, Seq(Place))
        OBVIOUS
      <4> QED BY ONLY <2>5, at \in Address, c \in Nat, n \in Nat, s \in Seq(Place), class \in Nat, <3>2, <4>1, DtorRowPlaces
    <3> QED BY <1>6, <2>6, <2>7, <3>1, <3>3
  <2>9. CASE i \notin live
    <3>1. d[k] = DtorRow(at, c, i, class, 0)
      BY <1>1, <2>1, <2>4, <2>9
    <3>2. DtorRow(at, c, i, class, 0) = <<>>
      BY DEF DtorRow
    <3>3. EachPart(h, d)[k] = <<>>
      BY <1>6, <3>1, <3>2, EachEmpty
    <3>4. FlattenSeq(p[i]) = <<>>
      <4>1. CASE n = 0
        <5>1. p[i] = <<>>
          BY <2>7, <4>1 DEF PlaceRow
        <5> QED BY <5>1, FlattenEmpty
      <4>2. CASE s = <<>>
        <5>1. p[i] = [e \in 1 .. n |-> <<>>]
          BY <2>7, <4>2 DEF PlaceRow, Inside
        <5>2. Len(p[i]) = n
          BY <1>2, <2>2
        <5> QED BY <5>1, <5>2, FlattenNothing
      <4> QED BY <2>2, <2>3, <2>9, <4>1, <4>2
    <3>5. Reverse(<<>>) = <<>>
      BY DEF Reverse
    <3> QED BY <2>6, <3>3, <3>4, <3>5
  <2> QED BY <2>8, <2>9
<1>8. EachPart(h, d) = PartsReversed(r)
  BY <1>5, <1>6, <1>7, SeqEqual
<1>9. Each(h, FlattenSeq(d)) = Reverse(Twice(p))
  <2>1. Each(h, FlattenSeq(d)) = FlattenSeq(EachPart(h, d))
    BY <1>1, EachFlatten
  <2>2. Reverse(FlattenSeq(r)) = FlattenSeq(PartsReversed(r))
    BY ReverseFlatten
  <2> QED BY <1>4, <1>8, <2>1, <2>2
<1>10. PICK t \in Seq(Place) : t = Twice(GridOf(F, fs, c)) /\ Inside(at, t) = Twice(p)
  BY <1>2, GridInside
<1>11. Reverse(Inside(at, t)) = Inside(at, Reverse(t))
  BY ReverseInside
<1>12. FlattenSeq(d) \in Seq(Statement)
  BY <1>1, FlattenIn
<1> QED BY <1>1, <1>9, <1>10, <1>11, <1>12

(* The compiled classes of a program p.                                    *)
CtorKinds == {"none", "default", "args", "implicit"}
DtorKinds == {"none", "user", "implicit"}
PartsMap(p) == [b \in DOMAIN p |-> p[b].parts]
BaseParts(p, b) == IF b = NoClass THEN <<>> ELSE p[b].parts
Itself(c) == <<<<<<>>, c>>>>
Members(p, c) == {p[c].fields[i].class : i \in {j \in 1 .. Len(p[c].fields) : Owns(p[c].fields[j].shape)}}

ClassTyped(p, c) ==
  /\ p[c].base \in 0 .. c - 1 /\ p[c].fields \in Seq(FieldsBelow(c))
  /\ p[c].ctor \in CtorKinds /\ p[c].dtor \in DtorKinds
  /\ p[c].vtable \in BOOLEAN /\ p[c].virtualDtor \in BOOLEAN
PartsMade(p, c) ==
  p[c].parts = (BaseParts(p, p[c].base) \o Twice(GridOf(PartsMap(p), p[c].fields, c))) \o Itself(c)
NoCtor(p, c) ==
  p[c].ctor = "none" =>
    /\ p[c].base # NoClass => p[p[c].base].ctor = "none"
    /\ \A m \in Members(p, c) : p[m].ctor = "none" /\ ~ p[m].vtable
NoDtor(p, c) ==
  p[c].dtor = "none" =>
    /\ p[c].base # NoClass => p[p[c].base].dtor = "none"
    /\ \A m \in Members(p, c) : p[m].dtor = "none"
Tables(p, c) ==
  /\ p[c].base # NoClass =>
       /\ p[p[c].base].vtable => p[c].vtable
       /\ p[p[c].base].virtualDtor => p[c].virtualDtor
  /\ p[c].virtualDtor => p[c].vtable

Compiles(p, c) == ClassTyped(p, c) /\ PartsMade(p, c) /\ NoCtor(p, c) /\ NoDtor(p, c) /\ Tables(p, c)
Classes(p) == Len(p) \in Nat /\ DOMAIN p = 1 .. Len(p) /\ \A c \in 1 .. Len(p) : Compiles(p, c)

LEMMA ClassIs ==
  ASSUME NEW p, Classes(p), NEW c \in 1 .. Len(p)
  PROVE  /\ c \in Nat \ {0} /\ Len(p) \in Nat
         /\ ClassTyped(p, c) /\ PartsMade(p, c) /\ NoCtor(p, c) /\ NoDtor(p, c) /\ Tables(p, c)
         /\ p[c].base \in Nat /\ (p[c].base # NoClass => p[c].base \in 1 .. Len(p) /\ p[c].base \in 1 .. c - 1)
         /\ Len(p[c].fields) \in Nat
<1>1. Compiles(p, c) /\ Len(p) \in Nat
  BY DEF Classes
<1>2. c \in Nat \ {0}
  BY <1>1
<1>3. ClassTyped(p, c) /\ PartsMade(p, c) /\ NoCtor(p, c) /\ NoDtor(p, c) /\ Tables(p, c)
  BY <1>1 DEF Compiles
<1>4. p[c].base \in 0 .. c - 1 /\ p[c].fields \in Seq(FieldsBelow(c))
  BY <1>3 DEF ClassTyped
<1>5. p[c].base \in Nat /\ (p[c].base # NoClass => p[c].base \in 1 .. Len(p) /\ p[c].base \in 1 .. c - 1)
  BY <1>1, <1>4 DEF NoClass
<1>6. Len(p[c].fields) \in Nat
  BY <1>4, LenProperties
<1> QED BY <1>1, <1>2, <1>3, <1>5, <1>6

LEMMA FieldIs ==
  ASSUME NEW p, Classes(p), NEW c \in 1 .. Len(p), NEW i \in 1 .. Len(p[c].fields)
  PROVE  /\ p[c].fields[i].class \in 1 .. c - 1 /\ p[c].fields[i].class \in 1 .. Len(p)
         /\ p[c].fields[i].shape \in AlikeShapes
         /\ MemberCount(p[c].fields[i]) # 0 => p[c].fields[i].class \in Members(p, c)
<1>1. p[c].fields \in Seq(FieldsBelow(c)) /\ c \in Nat \ {0} /\ Len(p) \in Nat
  BY ClassIs DEF ClassTyped
<1>2. p[c].fields[i] \in FieldsBelow(c)
  BY <1>1, ElementOfSeq
<1>3. p[c].fields[i].class \in 1 .. c - 1 /\ p[c].fields[i].shape \in AlikeShapes
  BY <1>2 DEF FieldsBelow
<1>4. p[c].fields[i].class \in 1 .. Len(p)
  BY <1>1, <1>3
<1>5. MemberCount(p[c].fields[i]) # 0 => Owns(p[c].fields[i].shape)
  BY DEF MemberCount
<1>6. Owns(p[c].fields[i].shape) => p[c].fields[i].class \in Members(p, c)
  BY DEF Members
<1> QED BY <1>3, <1>4, <1>5, <1>6

LEMMA PlacesOfGrow ==
  ASSUME NEW b \in Nat, NEW c \in Nat, b <= c
  PROVE  PlacesOf(b) \subseteq PlacesOf(c) /\ PlacesOf(c) \subseteq Place
<1>1. 1 .. b \subseteq 1 .. c
  OBVIOUS
<1> QED BY <1>1 DEF PlacesOf

LEMMA ItselfIn ==
  ASSUME NEW c \in Nat \ {0}
  PROVE  /\ Itself(c) \in Seq(PlacesOf(c)) /\ Itself(c) \in Seq(Place)
         /\ \A x : Among(x, Itself(c)) <=> x = <<<<>>, c>>
         /\ Leaves(Itself(c), <<>>, c)
         /\ \A a : a # <<>> => Silent(Itself(c), a)
<1>1. PICK y : y = <<<<>>, c>>
  OBVIOUS
<1>2. y \in PlacesOf(c) /\ y \in Place /\ y[1] = <<>>
  <2>1. <<>> \in Address
    BY EmptyAddress
  <2>2. y \in Place
    BY <1>1, <2>1 DEF Place
  <2>3. y[1] = <<>> /\ y[2] \in 1 .. c
    BY <1>1
  <2> QED BY <2>2, <2>3 DEF PlacesOf
<1>3. Itself(c) = <<y>> /\ Len(<<y>>) = 1 /\ <<y>>[1] = y
  BY <1>1 DEF Itself
<1>4. <<y>> \in Seq(PlacesOf(c)) /\ <<y>> \in Seq(Place)
  BY <1>2
<1>5. \A x : Among(x, <<y>>) <=> x = y
  BY <1>3 DEF Among
<1>6. Leaves(<<y>>, <<>>, c)
  BY <1>1, <1>3 DEF Leaves
<1>7. \A a : a # <<>> => Silent(<<y>>, a)
  BY <1>2, <1>3 DEF Silent
<1> QED BY <1>1, <1>3, <1>4, <1>5, <1>6, <1>7

LEMMA FieldsFit ==
  ASSUME NEW p, Classes(p), NEW c \in 1 .. Len(p), NEW F, \A b \in 1 .. c - 1 : F[b] \in Seq(PlacesOf(b))
  PROVE  Fits(F, p[c].fields) /\ Below(F, c)
         /\ Twice(GridOf(F, p[c].fields, c)) \in Seq(PlacesOf(c))
         /\ Twice(GridOf(F, p[c].fields, c)) \in Seq(Place)
<1>1. Below(F, c) /\ c \in Nat \ {0} /\ Len(p[c].fields) \in Nat
  BY ClassIs DEF Below
<1>2. \A b \in 1 .. c - 1 : F[b] \in Seq(Place)
  <2> TAKE b \in 1 .. c - 1
  <2>1. PlacesOf(b) \subseteq Place
    BY DEF PlacesOf
  <2> QED BY <2>1, SeqMonotonic
<1>3. \A i \in 1 .. Len(p[c].fields) : p[c].fields[i].class \in 1 .. c - 1
  BY FieldIs
<1>4. Fits(F, p[c].fields)
  BY <1>1, <1>2, <1>3 DEF Fits
<1>5. Twice(GridOf(F, p[c].fields, c)) \in Seq(PlacesOf(c))
  BY <1>1, <1>3, <1>4, GridBelow
<1>6. Twice(GridOf(F, p[c].fields, c)) \in Seq(Place)
  BY <1>1, <1>4, GridPlaces
<1> QED BY <1>1, <1>4, <1>5, <1>6

(* The parts of every class are places.                                    *)
LEMMA PartsPlaces ==
  ASSUME NEW p, Classes(p)
  PROVE  \A c \in 1 .. Len(p) : p[c].parts \in Seq(PlacesOf(c))
<1> DEFINE Bad == {c \in 1 .. Len(p) : p[c].parts \notin Seq(PlacesOf(c))}
<1> SUFFICES ASSUME Bad # {} PROVE FALSE
  OBVIOUS
<1>0. Len(p) \in Nat /\ DOMAIN p = 1 .. Len(p)
  BY DEF Classes
<1>1. PICK c \in Bad : \A y \in Bad : c <= y
  <2>1. Bad \subseteq Nat
    BY <1>0
  <2> HIDE DEF Bad
  <2> QED BY <2>1, LeastOfNaturals
<1>2. c \in 1 .. Len(p) /\ p[c].parts \notin Seq(PlacesOf(c))
  BY <1>1
<1>3. \A b \in 1 .. c - 1 : p[b].parts \in Seq(PlacesOf(b)) /\ PartsMap(p)[b] = p[b].parts
  BY <1>0, <1>1, <1>2 DEF PartsMap
<1> HIDE DEF Bad
<1>4. Twice(GridOf(PartsMap(p), p[c].fields, c)) \in Seq(PlacesOf(c))
  BY <1>2, <1>3, FieldsFit
<1>5. BaseParts(p, p[c].base) \in Seq(PlacesOf(c))
  <2>1. CASE p[c].base = NoClass
    BY <2>1, EmptySeq DEF BaseParts
  <2>2. CASE p[c].base # NoClass
    <3>1. PICK b \in 1 .. c - 1 : b = p[c].base
      BY <1>2, <2>2, ClassIs
    <3>2. p[b].parts \in Seq(PlacesOf(b))
      BY <1>3
    <3>3. PlacesOf(b) \subseteq PlacesOf(c)
      BY <1>0, <1>2, <3>1, PlacesOfGrow
    <3>4. p[b].parts \in Seq(PlacesOf(c))
      BY <3>2, <3>3, SeqMonotonic
    <3> QED BY <2>2, <3>1, <3>4 DEF BaseParts
  <2> QED BY <2>1, <2>2
<1>6. Itself(c) \in Seq(PlacesOf(c))
  BY <1>0, <1>2, ItselfIn
<1>7. PICK s \in Seq(PlacesOf(c)) : s = BaseParts(p, p[c].base) \o Twice(GridOf(PartsMap(p), p[c].fields, c))
  BY <1>4, <1>5, ConcatProperties
<1>8. s \o Itself(c) \in Seq(PlacesOf(c))
  BY <1>6, ConcatProperties
<1>9. p[c].parts = s \o Itself(c)
  BY <1>2, <1>7, ClassIs DEF PartsMade
<1> QED BY <1>2, <1>8, <1>9

(* What is known of the parts of one class.                                *)
LEMMA PartsFit ==
  ASSUME NEW p, Classes(p), NEW c \in 1 .. Len(p)
  PROVE  /\ p[c].parts \in Seq(Place) /\ p[c].parts \in Seq(PlacesOf(c)) /\ PartsMap(p)[c] = p[c].parts
         /\ Fits(PartsMap(p), p[c].fields)
         /\ BaseParts(p, p[c].base) \in Seq(Place)
         /\ Twice(GridOf(PartsMap(p), p[c].fields, c)) \in Seq(Place)
         /\ Twice(GridOf(PartsMap(p), p[c].fields, c)) \in Seq(PlacesOf(c))
         /\ Itself(c) \in Seq(Place)
<1>1. Len(p) \in Nat /\ DOMAIN p = 1 .. Len(p) /\ c \in Nat \ {0}
  BY ClassIs DEF Classes
<1>2. ASSUME NEW b \in 1 .. Len(p)
      PROVE  p[b].parts \in Seq(PlacesOf(b)) /\ PartsMap(p)[b] = p[b].parts /\ p[b].parts \in Seq(Place)
  <2>1. p[b].parts \in Seq(PlacesOf(b))
    BY PartsPlaces
  <2>2. PlacesOf(b) \subseteq Place
    BY DEF PlacesOf
  <2>3. p[b].parts \in Seq(Place)
    BY <2>1, <2>2, SeqMonotonic
  <2> QED BY <1>1, <2>1, <2>3 DEF PartsMap
<1>3. \A b \in 1 .. c - 1 : PartsMap(p)[b] \in Seq(PlacesOf(b))
  BY <1>1, <1>2
<1>4. BaseParts(p, p[c].base) \in Seq(Place)
  <2>1. p[c].base # NoClass => p[c].base \in 1 .. Len(p)
    BY ClassIs
  <2> QED BY <1>2, <2>1, EmptySeq DEF BaseParts
<1> QED BY <1>1, <1>2, <1>3, <1>4, FieldsFit, ItselfIn

(* The parts of an object: those of its base, those of its members, and    *)
(* the object itself.                                                      *)
LEMMA PartIn ==
  ASSUME NEW p, Classes(p), NEW c \in 1 .. Len(p), NEW x
  PROVE  Among(x, p[c].parts) <=>
           \/ Among(x, BaseParts(p, p[c].base))
           \/ Among(x, Twice(GridOf(PartsMap(p), p[c].fields, c)))
           \/ x = <<<<>>, c>>
<1>1. PICK s \in Seq(Place), t \in Seq(Place), u \in Seq(Place) :
        s = BaseParts(p, p[c].base) /\ t = Twice(GridOf(PartsMap(p), p[c].fields, c)) /\ u = Itself(c)
  BY PartsFit
<1>2. p[c].parts = (s \o t) \o u
  BY <1>1, ClassIs DEF PartsMade
<1>3. PICK w \in Seq(Place) : w = s \o t
  BY ConcatProperties
<1>4. Among(x, w) <=> Among(x, s) \/ Among(x, t)
  BY <1>3, AmongConcat
<1>5. Among(x, w \o u) <=> Among(x, w) \/ Among(x, u)
  BY AmongConcat
<1>6. c \in Nat \ {0}
  BY ClassIs
<1>7. Among(x, u) <=> x = <<<<>>, c>>
  BY <1>1, <1>6, ItselfIn
<1> QED BY <1>1, <1>2, <1>3, <1>4, <1>5, <1>7

AncIs(p, A) ==
  \A c \in 1 .. Len(p) : A[c] = {c} \cup (IF p[c].base = NoClass THEN {} ELSE A[p[c].base])

(* A class and its bases: what is below it in tables.                      *)
AncFit(p, A, c) ==
  /\ c \in A[c] /\ (p[c].base # NoClass => A[p[c].base] \subseteq A[c])
  /\ \A a \in A[c] : /\ a \in 1 .. Len(p)
                     /\ p[a].vtable => p[c].vtable
                     /\ p[a].virtualDtor => p[c].virtualDtor

LEMMA AncestorsFit ==
  ASSUME NEW p, Classes(p), NEW A, AncIs(p, A)
  PROVE  \A c \in 1 .. Len(p) : AncFit(p, A, c)
<1> DEFINE Bad == {c \in 1 .. Len(p) : ~ AncFit(p, A, c)}
<1> SUFFICES ASSUME Bad # {} PROVE FALSE
  OBVIOUS
<1>0. Len(p) \in Nat
  BY DEF Classes
<1>1. PICK c \in Bad : \A y \in Bad : c <= y
  <2>1. Bad \subseteq Nat
    BY <1>0
  <2> HIDE DEF Bad
  <2> QED BY <2>1, LeastOfNaturals
<1>2. c \in 1 .. Len(p) /\ ~ AncFit(p, A, c)
  BY <1>1
<1>3. \A b \in 1 .. c - 1 : AncFit(p, A, b)
  BY <1>0, <1>1, <1>2
<1> HIDE DEF Bad
<1>4. A[c] = {c} \cup (IF p[c].base = NoClass THEN {} ELSE A[p[c].base])
  BY <1>2 DEF AncIs
<1>5. CASE p[c].base = NoClass
  BY <1>2, <1>4, <1>5 DEF AncFit
<1>6. CASE p[c].base # NoClass
  <2>1. PICK b \in 1 .. c - 1 : b = p[c].base
    BY <1>2, <1>6, ClassIs
  <2>2. A[c] = {c} \cup A[b]
    BY <1>4, <1>6, <2>1
  <2>3. AncFit(p, A, b)
    BY <1>3
  <2>4. (p[b].vtable => p[c].vtable) /\ (p[b].virtualDtor => p[c].virtualDtor)
    BY <1>2, <1>6, <2>1, ClassIs DEF Tables
  <2>5. \A a \in A[b] : /\ a \in 1 .. Len(p)
                        /\ p[a].vtable => p[c].vtable
                        /\ p[a].virtualDtor => p[c].virtualDtor
    BY <2>3, <2>4 DEF AncFit
  <2> QED BY <1>2, <2>1, <2>2, <2>5 DEF AncFit
<1> QED BY <1>5, <1>6

-----------------------------------------------------------------------------
(* The vtables the construction of an object sets, in order.               *)
Own(p, c) == IF p[c].vtable THEN Itself(c) ELSE <<>>
BaseSets(p, E, b) == IF b # NoClass /\ p[b].ctor # "none" THEN E[b] ELSE <<>>
AllSets(p, E, c) ==
  IF p[c].ctor = "none" THEN Own(p, c)
  ELSE (BaseSets(p, E, p[c].base) \o Own(p, c)) \o Twice(GridOf(E, p[c].fields, c))
SetsAre(p, E) == \A c \in 1 .. Len(p) : E[c] = AllSets(p, E, c)

LEMMA OwnIn ==
  ASSUME NEW p, NEW c \in Nat \ {0}
  PROVE  /\ Own(p, c) \in Seq(PlacesOf(c)) /\ Own(p, c) \in Seq(Place)
         /\ p[c].vtable => Leaves(Own(p, c), <<>>, c)
         /\ \A a : a # <<>> => Silent(Own(p, c), a)
<1>1. Len(<<>>) = 0
  OBVIOUS
<1>2. \A a : Silent(<<>>, a)
  BY <1>1 DEF Silent
<1>3. <<>> \in Seq(PlacesOf(c)) /\ <<>> \in Seq(Place)
  BY EmptySeq
<1> QED BY <1>2, <1>3, ItselfIn DEF Own

LEMMA SetsPlaces ==
  ASSUME NEW p, Classes(p), NEW E, SetsAre(p, E)
  PROVE  \A c \in 1 .. Len(p) : E[c] \in Seq(PlacesOf(c))
<1> DEFINE Bad == {c \in 1 .. Len(p) : E[c] \notin Seq(PlacesOf(c))}
<1> SUFFICES ASSUME Bad # {} PROVE FALSE
  OBVIOUS
<1>0. Len(p) \in Nat
  BY DEF Classes
<1>1. PICK c \in Bad : \A y \in Bad : c <= y
  <2>1. Bad \subseteq Nat
    BY <1>0
  <2> HIDE DEF Bad
  <2> QED BY <2>1, LeastOfNaturals
<1>2. c \in 1 .. Len(p) /\ E[c] \notin Seq(PlacesOf(c)) /\ c \in Nat \ {0}
  BY <1>0, <1>1
<1>3. \A b \in 1 .. c - 1 : E[b] \in Seq(PlacesOf(b))
  BY <1>0, <1>1, <1>2
<1> HIDE DEF Bad
<1>4. Twice(GridOf(E, p[c].fields, c)) \in Seq(PlacesOf(c))
  BY <1>2, <1>3, FieldsFit
<1>5. BaseSets(p, E, p[c].base) \in Seq(PlacesOf(c))
  <2>1. CASE p[c].base = NoClass
    BY <2>1, EmptySeq DEF BaseSets
  <2>2. CASE p[c].base # NoClass
    <3>1. PICK b \in 1 .. c - 1 : b = p[c].base
      BY <1>2, <2>2, ClassIs
    <3>2. E[b] \in Seq(PlacesOf(b))
      BY <1>3
    <3>3. PlacesOf(b) \subseteq PlacesOf(c)
      BY <1>0, <1>2, <3>1, PlacesOfGrow
    <3>4. E[b] \in Seq(PlacesOf(c))
      BY <3>2, <3>3, SeqMonotonic
    <3> QED BY <2>2, <3>1, <3>4, EmptySeq DEF BaseSets
  <2> QED BY <2>1, <2>2
<1>6. Own(p, c) \in Seq(PlacesOf(c))
  BY <1>2, OwnIn
<1>7. PICK s \in Seq(PlacesOf(c)) : s = BaseSets(p, E, p[c].base) \o Own(p, c)
  BY <1>5, <1>6, ConcatProperties
<1>8. s \o Twice(GridOf(E, p[c].fields, c)) \in Seq(PlacesOf(c))
  BY <1>4, ConcatProperties
<1>9. E[c] = AllSets(p, E, c)
  BY <1>2 DEF SetsAre
<1> QED BY <1>2, <1>6, <1>7, <1>8, <1>9 DEF AllSets

LEMMA SetsFit ==
  ASSUME NEW p, Classes(p), NEW E, SetsAre(p, E), NEW c \in 1 .. Len(p)
  PROVE  /\ E[c] \in Seq(Place) /\ E[c] \in Seq(PlacesOf(c)) /\ E[c] = AllSets(p, E, c)
         /\ Fits(E, p[c].fields)
         /\ BaseSets(p, E, p[c].base) \in Seq(Place) /\ Own(p, c) \in Seq(Place)
         /\ Twice(GridOf(E, p[c].fields, c)) \in Seq(Place)
<1>1. Len(p) \in Nat /\ c \in Nat \ {0}
  BY ClassIs
<1>2. ASSUME NEW b \in 1 .. Len(p) PROVE E[b] \in Seq(PlacesOf(b)) /\ E[b] \in Seq(Place)
  <2>1. E[b] \in Seq(PlacesOf(b))
    BY SetsPlaces
  <2>2. PlacesOf(b) \subseteq Place
    BY DEF PlacesOf
  <2> QED BY <2>1, <2>2, SeqMonotonic
<1>3. \A b \in 1 .. c - 1 : E[b] \in Seq(PlacesOf(b))
  BY <1>1, <1>2
<1>4. Fits(E, p[c].fields) /\ Twice(GridOf(E, p[c].fields, c)) \in Seq(Place)
  BY <1>3, FieldsFit
<1>5. BaseSets(p, E, p[c].base) \in Seq(Place)
  <2>1. p[c].base # NoClass => p[c].base \in 1 .. Len(p)
    BY ClassIs
  <2> QED BY <1>2, <2>1, EmptySeq DEF BaseSets
<1>6. E[c] = AllSets(p, E, c)
  BY DEF SetsAre
<1> QED BY <1>1, <1>2, <1>4, <1>5, <1>6, OwnIn

(* Members have addresses of their own.                                    *)
LEMMA MembersApart ==
  ASSUME NEW F, NEW c \in Nat, NEW fs, Fits(F, fs), NEW a, a = <<>> \/ a[1] # c
  PROVE  Silent(Twice(GridOf(F, fs, c)), a)
<1>1. Twice(GridOf(F, fs, c)) \in Seq(MembersOf(F, fs, c))
  BY GridPlaces
<1>2. ASSUME NEW x \in MembersOf(F, fs, c) PROVE x[1] # a
  <2>0. PICK i \in 1 .. Len(fs) :
          \E e \in 1 .. MemberCount(fs[i]) : \E y \in Place : x = <<Part(<<>>, c, i, e) \o y[1], y[2]>>
    BY DEF MembersOf
  <2>1. PICK e \in 1 .. MemberCount(fs[i]), y \in Place : x = <<Part(<<>>, c, i, e) \o y[1], y[2]>>
    BY <2>0
  <2>2. i \in Nat /\ e \in Nat
    BY FieldNumbers
  <2>3. Part(<<>>, c, i, e) = <<c, i, e>>
    BY <2>2, PartIs
  <2>4. y[1] \in Address
    BY EmptyAddress, PlaceAt
  <2>5. <<c, i, e>> \o y[1] # <<>> /\ (<<c, i, e>> \o y[1])[1] = c
    BY <2>2, <2>4, StartsIs
  <2>6. x[1] = <<c, i, e>> \o y[1]
    BY <2>1, <2>3
  <2> QED BY <2>5, <2>6
<1> QED BY <1>1, <1>2, SeqSilent

LEMMA SetsItself ==
  ASSUME NEW p, Classes(p), NEW E, SetsAre(p, E), NEW c \in 1 .. Len(p), p[c].vtable
  PROVE  Leaves(E[c], <<>>, c)
<1>0. c \in Nat \ {0}
  BY ClassIs
<1>1. PICK s \in Seq(Place), t \in Seq(Place), u \in Seq(Place) :
        s = BaseSets(p, E, p[c].base) /\ t = Own(p, c) /\ u = Twice(GridOf(E, p[c].fields, c))
  BY SetsFit
<1>2. Leaves(t, <<>>, c)
  BY <1>0, <1>1, OwnIn
<1>3. PICK w \in Seq(Place) : w = s \o t
  BY ConcatProperties
<1>4. Leaves(w, <<>>, c)
  BY <1>2, <1>3, LeavesConcat
<1>5. Silent(u, <<>>)
  <2>1. Fits(E, p[c].fields)
    BY SetsFit
  <2> QED BY <1>0, <1>1, <2>1, MembersApart
<1>6. Leaves(w \o u, <<>>, c)
  BY <1>4, <1>5, LeavesConcat
<1>7. E[c] = AllSets(p, E, c)
  BY SetsFit
<1> QED BY <1>1, <1>2, <1>3, <1>6, <1>7 DEF AllSets

(* A part that a member brings: where it is, and what it is there.         *)
FromMember(p, c, x) ==
  \E i \in 1 .. Len(p[c].fields) : \E e \in 1 .. MemberCount(p[c].fields[i]) :
  \E m \in Members(p, c) : \E y \in Place :
       /\ m = p[c].fields[i].class /\ m \in 1 .. c - 1 /\ m \in 1 .. Len(p)
       /\ Among(y, p[m].parts) /\ x = <<Part(<<>>, c, i, e) \o y[1], y[2]>>
       /\ y[1] \in Address /\ i \in Nat /\ e \in Nat
       /\ x[1] = Part(<<>>, c, i, e) \o y[1] /\ x[1] # <<>> /\ x[1][1] = c /\ x[2] = y[2]

LEMMA MemberPart ==
  ASSUME NEW p, Classes(p), NEW c \in 1 .. Len(p), NEW x,
         Among(x, Twice(GridOf(PartsMap(p), p[c].fields, c)))
  PROVE  FromMember(p, c, x)
<1>0. c \in Nat \ {0}
  BY ClassIs
<1>1. Fits(PartsMap(p), p[c].fields)
  BY PartsFit
<1>2. PICK fs : fs = p[c].fields
  OBVIOUS
<1>3. Twice(GridOf(PartsMap(p), fs, c)) \in Seq(MembersOf(PartsMap(p), fs, c))
  BY <1>0, <1>1, <1>2, GridPlaces
<1>4. x \in MembersOf(PartsMap(p), fs, c)
  BY <1>2, <1>3, AmongSeq
<1>5. PICK i \in 1 .. Len(fs) : \E e \in 1 .. MemberCount(fs[i]) : \E y \in Place :
        Among(y, PartsMap(p)[fs[i].class]) /\ x = <<Part(<<>>, c, i, e) \o y[1], y[2]>>
  BY <1>4 DEF MembersOf
<1>6. PICK e \in 1 .. MemberCount(fs[i]), y \in Place :
        Among(y, PartsMap(p)[fs[i].class]) /\ x = <<Part(<<>>, c, i, e) \o y[1], y[2]>>
  BY <1>5
<1>7. MemberCount(fs[i]) # 0
  BY <1>6, CountIs
<1>8. PICK m \in Members(p, c) : m = fs[i].class /\ m \in 1 .. c - 1 /\ m \in 1 .. Len(p)
  BY <1>2, <1>7, FieldIs
<1>9. Among(y, p[m].parts)
  BY <1>6, <1>8, PartsFit
<1>10. i \in Nat /\ e \in Nat
  BY <1>1, <1>2, FieldNumbers
<1>11. y[1] \in Address
  BY EmptyAddress, PlaceAt
<1>12. Part(<<>>, c, i, e) = <<c, i, e>>
  BY <1>0, <1>10, PartIs
<1>13. <<c, i, e>> \o y[1] # <<>> /\ (<<c, i, e>> \o y[1])[1] = c
  BY <1>0, <1>10, <1>11, StartsIs
<1>14. x[1] = Part(<<>>, c, i, e) \o y[1] /\ x[2] = y[2]
  BY <1>6
<1> QED BY <1>2, <1>6, <1>8, <1>9, <1>10, <1>11, <1>12, <1>13, <1>14 DEF FromMember

LEMMA BasePart ==
  ASSUME NEW p, Classes(p), NEW c \in 1 .. Len(p), NEW x, Among(x, BaseParts(p, p[c].base))
  PROVE  \E b \in 1 .. c - 1 :
           /\ b \in 1 .. Len(p) /\ b = p[c].base /\ p[c].base # NoClass /\ Among(x, p[b].parts)
           /\ x \in PlacesOf(b)
<1>1. p[c].base # NoClass
  <2> SUFFICES ASSUME p[c].base = NoClass PROVE FALSE
    OBVIOUS
  <2>1. Among(x, <<>>)
    BY DEF BaseParts
  <2> QED BY <2>1 DEF Among
<1>2. PICK b \in 1 .. c - 1 : b \in 1 .. Len(p) /\ b = p[c].base
  BY <1>1, ClassIs
<1>3. Among(x, p[b].parts)
  BY <1>1, <1>2 DEF BaseParts
<1>4. p[b].parts \in Seq(PlacesOf(b))
  BY <1>2, PartsFit
<1>5. x \in PlacesOf(b)
  BY <1>3, <1>4, AmongSeq
<1> QED BY <1>1, <1>2, <1>3, <1>5

(* A class is at the address of an object if it is the object's class or   *)
(* one of its bases.                                                       *)
SameAddress(p, A, c) == \A x : Among(x, p[c].parts) /\ x[1] = <<>> => x[2] \in A[c]

LEMMA SameAddressHolds ==
  ASSUME NEW p, Classes(p), NEW A, AncIs(p, A)
  PROVE  \A c \in 1 .. Len(p) : SameAddress(p, A, c)
<1> DEFINE Bad == {c \in 1 .. Len(p) : ~ SameAddress(p, A, c)}
<1> SUFFICES ASSUME Bad # {} PROVE FALSE
  OBVIOUS
<1>0. Len(p) \in Nat
  BY DEF Classes
<1>1. PICK c \in Bad : \A y \in Bad : c <= y
  <2>1. Bad \subseteq Nat
    BY <1>0
  <2> HIDE DEF Bad
  <2> QED BY <2>1, LeastOfNaturals
<1>2. c \in 1 .. Len(p) /\ ~ SameAddress(p, A, c)
  BY <1>1
<1>3. \A b \in 1 .. c - 1 : SameAddress(p, A, b)
  BY <1>0, <1>1, <1>2
<1> HIDE DEF Bad
<1>4. PICK x : Among(x, p[c].parts) /\ x[1] = <<>> /\ x[2] \notin A[c]
  BY <1>2 DEF SameAddress
<1>5. AncFit(p, A, c)
  BY <1>2, AncestorsFit
<1>6. CASE Among(x, BaseParts(p, p[c].base))
  <2>1. PICK b \in 1 .. c - 1 : b = p[c].base /\ p[c].base # NoClass /\ Among(x, p[b].parts)
    BY <1>2, <1>6, BasePart
  <2>2. x[2] \in A[b]
    BY <1>3, <1>4, <2>1 DEF SameAddress
  <2> QED BY <1>4, <1>5, <2>1, <2>2 DEF AncFit
<1>7. CASE Among(x, Twice(GridOf(PartsMap(p), p[c].fields, c)))
  <2>1. FromMember(p, c, x)
    BY <1>2, <1>7, MemberPart
  <2> QED BY <1>4, <2>1 DEF FromMember
<1>8. CASE x = <<<<>>, c>>
  BY <1>4, <1>5, <1>8 DEF AncFit
<1> QED BY <1>2, <1>4, <1>6, <1>7, <1>8, PartIn

(* A class without a constructor has no part with one, and no vtable but   *)
(* its own.                                                                *)
Unbuilt(p, c) ==
  p[c].ctor = "none" =>
    \A x : Among(x, p[c].parts) => p[x[2]].ctor = "none" /\ (p[x[2]].vtable => x[1] = <<>>)

LEMMA UnbuiltHolds ==
  ASSUME NEW p, Classes(p), NEW A, AncIs(p, A)
  PROVE  \A c \in 1 .. Len(p) : Unbuilt(p, c)
<1> DEFINE Bad == {c \in 1 .. Len(p) : ~ Unbuilt(p, c)}
<1> SUFFICES ASSUME Bad # {} PROVE FALSE
  OBVIOUS
<1>0. Len(p) \in Nat
  BY DEF Classes
<1>1. PICK c \in Bad : \A y \in Bad : c <= y
  <2>1. Bad \subseteq Nat
    BY <1>0
  <2> HIDE DEF Bad
  <2> QED BY <2>1, LeastOfNaturals
<1>2. c \in 1 .. Len(p) /\ ~ Unbuilt(p, c)
  BY <1>1
<1>3. \A b \in 1 .. c - 1 : Unbuilt(p, b)
  BY <1>0, <1>1, <1>2
<1> HIDE DEF Bad
<1>4. PICK x : Among(x, p[c].parts) /\ ~(p[x[2]].ctor = "none" /\ (p[x[2]].vtable => x[1] = <<>>))
  BY <1>2 DEF Unbuilt
<1>5. p[c].ctor = "none" /\ NoCtor(p, c)
  BY <1>2, ClassIs DEF Unbuilt
<1>6. CASE Among(x, BaseParts(p, p[c].base))
  <2>1. PICK b \in 1 .. c - 1 : b = p[c].base /\ p[c].base # NoClass /\ Among(x, p[b].parts)
    BY <1>2, <1>6, BasePart
  <2>2. p[b].ctor = "none"
    BY <1>5, <2>1 DEF NoCtor
  <2> QED BY <1>3, <1>4, <2>1, <2>2 DEF Unbuilt
<1>7. CASE Among(x, Twice(GridOf(PartsMap(p), p[c].fields, c)))
  <2>1. PICK m \in Members(p, c), y \in Place :
          m \in 1 .. c - 1 /\ m \in 1 .. Len(p) /\ Among(y, p[m].parts) /\ x[2] = y[2]
    <3>1. FromMember(p, c, x)
      BY <1>2, <1>7, MemberPart
    <3> QED BY ONLY <3>1 DEF FromMember
  <2>2. p[m].ctor = "none" /\ ~ p[m].vtable
    BY <1>5 DEF NoCtor
  <2>3. p[y[2]].ctor = "none" /\ (p[y[2]].vtable => y[1] = <<>>)
    BY <1>3, <2>1, <2>2 DEF Unbuilt
  <2>4. ASSUME p[y[2]].vtable PROVE FALSE
    <3>1. y[2] \in A[m]
      BY <2>1, <2>3, <2>4, SameAddressHolds DEF SameAddress
    <3>2. AncFit(p, A, m)
      BY <2>1, AncestorsFit
    <3> QED BY <2>2, <2>4, <3>1, <3>2 DEF AncFit
  <2> QED BY <1>4, <2>1, <2>3, <2>4
<1>8. CASE x = <<<<>>, c>>
  BY <1>4, <1>5, <1>8
<1> QED BY <1>2, <1>4, <1>6, <1>7, <1>8, PartIn

Undone(p, c) == p[c].dtor = "none" => \A x : Among(x, p[c].parts) => p[x[2]].dtor = "none"

LEMMA UndoneHolds ==
  ASSUME NEW p, Classes(p)
  PROVE  \A c \in 1 .. Len(p) : Undone(p, c)
<1> DEFINE Bad == {c \in 1 .. Len(p) : ~ Undone(p, c)}
<1> SUFFICES ASSUME Bad # {} PROVE FALSE
  OBVIOUS
<1>0. Len(p) \in Nat
  BY DEF Classes
<1>1. PICK c \in Bad : \A y \in Bad : c <= y
  <2>1. Bad \subseteq Nat
    BY <1>0
  <2> HIDE DEF Bad
  <2> QED BY <2>1, LeastOfNaturals
<1>2. c \in 1 .. Len(p) /\ ~ Undone(p, c)
  BY <1>1
<1>3. \A b \in 1 .. c - 1 : Undone(p, b)
  BY <1>0, <1>1, <1>2
<1> HIDE DEF Bad
<1>4. PICK x : Among(x, p[c].parts) /\ p[x[2]].dtor # "none"
  BY <1>2 DEF Undone
<1>5. p[c].dtor = "none" /\ NoDtor(p, c)
  BY <1>2, ClassIs DEF Undone
<1>6. CASE Among(x, BaseParts(p, p[c].base))
  <2>1. PICK b \in 1 .. c - 1 : b = p[c].base /\ p[c].base # NoClass /\ Among(x, p[b].parts)
    BY <1>2, <1>6, BasePart
  <2>2. p[b].dtor = "none"
    BY <1>5, <2>1 DEF NoDtor
  <2> QED BY <1>3, <1>4, <2>1, <2>2 DEF Undone
<1>7. CASE Among(x, Twice(GridOf(PartsMap(p), p[c].fields, c)))
  <2>1. PICK m \in Members(p, c), y \in Place :
          m \in 1 .. c - 1 /\ m \in 1 .. Len(p) /\ Among(y, p[m].parts) /\ x[2] = y[2]
    <3>1. FromMember(p, c, x)
      BY <1>2, <1>7, MemberPart
    <3> QED BY ONLY <3>1 DEF FromMember
  <2>2. p[m].dtor = "none"
    BY <1>5 DEF NoDtor
  <2>3. p[y[2]].dtor = "none"
    BY <1>3, <2>1, <2>2 DEF Undone
  <2> QED BY <1>4, <2>1, <2>3
<1>8. CASE x = <<<<>>, c>>
  BY <1>4, <1>5, <1>8
<1> QED BY <1>2, <1>4, <1>6, <1>7, <1>8, PartIn

(* What construction leaves in the vtables: at the address of a part that  *)
(* has one, that of a class that has the part as one of its bases, and is  *)
(* itself a part there.                                                    *)
HasTable(p, A, E, c, x) ==
  \E w \in 1 .. c : Among(<<x[1], w>>, p[c].parts) /\ x[2] \in A[w] /\ Leaves(E[c], x[1], w)
TablesSet(p, A, E, c) == \A x : Among(x, p[c].parts) /\ p[x[2]].vtable => HasTable(p, A, E, c, x)

(* At the address of the object.                                           *)
LEMMA TableHere ==
  ASSUME NEW p, Classes(p), NEW A, AncIs(p, A), NEW E, SetsAre(p, E), NEW c \in 1 .. Len(p),
         NEW x, Among(x, p[c].parts), x[1] = <<>>, p[x[2]].vtable
  PROVE  HasTable(p, A, E, c, x)
<1>1. x[2] \in A[c] /\ AncFit(p, A, c)
  BY SameAddressHolds, AncestorsFit DEF SameAddress
<1>2. p[c].vtable
  BY <1>1 DEF AncFit
<1>3. Leaves(E[c], <<>>, c)
  BY <1>2, SetsItself
<1>4. PICK y : y = <<<<>>, c>>
  OBVIOUS
<1>5. Among(y, p[c].parts)
  BY <1>4, PartIn
<1>6. c \in 1 .. c
  BY ClassIs
<1> QED BY <1>1, <1>3, <1>4, <1>5, <1>6 DEF HasTable

(* What a base sets stays.                                                 *)
LEMMA TableOfBase ==
  ASSUME NEW p, Classes(p), NEW E, SetsAre(p, E), NEW c \in 1 .. Len(p),
         p[c].ctor # "none", p[c].base # NoClass, p[p[c].base].ctor # "none",
         NEW a, a # <<>>, a[1] # c, NEW v, Leaves(E[p[c].base], a, v)
  PROVE  Leaves(E[c], a, v)
<1>0. c \in Nat \ {0}
  BY ClassIs
<1>1. PICK s \in Seq(Place), t \in Seq(Place), u \in Seq(Place) :
        s = BaseSets(p, E, p[c].base) /\ t = Own(p, c) /\ u = Twice(GridOf(E, p[c].fields, c))
  BY SetsFit
<1>2. Leaves(s, a, v)
  BY <1>1 DEF BaseSets
<1>3. PICK w \in Seq(Place) : w = s \o t
  BY ConcatProperties
<1>4. Silent(t, a)
  BY <1>0, <1>1, OwnIn
<1>5. Leaves(w, a, v)
  BY <1>2, <1>3, <1>4, LeavesConcat
<1>6. Silent(u, a)
  <2>1. Fits(E, p[c].fields)
    BY SetsFit
  <2> QED BY <1>0, <1>1, <2>1, MembersApart
<1>7. Leaves(w \o u, a, v)
  BY <1>5, <1>6, LeavesConcat
<1>8. E[c] = AllSets(p, E, c)
  BY SetsFit
<1> QED BY <1>1, <1>3, <1>7, <1>8 DEF AllSets

(* And what a member sets.                                                 *)
LEMMA TableOfMember ==
  ASSUME NEW p, Classes(p), NEW E, SetsAre(p, E), NEW c \in 1 .. Len(p), p[c].ctor # "none",
         NEW i \in 1 .. Len(p[c].fields), NEW e \in 1 .. MemberCount(p[c].fields[i]),
         NEW q \in Address, NEW v, Leaves(E[p[c].fields[i].class], q, v)
  PROVE  Leaves(E[c], Part(<<>>, c, i, e) \o q, v)
<1>0. c \in Nat
  BY ClassIs
<1>1. PICK s \in Seq(Place), t \in Seq(Place), u \in Seq(Place) :
        s = BaseSets(p, E, p[c].base) /\ t = Own(p, c) /\ u = Twice(GridOf(E, p[c].fields, c))
  BY SetsFit
<1>2. Fits(E, p[c].fields)
  BY SetsFit
<1>3. Leaves(u, Part(<<>>, c, i, e) \o q, v)
  <2>1. PICK fs : fs = p[c].fields
    OBVIOUS
  <2>2. Fits(E, fs) /\ i \in 1 .. Len(fs) /\ e \in 1 .. MemberCount(fs[i]) /\ Leaves(E[fs[i].class], q, v)
    BY <1>2, <2>1
  <2>3. Leaves(Twice(GridOf(E, fs, c)), Part(<<>>, c, i, e) \o q, v)
    BY ONLY <1>0, <2>2, q \in Address, GridLeaves
  <2> QED BY ONLY <1>1, <2>1, <2>3
<1>4. PICK w \in Seq(Place) : w = s \o t
  BY ConcatProperties
<1>5. PICK a : a = Part(<<>>, c, i, e) \o q
  OBVIOUS
<1>6. Leaves(w \o u, a, v)
  <2>1. Leaves(u, a, v)
    BY <1>3, <1>5
  <2> QED BY <2>1, LeavesConcat
<1>7. E[c] = AllSets(p, E, c)
  BY SetsFit
<1> QED BY <1>1, <1>4, <1>5, <1>6, <1>7 DEF AllSets

LEMMA PartOfMember ==
  ASSUME NEW p, Classes(p), NEW c \in 1 .. Len(p),
         NEW i \in 1 .. Len(p[c].fields), NEW e \in 1 .. MemberCount(p[c].fields[i]),
         NEW q \in Address, NEW v, Among(<<q, v>>, p[p[c].fields[i].class].parts)
  PROVE  Among(<<Part(<<>>, c, i, e) \o q, v>>, p[c].parts)
<1>0. c \in Nat
  BY ClassIs
<1>1. Fits(PartsMap(p), p[c].fields)
  BY PartsFit
<1>2. PartsMap(p)[p[c].fields[i].class] = p[p[c].fields[i].class].parts
  BY FieldIs, PartsFit
<1>3. PICK fs : fs = p[c].fields
  OBVIOUS
<1>4. PICK F : F = PartsMap(p)
  OBVIOUS
<1>5. Fits(F, fs) /\ i \in 1 .. Len(fs) /\ e \in 1 .. MemberCount(fs[i]) /\ Among(<<q, v>>, F[fs[i].class])
  BY <1>1, <1>2, <1>3, <1>4
<1>6. Among(<<Part(<<>>, c, i, e) \o q, v>>, Twice(GridOf(F, fs, c)))
  BY ONLY <1>0, <1>5, q \in Address, GridLeaves
<1>7. PICK x : x = <<Part(<<>>, c, i, e) \o q, v>>
  OBVIOUS
<1>8. Among(x, Twice(GridOf(PartsMap(p), p[c].fields, c)))
  BY ONLY <1>3, <1>4, <1>6, <1>7
<1>9. Among(x, p[c].parts)
  BY <1>8, PartIn
<1> QED BY <1>7, <1>9

LEMMA TablesSetHolds ==
  ASSUME NEW p, Classes(p), NEW A, AncIs(p, A), NEW E, SetsAre(p, E)
  PROVE  \A c \in 1 .. Len(p) : TablesSet(p, A, E, c)
<1> DEFINE Bad == {c \in 1 .. Len(p) : ~ TablesSet(p, A, E, c)}
<1> SUFFICES ASSUME Bad # {} PROVE FALSE
  OBVIOUS
<1>0. Len(p) \in Nat
  BY DEF Classes
<1>1. PICK c \in Bad : \A y \in Bad : c <= y
  <2>1. Bad \subseteq Nat
    BY <1>0
  <2> HIDE DEF Bad
  <2> QED BY <2>1, LeastOfNaturals
<1>2. c \in 1 .. Len(p) /\ ~ TablesSet(p, A, E, c)
  BY <1>1
<1>3. \A b \in 1 .. c - 1 : TablesSet(p, A, E, b)
  BY <1>0, <1>1, <1>2
<1> HIDE DEF Bad
<1>4. PICK x : Among(x, p[c].parts) /\ p[x[2]].vtable /\ ~ HasTable(p, A, E, c, x)
  BY <1>2 DEF TablesSet
<1>5. x[1] # <<>>
  BY <1>2, <1>4, TableHere
<1>6. p[c].ctor # "none"
  BY <1>2, <1>4, <1>5, UnbuiltHolds DEF Unbuilt
<1>7. CASE Among(x, BaseParts(p, p[c].base))
  <2>1. PICK b \in 1 .. c - 1 : b \in 1 .. Len(p) /\ b = p[c].base /\ p[c].base # NoClass /\ Among(x, p[b].parts) /\ x \in PlacesOf(b)
    BY <1>2, <1>7, BasePart
  <2>2. PICK w \in 1 .. b : Among(<<x[1], w>>, p[b].parts) /\ x[2] \in A[w] /\ Leaves(E[b], x[1], w)
    BY <1>3, <1>4, <2>1 DEF TablesSet, HasTable
  <2>3. p[b].ctor # "none"
    BY <1>4, <1>5, <2>1, UnbuiltHolds DEF Unbuilt
  <2>4. x[1][1] # c
    <3>1. x[1][1] \in 1 .. b
      BY <1>5, <2>1 DEF PlacesOf
    <3> QED BY <1>0, <1>2, <2>1, <3>1
  <2>5. Leaves(E[c], x[1], w)
    <3>1. Leaves(E[p[c].base], x[1], w) /\ p[p[c].base].ctor # "none" /\ p[c].base # NoClass
      BY <2>1, <2>2, <2>3
    <3> QED BY <1>2, <1>5, <1>6, <2>4, <3>1, TableOfBase
  <2>6. Among(<<x[1], w>>, p[c].parts)
    <3>1. PICK y : y = <<x[1], w>>
      OBVIOUS
    <3>2. Among(y, BaseParts(p, p[c].base))
      BY <2>1, <2>2, <3>1 DEF BaseParts
    <3>3. Among(y, p[c].parts)
      BY <1>2, <3>2, PartIn
    <3> QED BY <3>1, <3>3
  <2>7. w \in 1 .. c
    BY <1>0, <1>2, <2>1
  <2> QED BY <1>4, <2>2, <2>5, <2>6, <2>7 DEF HasTable
<1>8. CASE Among(x, Twice(GridOf(PartsMap(p), p[c].fields, c)))
  <2>1. FromMember(p, c, x)
    BY <1>2, <1>8, MemberPart
  <2>2. PICK i \in 1 .. Len(p[c].fields) : \E e \in 1 .. MemberCount(p[c].fields[i]) :
          \E m \in Members(p, c) : \E y \in Place :
            /\ m = p[c].fields[i].class /\ m \in 1 .. c - 1
            /\ Among(y, p[m].parts) /\ y[1] \in Address
            /\ x[1] = Part(<<>>, c, i, e) \o y[1] /\ x[2] = y[2]
    BY ONLY <2>1 DEF FromMember
  <2>3. PICK e \in 1 .. MemberCount(p[c].fields[i]), m \in Members(p, c), y \in Place :
            /\ m = p[c].fields[i].class /\ m \in 1 .. c - 1
            /\ Among(y, p[m].parts) /\ y[1] \in Address
            /\ x[1] = Part(<<>>, c, i, e) \o y[1] /\ x[2] = y[2]
    BY ONLY <2>2
  <2>4. PICK w \in 1 .. m : Among(<<y[1], w>>, p[m].parts) /\ x[2] \in A[w] /\ Leaves(E[m], y[1], w)
    BY <1>3, <1>4, <2>3 DEF TablesSet, HasTable
  <2>5. PICK q \in Address : q = y[1]
    BY <2>3
  <2>6. Leaves(E[c], Part(<<>>, c, i, e) \o q, w)
    <3>1. Leaves(E[p[c].fields[i].class], q, w)
      BY <2>3, <2>4, <2>5
    <3> QED BY <1>2, <1>6, <3>1, TableOfMember
  <2>7. Among(<<Part(<<>>, c, i, e) \o q, w>>, p[c].parts)
    <3>1. Among(<<q, w>>, p[p[c].fields[i].class].parts)
      BY <2>3, <2>4, <2>5
    <3> QED BY <1>2, <3>1, PartOfMember
  <2>8. w \in 1 .. c
    BY <1>0, <1>2, <2>3
  <2> QED BY <1>4, <2>3, <2>4, <2>5, <2>6, <2>7, <2>8 DEF HasTable
<1>9. CASE x = <<<<>>, c>>
  BY <1>5, <1>9
<1> QED BY <1>2, <1>4, <1>7, <1>8, <1>9, PartIn

LEMMA SetsLocal ==
  ASSUME NEW p, Classes(p), NEW c \in 1 .. Len(p), NEW E, NEW G, \A b \in 1 .. c - 1 : E[b] = G[b]
  PROVE  AllSets(p, E, c) = AllSets(p, G, c)
<1>1. BaseSets(p, E, p[c].base) = BaseSets(p, G, p[c].base)
  <2>1. p[c].base # NoClass => p[c].base \in 1 .. c - 1
    BY ClassIs
  <2> QED BY <2>1 DEF BaseSets
<1>2. \A i \in 1 .. Len(p[c].fields) : E[p[c].fields[i].class] = G[p[c].fields[i].class]
  BY FieldIs
<1>3. GridOf(E, p[c].fields, c) = GridOf(G, p[c].fields, c)
  BY <1>2 DEF GridOf
<1> QED BY <1>1, <1>3 DEF AllSets

LEMMA SetsExist ==
  ASSUME NEW p, Classes(p)
  PROVE  \E E : SetsAre(p, E)
<1>0. Len(p) \in Nat
  BY DEF Classes
<1> DEFINE Good(n) == \E E : \A c \in 1 .. n : E[c] = AllSets(p, E, c)
           Bad == {n \in 0 .. Len(p) : ~ Good(n)}
<1>1. Bad = {}
  <2> SUFFICES ASSUME Bad # {} PROVE FALSE
    OBVIOUS
  <2>1. PICK n \in Bad : \A y \in Bad : n <= y
    <3>1. Bad \subseteq Nat
      BY <1>0
    <3> HIDE DEF Bad
    <3> QED BY <3>1, LeastOfNaturals
  <2>2. n \in 0 .. Len(p) /\ ~ Good(n)
    BY <2>1
  <2>3. n # 0
    <3>1. Good(0)
      OBVIOUS
    <3> QED BY <2>2, <3>1
  <2>4. Good(n - 1)
    <3> HIDE DEF Good
    <3>1. n - 1 \in 0 .. Len(p) /\ n - 1 < n /\ n \in Nat
      BY <1>0, <2>2, <2>3
    <3>2. n - 1 \notin Bad
      <4> HIDE DEF Bad
      <4> QED BY <2>1, <3>1
    <3> QED BY <3>1, <3>2
  <2>5. PICK E : \A c \in 1 .. n - 1 : E[c] = AllSets(p, E, c)
    BY <2>4
  <2> DEFINE G == [c \in 1 .. n |-> IF c = n THEN AllSets(p, E, n) ELSE E[c]]
  <2>6. \A c \in 1 .. n - 1 : G[c] = E[c]
    BY <1>0, <2>2
  <2>7. G[n] = AllSets(p, E, n)
    BY <1>0, <2>2, <2>3
  <2> HIDE DEF G, Bad
  <2>8. ASSUME NEW c \in 1 .. n PROVE G[c] = AllSets(p, G, c)
    <3>1. c \in 1 .. Len(p) /\ \A b \in 1 .. c - 1 : E[b] = G[b]
      BY <1>0, <2>2, <2>6
    <3>2. AllSets(p, E, c) = AllSets(p, G, c)
      BY <3>1, SetsLocal
    <3>3. CASE c = n
      BY <2>7, <3>2, <3>3
    <3>4. CASE c # n
      <4>1. c \in 1 .. n - 1
        BY <1>0, <2>2, <3>4
      <4> QED BY <2>5, <2>6, <3>2, <4>1
    <3> QED BY <3>3, <3>4
  <2>9. Good(n)
    BY <2>8
  <2> QED BY <2>2, <2>9
<1>2. Len(p) \in 0 .. Len(p)
  BY <1>0
<1>3. Good(Len(p))
  <2> HIDE DEF Good
  <2> QED BY <1>1, <1>2
<1> QED BY <1>3 DEF SetsAre

AllAncestors(p, A, c) == {c} \cup (IF p[c].base = NoClass THEN {} ELSE A[p[c].base])

LEMMA AncestorsLocal ==
  ASSUME NEW p, Classes(p), NEW c \in 1 .. Len(p), NEW E, NEW G, \A b \in 1 .. c - 1 : E[b] = G[b]
  PROVE  AllAncestors(p, E, c) = AllAncestors(p, G, c)
<1>1. p[c].base # NoClass => p[c].base \in 1 .. c - 1
  BY ClassIs
<1> QED BY <1>1 DEF AllAncestors

LEMMA AncestorsExist ==
  ASSUME NEW p, Classes(p)
  PROVE  \E A : A = [c \in 1 .. Len(p) |-> AllAncestors(p, A, c)]
<1>0. Len(p) \in Nat
  BY DEF Classes
<1> DEFINE Good(n) == \E E : \A c \in 1 .. n : E[c] = AllAncestors(p, E, c)
           Bad == {n \in 0 .. Len(p) : ~ Good(n)}
<1>1. Bad = {}
  <2> SUFFICES ASSUME Bad # {} PROVE FALSE
    OBVIOUS
  <2>1. PICK n \in Bad : \A y \in Bad : n <= y
    <3>1. Bad \subseteq Nat
      BY <1>0
    <3> HIDE DEF Bad
    <3> QED BY <3>1, LeastOfNaturals
  <2>2. n \in 0 .. Len(p) /\ ~ Good(n)
    BY <2>1
  <2>3. n # 0
    <3>1. Good(0)
      OBVIOUS
    <3> QED BY <2>2, <3>1
  <2>4. Good(n - 1)
    <3> HIDE DEF Good
    <3>1. n - 1 \in 0 .. Len(p) /\ n - 1 < n /\ n \in Nat
      BY <1>0, <2>2, <2>3
    <3>2. n - 1 \notin Bad
      <4> HIDE DEF Bad
      <4> QED BY <2>1, <3>1
    <3> QED BY <3>1, <3>2
  <2>5. PICK E : \A c \in 1 .. n - 1 : E[c] = AllAncestors(p, E, c)
    BY <2>4
  <2> DEFINE G == [c \in 1 .. n |-> IF c = n THEN AllAncestors(p, E, n) ELSE E[c]]
  <2>6. \A c \in 1 .. n - 1 : G[c] = E[c]
    BY <1>0, <2>2
  <2>7. G[n] = AllAncestors(p, E, n)
    BY <1>0, <2>2, <2>3
  <2> HIDE DEF G, Bad
  <2>8. ASSUME NEW c \in 1 .. n PROVE G[c] = AllAncestors(p, G, c)
    <3>1. c \in 1 .. Len(p) /\ \A b \in 1 .. c - 1 : E[b] = G[b]
      BY <1>0, <2>2, <2>6
    <3>2. AllAncestors(p, E, c) = AllAncestors(p, G, c)
      BY <3>1, AncestorsLocal
    <3>3. CASE c = n
      BY <2>7, <3>2, <3>3
    <3>4. CASE c # n
      <4>1. c \in 1 .. n - 1
        BY <1>0, <2>2, <3>4
      <4> QED BY <2>5, <2>6, <3>2, <4>1
    <3> QED BY <3>3, <3>4
  <2>9. Good(n)
    BY <2>8
  <2> QED BY <2>2, <2>9
<1>2. Len(p) \in 0 .. Len(p)
  BY <1>0
<1>3. Good(Len(p))
  <2> HIDE DEF Good
  <2> QED BY <1>1, <1>2
<1>4. PICK E : \A c \in 1 .. Len(p) : E[c] = AllAncestors(p, E, c)
  BY <1>3
<1> DEFINE A == [c \in 1 .. Len(p) |-> E[c]]
<1>5. \A c \in 1 .. Len(p) : A[c] = E[c]
  OBVIOUS
<1> HIDE DEF A
<1>6. \A c \in 1 .. Len(p) : A[c] = AllAncestors(p, A, c)
  <2> TAKE c \in 1 .. Len(p)
  <2>1. \A b \in 1 .. c - 1 : E[b] = A[b]
    BY <1>0, <1>5
  <2>2. AllAncestors(p, E, c) = AllAncestors(p, A, c)
    BY <2>1, AncestorsLocal
  <2> QED BY <1>4, <1>5, <2>2
<1>7. A = [c \in 1 .. Len(p) |-> AllAncestors(p, A, c)]
  <2>1. A = [c \in 1 .. Len(p) |-> A[c]]
    BY DEF A
  <2> QED BY <1>6, <2>1
<1> QED BY <1>7

LEMMA AncestorsAre ==
  ASSUME Classes(program)
  PROVE  AncIs(program, Ancestors)
<1>1. DOMAIN program = 1 .. Len(program)
  BY DEF Classes
<1>2. PICK A : A = [c \in 1 .. Len(program) |-> AllAncestors(program, A, c)]
  BY AncestorsExist
<1>3. A = [c \in DOMAIN program |-> {c} \cup (IF program[c].base = NoClass THEN {} ELSE A[program[c].base])]
  BY <1>1, <1>2 DEF AllAncestors
<1>4. Ancestors = [c \in DOMAIN program |-> {c} \cup (IF program[c].base = NoClass THEN {} ELSE Ancestors[program[c].base])]
  BY <1>3 DEF Ancestors
<1>5. ASSUME NEW c \in 1 .. Len(program)
      PROVE  Ancestors[c] = {c} \cup (IF program[c].base = NoClass THEN {} ELSE Ancestors[program[c].base])
  BY <1>1, <1>4, Zenon
<1> QED BY <1>5 DEF AncIs

Sets(p) == CHOOSE E : SetsAre(p, E)

LEMMA SetsAreSo ==
  ASSUME NEW p, Classes(p)
  PROVE  SetsAre(p, Sets(p))
BY SetsExist DEF Sets

(* The same, where h makes something of other statements.                  *)
LEMMA EachSilent ==
  ASSUME NEW T, NEW U, NEW h, IsMap(h, T, Seq(U)), NEW S, S \subseteq T, NEW s \in Seq(S), \A x \in S : h[x] = <<>>
  PROVE  Each(h, s) = <<>>
<1>1. Len(s) \in Nat /\ DOMAIN s = 1 .. Len(s) /\ \A k \in 1 .. Len(s) : s[k] \in S
  BY LenProperties, ElementOfSeq
<1>2. PICK f : f = Of(h, s)
  OBVIOUS
<1>a. s \in Seq(T)
  BY <1>1, FunctionSeq
<1>3. f = [k \in 1 .. Len(s) |-> <<>>] /\ Len(f) = Len(s)
  BY <1>1, <1>2, <1>a, OfIn DEF Of
<1> QED BY <1>1, <1>2, <1>3, FlattenNothing DEF Each

LEMMA ClassesNothing ==
  ASSUME NEW cs, NEW s \in Seq(Place), \A x : Among(x, s) => x[2] \notin cs
  PROVE  OfClasses(s, cs) = <<>>
<1>1. Len(s) \in Nat /\ DOMAIN s = 1 .. Len(s)
  BY LenProperties
<1>2. \A k \in 1 .. Len(s) : s[k][2] \notin cs
  BY DEF Among
<1>3. PICK f : f = [k \in DOMAIN s |-> IF s[k][2] \in cs THEN <<s[k]>> ELSE <<>>]
  OBVIOUS
<1>4. f = [k \in 1 .. Len(s) |-> <<>>]
  BY <1>1, <1>2, <1>3
<1>5. Len(f) = Len(s)
  BY <1>1, <1>4
<1> QED BY <1>1, <1>3, <1>4, <1>5, FlattenNothing DEF OfClasses

LEMMA NothingInside ==
  ASSUME NEW at
  PROVE  Inside(at, <<>>) = <<>> /\ Reverse(<<>>) = <<>>
BY DEF Inside, Reverse

LEMMA InsideNothing ==
  ASSUME NEW s \in Seq(Place)
  PROVE  Inside(<<>>, s) = s
<1>1. Inside(<<>>, s) \in Seq(Place) /\ Len(Inside(<<>>, s)) = Len(s)
      /\ \A k \in 1 .. Len(s) : Inside(<<>>, s)[k] = <<<<>> \o s[k][1], s[k][2]>>
  BY EmptyAddress, InsideIn
<1>2. ASSUME NEW k \in 1 .. Len(s) PROVE Inside(<<>>, s)[k] = s[k]
  <2>1. s[k] \in Place
    BY ElementOfSeq
  <2>2. s[k][1] \in Address /\ s[k] = <<s[k][1], s[k][2]>>
    BY <2>1, EmptyAddress, PlaceAt
  <2>3. <<>> \o s[k][1] = s[k][1]
    BY <2>2, ConcatEmptySeq DEF Address
  <2> QED BY <1>1, <2>2, <2>3
<1> QED BY <1>1, <1>2, SeqEqual

LEMMA OneInSeq ==
  ASSUME NEW T, NEW x \in T
  PROVE  <<x>> \in Seq(T) /\ Len(<<x>>) = 1 /\ <<x>>[1] = x /\ Head(<<x>>) = x
OBVIOUS

LEMMA InsideItself ==
  ASSUME NEW at \in Address, NEW c \in Nat
  PROVE  Inside(at, Itself(c)) = <<<<at, c>>>> /\ <<<<at, c>>>> \in Seq(Place)
<1>1. at \o <<>> = at
  BY ConcatEmptySeq DEF Address
<1>2. PICK r : r = Inside(at, Itself(c))
  OBVIOUS
<1>3. PICK t \in Seq(Place) : t = Itself(c) /\ Len(t) = 1 /\ t[1] = <<<<>>, c>>
  <2>1. <<<<>>, c>> \in Place
    BY EmptyAddress DEF Place
  <2> QED BY <2>1, OneInSeq DEF Itself
<1>4. <<at, c>> \in Place
  BY DEF Place
<1>5. PICK q \in Seq(Place) : q = <<<<at, c>>>> /\ Len(q) = 1 /\ q[1] = <<at, c>>
  BY <1>4, OneInSeq
<1>6. r \in Seq(Place) /\ Len(r) = 1 /\ r[1] = <<at, c>>
  <2>1. /\ Inside(at, t) \in Seq(Place) /\ Len(Inside(at, t)) = Len(t)
         /\ \A k \in 1 .. Len(t) : Inside(at, t)[k] = <<at \o t[k][1], t[k][2]>>
    BY ONLY at \in Address, t \in Seq(Place), InsideIn
  <2>2. t[1][1] = <<>> /\ t[1][2] = c /\ 1 \in 1 .. Len(t)
    BY <1>3
  <2> QED BY <1>1, <1>2, <1>3, <2>1, <2>2
<1>7. r = q
  BY <1>5, <1>6, SeqEqual
<1> QED BY <1>2, <1>5, <1>7

-----------------------------------------------------------------------------
(* The member constructors and destructors, as grids.                      *)
LEMMA AlikeCount ==
  ASSUME NEW f, f.shape \in AlikeShapes
  PROVE  MemberCount(f) = IF Injected(f) THEN Elements(f.shape) ELSE 0
BY DEF AlikeShapes, MemberCount, Injected, Owns

LEMMA MemberCtorsAre ==
  ASSUME Classes(program), NEW c \in 1 .. Len(program), NEW at
  PROVE  MemberCtors(at, c) = Twice(CallGrid(at, program[c].fields, c))
<1>1. PICK fs : fs = program[c].fields
  OBVIOUS
<1>2. Len(fs) \in Nat /\ \A i \in 1 .. Len(fs) : fs[i].shape \in AlikeShapes
  BY <1>1, ClassIs, FieldIs
<1>3. PICK g : g = CallGrid(at, fs, c)
  OBVIOUS
<1>4. ASSUME NEW i \in 1 .. Len(fs)
      PROVE  g[i] = [e \in 1 .. (IF Injected(fs[i]) THEN Elements(fs[i].shape) ELSE 0) |->
                       Initialise(Part(at, c, i, e), fs[i].class)]
  <2>1. MemberCount(fs[i]) = IF Injected(fs[i]) THEN Elements(fs[i].shape) ELSE 0
    BY <1>2, AlikeCount
  <2> QED BY <1>3, <2>1 DEF CallGrid
<1>5. Len(g) = Len(fs)
  BY <1>2, <1>3 DEF CallGrid
<1>6. Twice(g) = FlattenSeq([i \in 1 .. Len(fs) |-> FlattenSeq(g[i])])
  BY <1>5 DEF Twice
<1>7. Twice(g) = FlattenSeq([i \in 1 .. Len(fs) |-> FlattenSeq(
                   [e \in 1 .. (IF Injected(fs[i]) THEN Elements(fs[i].shape) ELSE 0) |->
                       Initialise(Part(at, c, i, e), fs[i].class)])])
  BY <1>4, <1>6
<1> QED BY <1>1, <1>3, <1>7 DEF MemberCtors

Live(fs) == {i \in 1 .. Len(fs) : program[fs[i].class].dtor # "none"}

LEMMA MemberDtorsAre ==
  ASSUME Classes(program), NEW c \in 1 .. Len(program), NEW at
  PROVE  MemberDtors(at, c) = FlattenSeq(DtorCalls(at, program[c].fields, c, Live(program[c].fields)))
<1>1. PICK fs : fs = program[c].fields
  OBVIOUS
<1>2. Len(fs) \in Nat /\ \A i \in 1 .. Len(fs) : fs[i].shape \in AlikeShapes
  BY <1>1, ClassIs, FieldIs
<1> DEFINE Count(i) == IF Injected(fs[i]) /\ program[fs[i].class].dtor # "none" THEN Elements(fs[i].shape) ELSE 0
<1>4. ASSUME NEW i \in 1 .. Len(fs)
      PROVE  Count(i) = IF i \in Live(fs) THEN MemberCount(fs[i]) ELSE 0
  BY <1>2, AlikeCount DEF Live
<1>5. ASSUME NEW k \in 1 .. Len(fs)
      PROVE  DtorCalls(at, fs, c, Live(fs))[k] = DtorRow(at, c, Len(fs) + 1 - k, fs[Len(fs) + 1 - k].class, Count(Len(fs) + 1 - k))
  <2>1. Len(fs) + 1 - k \in 1 .. Len(fs)
    BY ONLY <1>2, k \in 1 .. Len(fs)
  <2> HIDE DEF Count
  <2> QED BY <1>4, <2>1 DEF DtorCalls
<1>6. DtorCalls(at, fs, c, Live(fs)) =
        [k \in 1 .. Len(fs) |-> DtorRow(at, c, Len(fs) + 1 - k, fs[Len(fs) + 1 - k].class, Count(Len(fs) + 1 - k))]
  <2>1. DtorCalls(at, fs, c, Live(fs)) = [k \in 1 .. Len(fs) |-> DtorCalls(at, fs, c, Live(fs))[k]]
    BY DEF DtorCalls
  <2> HIDE DEF Count
  <2> QED BY <1>5, <2>1
<1> QED BY <1>1, <1>6 DEF MemberDtors, DtorRow

LEMMA SeqWithin ==
  ASSUME NEW S, NEW T, S \subseteq T, NEW s \in Seq(S)
  PROVE  s \in Seq(T)
<1>1. Len(s) \in Nat /\ DOMAIN s = 1 .. Len(s) /\ \A k \in 1 .. Len(s) : s[k] \in S
  BY LenProperties, ElementOfSeq
<1>2. s \in [1 .. Len(s) -> T]
  BY <1>1
<1> QED BY <1>1, <1>2, FunctionSeq

-----------------------------------------------------------------------------
(* What is still to come of a statement: the constructors of the user it   *)
(* will run, the vtables it will set, the destructors it will run.         *)
BuildOf == [c \in DOMAIN program |-> OfClasses(program[c].parts, UserCtors)]
GoneOf == [c \in DOMAIN program |-> OfClasses(program[c].parts, UserDtors)]
SetOf == Sets(program)

BuildMap ==
  [s \in Statement |->
     IF s.class \notin DOMAIN program THEN <<>>
     ELSE IF s.op = "ctor" THEN Inside(s.at, BuildOf[s.class])
     ELSE IF s.op = "ctor body" /\ s.class \in UserCtors THEN <<<<s.at, s.class>>>>
     ELSE <<>>]
SetMap ==
  [s \in Statement |->
     IF s.class \notin DOMAIN program THEN <<>>
     ELSE IF s.op = "ctor" THEN Inside(s.at, SetOf[s.class])
     ELSE IF s.op = "vtable" THEN <<<<s.at, s.class>>>>
     ELSE <<>>]
GoneMap ==
  [s \in Statement |->
     IF s.class \notin DOMAIN program THEN <<>>
     ELSE IF s.op = "dtor" THEN Inside(s.at, Reverse(GoneOf[s.class]))
     ELSE IF s.op = "dtor body" /\ s.class \in UserDtors THEN <<<<s.at, s.class>>>>
     ELSE IF s.op = "delete" THEN Inside(s.at, Reverse(GoneOf[Len(program)]))
     ELSE <<>>]

CtorSt == {s \in Statement :
  s.op \in {"ctor", "ctor body", "vtable"} /\ s.class \in 1 .. Len(program)
    /\ (s.op # "vtable" => program[s.class].ctor # "none")}
DtorSt == {s \in Statement :
  s.op \in {"dtor", "dtor body", "delete"} /\ s.class \in 1 .. Len(program)
    /\ (s.op = "delete" => s.at = TheObject /\ (program[s.class].virtualDtor \/ s.class = Len(program)))}
UseSt == {s \in Statement : s.op = "use"}

LEMMA OfsFit ==
  ASSUME Classes(program), NEW c \in 1 .. Len(program)
  PROVE  /\ BuildOf[c] = OfClasses(program[c].parts, UserCtors) /\ BuildOf[c] \in Seq(Place)
         /\ GoneOf[c] = OfClasses(program[c].parts, UserDtors) /\ GoneOf[c] \in Seq(Place)
         /\ Reverse(GoneOf[c]) \in Seq(Place)
         /\ SetOf[c] = AllSets(program, SetOf, c) /\ SetOf[c] \in Seq(Place)
<1>1. DOMAIN program = 1 .. Len(program)
  BY DEF Classes
<1>2. program[c].parts \in Seq(Place)
  BY PartsFit
<1>3. SetsAre(program, SetOf)
  BY SetsAreSo DEF SetOf
<1>4. SetOf[c] = AllSets(program, SetOf, c) /\ SetOf[c] \in Seq(Place)
  BY <1>3, SetsFit
<1>5. BuildOf[c] = OfClasses(program[c].parts, UserCtors) /\ BuildOf[c] \in Seq(Place)
  BY <1>1, <1>2, OfClassesIn DEF BuildOf
<1>6. GoneOf[c] = OfClasses(program[c].parts, UserDtors) /\ GoneOf[c] \in Seq(Place)
  BY <1>1, <1>2, OfClassesIn DEF GoneOf
<1>7. Reverse(GoneOf[c]) \in Seq(Place)
  BY <1>6, ReverseIn
<1> QED BY <1>4, <1>5, <1>6, <1>7

LEMMA MapsAre ==
  ASSUME Classes(program)
  PROVE  /\ IsMap(BuildMap, Statement, Seq(Place)) /\ IsMap(SetMap, Statement, Seq(Place))
         /\ IsMap(GoneMap, Statement, Seq(Place))
<1>1. DOMAIN program = 1 .. Len(program) /\ Len(program) \in Nat
  BY DEF Classes
<1>2. <<>> \in Seq(Place)
  BY EmptySeq
<1>3. ASSUME NEW s \in Statement, s.class \in DOMAIN program
      PROVE  /\ s.at \in Address /\ s.class \in 1 .. Len(program) /\ Len(program) \in 1 .. Len(program)
             /\ <<<<s.at, s.class>>>> \in Seq(Place)
             /\ Inside(s.at, BuildOf[s.class]) \in Seq(Place)
             /\ Inside(s.at, SetOf[s.class]) \in Seq(Place)
             /\ Inside(s.at, Reverse(GoneOf[s.class])) \in Seq(Place)
             /\ Inside(s.at, Reverse(GoneOf[Len(program)])) \in Seq(Place)
  <2>1. s.at \in Address /\ s.class \in Nat
    BY DEF Statement
  <2>2. s.class \in 1 .. Len(program) /\ Len(program) \in 1 .. Len(program)
    BY <1>1, <1>3
  <2>3. <<<<s.at, s.class>>>> \in Seq(Place)
    BY <2>1, InsideItself
  <2>4. BuildOf[s.class] \in Seq(Place) /\ SetOf[s.class] \in Seq(Place) /\ Reverse(GoneOf[s.class]) \in Seq(Place)
        /\ Reverse(GoneOf[Len(program)]) \in Seq(Place)
    BY <2>2, OfsFit
  <2>5. Inside(s.at, BuildOf[s.class]) \in Seq(Place)
    BY <2>1, <2>4, InsideIn
  <2>6. Inside(s.at, SetOf[s.class]) \in Seq(Place)
    BY <2>1, <2>4, InsideIn
  <2>7. Inside(s.at, Reverse(GoneOf[s.class])) \in Seq(Place)
    BY <2>1, <2>4, InsideIn
  <2>8. Inside(s.at, Reverse(GoneOf[Len(program)])) \in Seq(Place)
    BY <2>1, <2>4, InsideIn
  <2> QED BY <2>1, <2>2, <2>3, <2>5, <2>6, <2>7, <2>8
<1>4. IsMap(BuildMap, Statement, Seq(Place))
  BY <1>2, <1>3 DEF IsMap, BuildMap
<1>5. IsMap(SetMap, Statement, Seq(Place))
  BY <1>2, <1>3 DEF IsMap, SetMap
<1>6. IsMap(GoneMap, Statement, Seq(Place))
  BY <1>2, <1>3 DEF IsMap, GoneMap
<1> QED BY <1>4, <1>5, <1>6

LEMMA MapsAt ==
  ASSUME Classes(program), NEW op \in Ops, NEW at \in Address, NEW c \in 1 .. Len(program)
  PROVE  /\ Perform(op, at, c) \in Statement
         /\ BuildMap[Perform(op, at, c)] =
              IF op = "ctor" THEN Inside(at, BuildOf[c])
              ELSE IF op = "ctor body" /\ c \in UserCtors THEN <<<<at, c>>>> ELSE <<>>
         /\ SetMap[Perform(op, at, c)] =
              IF op = "ctor" THEN Inside(at, SetOf[c]) ELSE IF op = "vtable" THEN <<<<at, c>>>> ELSE <<>>
         /\ GoneMap[Perform(op, at, c)] =
              IF op = "dtor" THEN Inside(at, Reverse(GoneOf[c]))
              ELSE IF op = "dtor body" /\ c \in UserDtors THEN <<<<at, c>>>>
              ELSE IF op = "delete" THEN Inside(at, Reverse(GoneOf[Len(program)])) ELSE <<>>
<1>1. c \in DOMAIN program /\ c \in Nat
  BY DEF Classes
<1>2. PICK s : s = Perform(op, at, c)
  OBVIOUS
<1>3. s \in Statement /\ s.op = op /\ s.at = at /\ s.class = c
  BY <1>1, <1>2, PerformIn
<1>4. BuildMap[s] =
              IF op = "ctor" THEN Inside(at, BuildOf[c])
              ELSE IF op = "ctor body" /\ c \in UserCtors THEN <<<<at, c>>>> ELSE <<>>
  BY <1>1, <1>3 DEF BuildMap
<1>5. SetMap[s] = IF op = "ctor" THEN Inside(at, SetOf[c]) ELSE IF op = "vtable" THEN <<<<at, c>>>> ELSE <<>>
  BY <1>1, <1>3 DEF SetMap
<1>6. GoneMap[s] =
              IF op = "dtor" THEN Inside(at, Reverse(GoneOf[c]))
              ELSE IF op = "dtor body" /\ c \in UserDtors THEN <<<<at, c>>>>
              ELSE IF op = "delete" THEN Inside(at, Reverse(GoneOf[Len(program)])) ELSE <<>>
  BY <1>1, <1>3 DEF GoneMap
<1> QED BY <1>2, <1>3, <1>4, <1>5, <1>6

-----------------------------------------------------------------------------
(* Initialisation does what is to be done with all parts.                  *)
Inits(h, F) ==
  /\ IsMap(h, Statement, Seq(Place))
  /\ \A c \in 1 .. Len(program) : F[c] \in Seq(Place) /\ \A at \in Address : Each(h, Initialise(at, c)) = Inside(at, F[c])

LEMMA InitialiseIn ==
  ASSUME Classes(program), NEW c \in 1 .. Len(program), NEW at \in Address
  PROVE  Initialise(at, c) \in Seq(CtorSt) /\ Initialise(at, c) \in Seq(Statement)
<1>1. c \in Nat
  BY ClassIs
<1>2. "ctor" \in Ops /\ "vtable" \in Ops
  BY DEF Ops
<1>3. CASE program[c].ctor # "none"
  <2>0. /\ Perform("ctor", at, c) \in Statement /\ Perform("ctor", at, c).op = "ctor"
        /\ Perform("ctor", at, c).class = c
    BY ONLY <1>1, <1>2, at \in Address, PerformIn
  <2>1. Perform("ctor", at, c) \in CtorSt
    BY <1>3, <2>0 DEF CtorSt
  <2>2. <<Perform("ctor", at, c)>> \in Seq(CtorSt)
    BY <2>1, OneInSeq
  <2>3. Initialise(at, c) \in Seq(CtorSt)
    BY <1>3, <2>2 DEF Initialise
  <2>4. CtorSt \subseteq Statement
    BY DEF CtorSt
  <2> QED BY <2>3, <2>4, SeqWithin
<1>4. CASE program[c].ctor = "none" /\ program[c].vtable
  <2>0. /\ Perform("vtable", at, c) \in Statement /\ Perform("vtable", at, c).op = "vtable"
        /\ Perform("vtable", at, c).class = c
    BY ONLY <1>1, <1>2, at \in Address, PerformIn
  <2>1. Perform("vtable", at, c) \in CtorSt
    BY <2>0 DEF CtorSt
  <2>2. <<Perform("vtable", at, c)>> \in Seq(CtorSt)
    BY <2>1, OneInSeq
  <2>3. Initialise(at, c) \in Seq(CtorSt)
    BY <1>4, <2>2 DEF Initialise
  <2>4. CtorSt \subseteq Statement
    BY DEF CtorSt
  <2> QED BY <2>3, <2>4, SeqWithin
<1>5. CASE program[c].ctor = "none" /\ ~ program[c].vtable
  BY <1>5, EmptySeq DEF Initialise
<1> QED BY <1>3, <1>4, <1>5

LEMMA NothingBuilt ==
  ASSUME Classes(program), NEW c \in 1 .. Len(program), program[c].ctor = "none"
  PROVE  BuildOf[c] = <<>>
<1>1. Unbuilt(program, c)
  BY UnbuiltHolds, AncestorsAre
<1>2. program[c].parts \in Seq(Place)
  BY PartsFit
<1>3. \A x : Among(x, program[c].parts) => x[2] \notin UserCtors
  BY <1>1 DEF Unbuilt, UserCtors
<1> QED BY <1>2, <1>3, ClassesNothing, OfsFit

LEMMA NothingGone ==
  ASSUME Classes(program), NEW c \in 1 .. Len(program), program[c].dtor = "none"
  PROVE  GoneOf[c] = <<>>
<1>1. Undone(program, c)
  BY UndoneHolds
<1>2. program[c].parts \in Seq(Place)
  BY PartsFit
<1>3. \A x : Among(x, program[c].parts) => x[2] \notin UserDtors
  BY <1>1 DEF Undone, UserDtors
<1> QED BY <1>2, <1>3, ClassesNothing, OfsFit

LEMMA InitsBuild ==
  ASSUME Classes(program)
  PROVE  Inits(BuildMap, BuildOf)
<1>1. ASSUME NEW c \in 1 .. Len(program), NEW at \in Address
      PROVE  Each(BuildMap, Initialise(at, c)) = Inside(at, BuildOf[c])
  <2>1. "ctor" \in Ops /\ "vtable" \in Ops
    BY DEF Ops
  <2>2. Perform("ctor", at, c) \in Statement /\ BuildMap[Perform("ctor", at, c)] = Inside(at, BuildOf[c])
    BY <2>1, MapsAt
  <2>3. Perform("vtable", at, c) \in Statement /\ BuildMap[Perform("vtable", at, c)] = <<>>
    BY <2>1, MapsAt
  <2>4. CASE program[c].ctor # "none"
    BY <2>2, <2>4, MapsAre, EachOne DEF Initialise
  <2>5. CASE program[c].ctor = "none"
    <3>1. Inside(at, BuildOf[c]) = <<>>
      BY <2>5, NothingBuilt, NothingInside
    <3>2. CASE program[c].vtable
      BY <2>3, <2>5, <3>1, <3>2, MapsAre, EachOne DEF Initialise
    <3>3. CASE ~ program[c].vtable
      BY <2>5, <3>1, <3>3, EachEmpty DEF Initialise
    <3> QED BY <3>2, <3>3
  <2> QED BY <2>4, <2>5
<1> QED BY <1>1, OfsFit, MapsAre DEF Inits

LEMMA InitsSet ==
  ASSUME Classes(program)
  PROVE  Inits(SetMap, SetOf)
<1>1. ASSUME NEW c \in 1 .. Len(program), NEW at \in Address
      PROVE  Each(SetMap, Initialise(at, c)) = Inside(at, SetOf[c])
  <2>1. "ctor" \in Ops /\ "vtable" \in Ops
    BY DEF Ops
  <2>2. Perform("ctor", at, c) \in Statement /\ SetMap[Perform("ctor", at, c)] = Inside(at, SetOf[c])
    BY <2>1, MapsAt
  <2>3. Perform("vtable", at, c) \in Statement /\ SetMap[Perform("vtable", at, c)] = <<<<at, c>>>>
    BY <2>1, MapsAt
  <2>4. CASE program[c].ctor # "none"
    BY <2>2, <2>4, MapsAre, EachOne DEF Initialise
  <2>5. CASE program[c].ctor = "none"
    <3>1. SetOf[c] = Own(program, c)
      BY <2>5, OfsFit DEF AllSets
    <3>2. CASE program[c].vtable
      <4>1. c \in Nat
        BY ClassIs
      <4>2. Inside(at, SetOf[c]) = <<<<at, c>>>>
        BY <3>1, <3>2, <4>1, InsideItself DEF Own
      <4> QED BY <2>3, <2>5, <3>2, <4>2, MapsAre, EachOne DEF Initialise
    <3>3. CASE ~ program[c].vtable
      BY <2>5, <3>1, <3>3, EachEmpty, NothingInside DEF Initialise, Own
    <3> QED BY <3>2, <3>3
  <2> QED BY <2>4, <2>5
<1> QED BY <1>1, OfsFit, MapsAre DEF Inits

LEMMA OfClassesItself ==
  ASSUME NEW c \in Nat \ {0}, NEW cs
  PROVE  OfClasses(Itself(c), cs) = IF c \in cs THEN Itself(c) ELSE <<>>
<1>1. PICK x \in Place : x = <<<<>>, c>> /\ x[2] = c
  <2>1. <<<<>>, c>> \in Place
    BY EmptyAddress DEF Place
  <2> QED BY <2>1
<1>2. Itself(c) = <<x>> /\ Itself(c) \in Seq(Place)
  BY <1>1, ItselfIn DEF Itself
<1>3. OfClasses(Itself(c), cs) = Each(ClassMap(cs), <<x>>)
  BY <1>2, OfClassesIs
<1>4. Each(ClassMap(cs), <<x>>) = ClassMap(cs)[x]
  BY ClassMapIs, EachOne
<1>5. ClassMap(cs)[x] = IF x[2] \in cs THEN <<x>> ELSE <<>>
  BY DEF ClassMap
<1> QED BY <1>1, <1>2, <1>3, <1>4, <1>5

LEMMA CallsDo ==
  ASSUME Classes(program), NEW fs, Len(fs) \in Nat, \A i \in 1 .. Len(fs) : fs[i].class \in 1 .. Len(program),
         NEW c \in Nat, NEW at \in Address
  PROVE  /\ Twice(CallGrid(at, fs, c)) \in Seq(CtorSt) /\ Twice(CallGrid(at, fs, c)) \in Seq(Statement)
         /\ \A h, F : Inits(h, F) =>
              Fits(F, fs) /\ Each(h, Twice(CallGrid(at, fs, c))) = Inside(at, Twice(GridOf(F, fs, c)))
<1>1. \A i \in 1 .. Len(fs) : \A a \in Address :
        Initialise(a, fs[i].class) \in Seq(CtorSt) /\ Initialise(a, fs[i].class) \in Seq(Statement)
  BY InitialiseIn
<1>2. CallGrid(at, fs, c) \in Seq(Seq(Seq(CtorSt)))
  BY <1>1, CallGridIn
<1>3. Twice(CallGrid(at, fs, c)) \in Seq(CtorSt)
  BY <1>2, TwiceIn
<1>4. CtorSt \subseteq Statement
  BY DEF CtorSt
<1>5. Twice(CallGrid(at, fs, c)) \in Seq(Statement)
  BY <1>3, <1>4, SeqWithin
<1>6. ASSUME NEW h, NEW F, Inits(h, F)
      PROVE  Fits(F, fs) /\ Each(h, Twice(CallGrid(at, fs, c))) = Inside(at, Twice(GridOf(F, fs, c)))
  <2>1. Fits(F, fs)
    BY <1>6 DEF Inits, Fits
  <2>2. IsMap(h, Statement, Seq(Place))
    BY <1>6 DEF Inits
  <2>3. \A i \in 1 .. Len(fs) : \A a \in Address :
           /\ Initialise(a, fs[i].class) \in Seq(Statement)
           /\ Each(h, Initialise(a, fs[i].class)) = Inside(a, F[fs[i].class])
    BY <1>1, <1>6 DEF Inits
  <2>4. Each(h, Twice(CallGrid(at, fs, c))) = Inside(at, Twice(GridOf(F, fs, c)))
    BY ONLY <2>1, <2>2, <2>3, at \in Address, c \in Nat, CallsPlace
  <2> QED BY <2>1, <2>4
<1> QED BY <1>3, <1>5, <1>6

(* Members, base, vtable and body of one constructor.                      *)
MembersDo(at, c) ==
  /\ MemberCtors(at, c) \in Seq(CtorSt) /\ MemberCtors(at, c) \in Seq(Statement)
  /\ \A h, F : Inits(h, F) =>
       /\ Fits(F, program[c].fields)
       /\ Each(h, MemberCtors(at, c)) = Inside(at, Twice(GridOf(F, program[c].fields, c)))

LEMMA MembersDoSo ==
  ASSUME Classes(program), NEW c \in 1 .. Len(program), NEW at \in Address
  PROVE  MembersDo(at, c)
<1>1. PICK fs : fs = program[c].fields
  OBVIOUS
<1>2. Len(fs) \in Nat /\ \A i \in 1 .. Len(fs) : fs[i].class \in 1 .. Len(program)
  BY <1>1, ClassIs, FieldIs
<1>3. c \in Nat
  BY ClassIs
<1>4. MemberCtors(at, c) = Twice(CallGrid(at, fs, c))
  BY <1>1, MemberCtorsAre
<1>5. /\ Twice(CallGrid(at, fs, c)) \in Seq(CtorSt) /\ Twice(CallGrid(at, fs, c)) \in Seq(Statement)
      /\ \A h, F : Inits(h, F) =>
              Fits(F, fs) /\ Each(h, Twice(CallGrid(at, fs, c))) = Inside(at, Twice(GridOf(F, fs, c)))
  BY ONLY <1>2, <1>3, Classes(program), at \in Address, CallsDo
<1> QED BY <1>1, <1>4, <1>5 DEF MembersDo

PartDoes(s, b, e) ==
  /\ s \in Seq(CtorSt) /\ s \in Seq(Statement)
  /\ Each(BuildMap, s) = b /\ Each(SetMap, s) = e

LEMMA BaseDoes ==
  ASSUME Classes(program), NEW c \in 1 .. Len(program), NEW at \in Address
  PROVE  PartDoes(BaseCtor(at, c), Inside(at, OfClasses(BaseParts(program, program[c].base), UserCtors)),
                  Inside(at, BaseSets(program, SetOf, program[c].base)))
<1>1. PICK b : b = program[c].base
  OBVIOUS
<1>2. b \in Nat /\ (b # NoClass => b \in 1 .. Len(program))
  BY <1>1, ClassIs
<1>3. CASE b = NoClass
  <2>1. BaseCtor(at, c) = <<>>
    BY <1>1, <1>3 DEF BaseCtor
  <2>2. BaseParts(program, b) = <<>> /\ BaseSets(program, SetOf, b) = <<>>
    BY <1>3 DEF BaseParts, BaseSets
  <2>3. OfClasses(<<>>, UserCtors) = <<>>
    BY EmptySeq, OfClassesIs, EachEmpty
  <2> QED BY <1>1, <2>1, <2>2, <2>3, EmptySeq, EachEmpty, NothingInside DEF PartDoes
<1>4. CASE b # NoClass /\ program[b].ctor = "none"
  <2>1. BaseCtor(at, c) = <<>>
    BY <1>1, <1>4 DEF BaseCtor
  <2>2. BaseParts(program, b) = program[b].parts /\ BaseSets(program, SetOf, b) = <<>>
    BY <1>4 DEF BaseParts, BaseSets
  <2>3. OfClasses(BaseParts(program, b), UserCtors) = <<>>
    BY <1>2, <1>4, <2>2, NothingBuilt, OfsFit
  <2> QED BY <1>1, <2>1, <2>2, <2>3, EmptySeq, EachEmpty, NothingInside DEF PartDoes
<1>5. CASE b # NoClass /\ program[b].ctor # "none"
  <2>1. BaseCtor(at, c) = <<Perform("ctor", at, b)>> /\ Initialise(at, b) = <<Perform("ctor", at, b)>>
    BY <1>1, <1>5 DEF BaseCtor, Initialise
  <2>2. BaseParts(program, b) = program[b].parts /\ BaseSets(program, SetOf, b) = SetOf[b]
    BY <1>5 DEF BaseParts, BaseSets
  <2>3. b \in 1 .. Len(program) /\ BuildOf[b] = OfClasses(BaseParts(program, b), UserCtors)
    BY <1>2, <1>5, <2>2, OfsFit
  <2>4. Initialise(at, b) \in Seq(CtorSt) /\ Initialise(at, b) \in Seq(Statement)
    BY <2>3, InitialiseIn
  <2>5. Each(BuildMap, Initialise(at, b)) = Inside(at, BuildOf[b])
    BY <2>3, InitsBuild DEF Inits
  <2>6. Each(SetMap, Initialise(at, b)) = Inside(at, SetOf[b])
    BY <2>3, InitsSet DEF Inits
  <2> QED BY <1>1, <2>1, <2>2, <2>3, <2>4, <2>5, <2>6 DEF PartDoes
<1> QED BY <1>3, <1>4, <1>5

LEMMA StatementDoes ==
  ASSUME Classes(program), NEW c \in 1 .. Len(program), NEW at \in Address, NEW op \in {"vtable", "ctor body"},
         op = "vtable" \/ program[c].ctor # "none"
  PROVE  PartDoes(<<Perform(op, at, c)>>, BuildMap[Perform(op, at, c)], SetMap[Perform(op, at, c)])
<1>1. c \in Nat /\ op \in Ops
  BY ClassIs DEF Ops
<1>2. PICK s : s = Perform(op, at, c)
  OBVIOUS
<1>3. s \in Statement /\ s.op = op /\ s.class = c
  <2>1. /\ Perform(op, at, c) \in Statement /\ Perform(op, at, c).op = op
        /\ Perform(op, at, c).at = at /\ Perform(op, at, c).class = c
    BY <1>1 DEF Perform, Statement
  <2> QED BY <1>2, <2>1
<1>4. s \in CtorSt
  BY <1>3 DEF CtorSt
<1>5. <<s>> \in Seq(CtorSt) /\ <<s>> \in Seq(Statement)
  BY <1>3, <1>4, OneInSeq
<1>6. Each(BuildMap, <<s>>) = BuildMap[s] /\ Each(SetMap, <<s>>) = SetMap[s]
  <2>1. IsMap(BuildMap, Statement, Seq(Place)) /\ IsMap(SetMap, Statement, Seq(Place))
    BY MapsAre
  <2>2. Each(BuildMap, <<s>>) = BuildMap[s]
    BY ONLY <1>3, <2>1, EachOne
  <2>3. Each(SetMap, <<s>>) = SetMap[s]
    BY ONLY <1>3, <2>1, EachOne, SMTT(40), ZenonT(40)
  <2> QED BY <2>2, <2>3
<1> QED BY <1>2, <1>5, <1>6 DEF PartDoes

LEMMA VtableDoes ==
  ASSUME Classes(program), NEW c \in 1 .. Len(program), NEW at \in Address
  PROVE  PartDoes(VtableInit(at, c), <<>>, Inside(at, Own(program, c)))
<1>1. "vtable" \in Ops /\ c \in Nat
  BY ClassIs DEF Ops
<1>2. CASE program[c].vtable
  <2>1. VtableInit(at, c) = <<Perform("vtable", at, c)>> /\ Own(program, c) = Itself(c)
    BY <1>2 DEF VtableInit, Own
  <2>2. BuildMap[Perform("vtable", at, c)] = <<>> /\ SetMap[Perform("vtable", at, c)] = <<<<at, c>>>>
    BY <1>1, MapsAt
  <2>3. Inside(at, Itself(c)) = <<<<at, c>>>>
    BY <1>1, InsideItself
  <2>4. PartDoes(<<Perform("vtable", at, c)>>, BuildMap[Perform("vtable", at, c)], SetMap[Perform("vtable", at, c)])
    BY StatementDoes
  <2> QED BY <2>1, <2>2, <2>3, <2>4
<1>3. CASE ~ program[c].vtable
  BY <1>3, EmptySeq, EachEmpty, NothingInside DEF PartDoes, VtableInit, Own
<1> QED BY <1>2, <1>3

LEMMA BodyDoes ==
  ASSUME Classes(program), NEW c \in 1 .. Len(program), NEW at \in Address, program[c].ctor # "none"
  PROVE  PartDoes(<<Perform("ctor body", at, c)>>, Inside(at, OfClasses(Itself(c), UserCtors)), <<>>)
<1>1. "ctor body" \in Ops /\ c \in Nat \ {0}
  BY ClassIs DEF Ops
<1>2. OfClasses(Itself(c), UserCtors) = IF c \in UserCtors THEN Itself(c) ELSE <<>>
  BY <1>1, OfClassesItself
<1>3. Inside(at, Itself(c)) = <<<<at, c>>>> /\ Inside(at, <<>>) = <<>>
  BY <1>1, InsideItself, NothingInside
<1>4. SetMap[Perform("ctor body", at, c)] = <<>>
      /\ BuildMap[Perform("ctor body", at, c)] = IF c \in UserCtors THEN <<<<at, c>>>> ELSE <<>>
  BY <1>1, MapsAt
<1>5. PartDoes(<<Perform("ctor body", at, c)>>, BuildMap[Perform("ctor body", at, c)], SetMap[Perform("ctor body", at, c)])
  BY StatementDoes
<1> QED BY <1>2, <1>3, <1>4, <1>5

-----------------------------------------------------------------------------
LEMMA PartsDo ==
  ASSUME Classes(program), NEW s, NEW t, NEW a, NEW b, NEW d, NEW e, PartDoes(s, a, b), PartDoes(t, d, e)
  PROVE  PartDoes(s \o t, a \o d, b \o e)
<1>1. s \in Seq(CtorSt) /\ s \in Seq(Statement) /\ t \in Seq(CtorSt) /\ t \in Seq(Statement)
  BY DEF PartDoes
<1>2. s \o t \in Seq(CtorSt) /\ s \o t \in Seq(Statement)
  BY <1>1, ConcatProperties
<1>3. Each(BuildMap, s \o t) = Each(BuildMap, s) \o Each(BuildMap, t)
  BY <1>1, MapsAre, EachConcat
<1>4. Each(SetMap, s \o t) = Each(SetMap, s) \o Each(SetMap, t)
  BY <1>1, MapsAre, EachConcat
<1> QED BY <1>2, <1>3, <1>4 DEF PartDoes

InsideThree(at, a, b, m) == Inside(at, (a \o b) \o m) = (Inside(at, a) \o Inside(at, b)) \o Inside(at, m)

LEMMA InsideThreeHolds ==
  ASSUME NEW at \in Address, NEW a \in Seq(Place), NEW b \in Seq(Place), NEW m \in Seq(Place)
  PROVE  InsideThree(at, a, b, m)
<1>1. Inside(at, a \o b) = Inside(at, a) \o Inside(at, b) /\ a \o b \in Seq(Place)
  BY InsideConcat, ConcatProperties
<1>2. Inside(at, (a \o b) \o m) = Inside(at, a \o b) \o Inside(at, m)
  BY <1>1, InsideConcat
<1> QED BY <1>1, <1>2 DEF InsideThree

CtorFront(at, c) == (BaseCtor(at, c) \o VtableInit(at, c)) \o MemberCtors(at, c)
CtorDoes(at, c) ==
  /\ PartDoes(CtorCode(at, c), Inside(at, BuildOf[c]), Inside(at, SetOf[c]))
  /\ CtorCode(at, c) = CtorFront(at, c) \o <<Perform("ctor body", at, c)>>
  /\ CtorFront(at, c) \in Seq(Statement) /\ Each(SetMap, CtorFront(at, c)) = Inside(at, SetOf[c])

LEMMA CtorDoesSo ==
  ASSUME Classes(program), NEW c \in 1 .. Len(program), NEW at \in Address, program[c].ctor # "none"
  PROVE  CtorDoes(at, c)
<1>1. PICK bp \in Seq(Place), gp \in Seq(Place), ip \in Seq(Place) :
        /\ bp = BaseParts(program, program[c].base)
        /\ gp = Twice(GridOf(PartsMap(program), program[c].fields, c)) /\ ip = Itself(c)
        /\ program[c].parts = (bp \o gp) \o ip
        /\ Fits(PartsMap(program), program[c].fields)
  <2>1. PartsMade(program, c)
    BY ClassIs
  <2>2. /\ Fits(PartsMap(program), program[c].fields)
         /\ BaseParts(program, program[c].base) \in Seq(Place)
         /\ Twice(GridOf(PartsMap(program), program[c].fields, c)) \in Seq(Place)
         /\ Itself(c) \in Seq(Place)
    BY PartsFit
  <2> QED BY <2>1, <2>2 DEF PartsMade
<1>2. c \in Nat \ {0}
  BY ClassIs
<1>3. PICK bb \in Seq(Place), gb \in Seq(Place), ib \in Seq(Place) :
        bb = OfClasses(bp, UserCtors) /\ gb = OfClasses(gp, UserCtors) /\ ib = OfClasses(ip, UserCtors)
  BY OfClassesIn
<1>4. BuildOf[c] = (bb \o gb) \o ib
  <2>1. OfClasses(bp \o gp, UserCtors) = bb \o gb /\ bp \o gp \in Seq(Place)
    BY <1>3, OfClassesConcat, ConcatProperties
  <2>2. OfClasses((bp \o gp) \o ip, UserCtors) = (bb \o gb) \o ib
    <3>1. PICK x \in Seq(Place) : x = bp \o gp
      BY <2>1
    <3>2. OfClasses(x \o ip, UserCtors) = OfClasses(x, UserCtors) \o OfClasses(ip, UserCtors)
      BY OfClassesConcat
    <3>3. OfClasses(x, UserCtors) = bb \o gb
      BY <2>1, <3>1
    <3> QED BY <1>3, <3>1, <3>2, <3>3
  <2> QED BY <1>1, <2>2, OfsFit
<1>5. gb = Twice(GridOf(BuildOf, program[c].fields, c))
  <2>1. \A i \in 1 .. Len(program[c].fields) :
          BuildOf[program[c].fields[i].class] = OfClasses(PartsMap(program)[program[c].fields[i].class], UserCtors)
    <3> TAKE i \in 1 .. Len(program[c].fields)
    <3>1. PICK b \in 1 .. Len(program) : b = program[c].fields[i].class
      BY FieldIs
    <3>2. BuildOf[b] = OfClasses(program[b].parts, UserCtors)
      BY OfsFit
    <3>3. PartsMap(program)[b] = program[b].parts
      BY PartsFit
    <3> QED BY <3>1, <3>2, <3>3
  <2> QED BY <1>1, <1>2, <1>3, <2>1, GridClasses, SMTT(40)
<1>6. MembersDo(at, c)
  BY MembersDoSo
<1>7. PartDoes(MemberCtors(at, c), Inside(at, gb), Inside(at, Twice(GridOf(SetOf, program[c].fields, c))))
  BY <1>5, <1>6, InitsBuild, InitsSet DEF MembersDo, PartDoes
<1>8. PICK be \in Seq(Place), oe \in Seq(Place), ge \in Seq(Place) :
        /\ be = BaseSets(program, SetOf, program[c].base) /\ oe = Own(program, c)
        /\ ge = Twice(GridOf(SetOf, program[c].fields, c)) /\ SetOf[c] = (be \o oe) \o ge
  <2>1. SetsAre(program, SetOf)
    BY SetsAreSo DEF SetOf
  <2>2. SetOf[c] = (BaseSets(program, SetOf, program[c].base) \o Own(program, c)) \o Twice(GridOf(SetOf, program[c].fields, c))
    BY OfsFit DEF AllSets
  <2> QED BY <2>1, <2>2, SetsFit
<1>9. PartDoes(BaseCtor(at, c), Inside(at, bb), Inside(at, be))
  BY <1>1, <1>3, <1>8, BaseDoes
<1>10. PartDoes(VtableInit(at, c), <<>>, Inside(at, oe))
  BY <1>8, VtableDoes
<1>11. PartDoes(<<Perform("ctor body", at, c)>>, Inside(at, ib), <<>>)
  BY <1>1, <1>3, BodyDoes
<1>12. PartDoes(BaseCtor(at, c) \o VtableInit(at, c), Inside(at, bb) \o <<>>, Inside(at, be) \o Inside(at, oe))
  BY <1>9, <1>10, PartsDo
<1>13. PartDoes(CtorFront(at, c), (Inside(at, bb) \o <<>>) \o Inside(at, gb),
                (Inside(at, be) \o Inside(at, oe)) \o Inside(at, ge))
  BY <1>7, <1>8, <1>12, PartsDo DEF CtorFront
<1>14. PartDoes(CtorFront(at, c) \o <<Perform("ctor body", at, c)>>,
                ((Inside(at, bb) \o <<>>) \o Inside(at, gb)) \o Inside(at, ib),
                ((Inside(at, be) \o Inside(at, oe)) \o Inside(at, ge)) \o <<>>)
  BY <1>11, <1>13, PartsDo
<1>15. CtorCode(at, c) = CtorFront(at, c) \o <<Perform("ctor body", at, c)>>
  BY DEF CtorCode, CtorFront
<1>16. (Inside(at, be) \o Inside(at, oe)) \o Inside(at, ge) = Inside(at, SetOf[c]) /\ Inside(at, SetOf[c]) \in Seq(Place)
  <2>1. InsideThree(at, be, oe, ge)
    BY InsideThreeHolds
  <2>2. Inside(at, SetOf[c]) \in Seq(Place)
    BY OfsFit, InsideIn
  <2> QED BY <1>8, <2>1, <2>2 DEF InsideThree
<1>17. (Inside(at, bb) \o <<>>) \o Inside(at, gb) = Inside(at, bb) \o Inside(at, gb)
  <2>1. Inside(at, bb) \in Seq(Place)
    BY InsideIn
  <2> QED BY <2>1, ConcatEmptySeq
<1>18. (Inside(at, bb) \o Inside(at, gb)) \o Inside(at, ib) = Inside(at, BuildOf[c])
  <2>1. InsideThree(at, bb, gb, ib)
    BY InsideThreeHolds
  <2> QED BY <1>4, <2>1 DEF InsideThree
<1>19. Inside(at, SetOf[c]) \o <<>> = Inside(at, SetOf[c])
  BY <1>16, ConcatEmptySeq
<1>20. PartDoes(CtorCode(at, c), Inside(at, BuildOf[c]), Inside(at, SetOf[c]))
  BY <1>14, <1>15, <1>16, <1>17, <1>18, <1>19
<1>21. CtorFront(at, c) \in Seq(Statement) /\ Each(SetMap, CtorFront(at, c)) = Inside(at, SetOf[c])
  BY <1>13, <1>16 DEF PartDoes
<1> QED BY <1>15, <1>20, <1>21 DEF CtorDoes

Assoc(s, t, u) == s \o (t \o u) = (s \o t) \o u

LEMMA ConcatAssoc ==
  ASSUME NEW T, NEW s \in Seq(T), NEW t \in Seq(T), NEW u \in Seq(T)
  PROVE  Assoc(s, t, u)
BY ConcatAssociative DEF Assoc

LEMMA SilentKinds ==
  ASSUME Classes(program)
  PROVE  /\ \A s \in Seq(CtorSt) : s \in Seq(Statement) /\ Each(GoneMap, s) = <<>>
         /\ \A s \in Seq(DtorSt) : s \in Seq(Statement) /\ Each(BuildMap, s) = <<>> /\ Each(SetMap, s) = <<>>
         /\ \A s \in Seq(UseSt) : s \in Seq(Statement) /\ Each(BuildMap, s) = <<>> /\ Each(SetMap, s) = <<>> /\ Each(GoneMap, s) = <<>>
<1>1. IsMap(BuildMap, Statement, Seq(Place)) /\ IsMap(SetMap, Statement, Seq(Place)) /\ IsMap(GoneMap, Statement, Seq(Place))
  BY MapsAre
<1>2. CtorSt \subseteq Statement /\ DtorSt \subseteq Statement /\ UseSt \subseteq Statement
  BY DEF CtorSt, DtorSt, UseSt
<1>3. \A x \in CtorSt : GoneMap[x] = <<>>
  BY DEF CtorSt, GoneMap
<1>4. \A x \in DtorSt : BuildMap[x] = <<>> /\ SetMap[x] = <<>>
  BY DEF DtorSt, BuildMap, SetMap
<1>5. \A x \in UseSt : BuildMap[x] = <<>> /\ SetMap[x] = <<>> /\ GoneMap[x] = <<>>
  BY DEF UseSt, BuildMap, SetMap, GoneMap
<1> HIDE DEF CtorSt, DtorSt, UseSt, BuildMap, SetMap, GoneMap
<1>6. ASSUME NEW s \in Seq(CtorSt) PROVE s \in Seq(Statement) /\ Each(GoneMap, s) = <<>>
  <2>1. s \in Seq(Statement)
    BY <1>2, SeqWithin
  <2>2. Each(GoneMap, s) = <<>>
    BY ONLY <1>1, <1>2, <1>3, s \in Seq(CtorSt), EachSilent
  <2> QED BY <2>1, <2>2
<1>7. ASSUME NEW s \in Seq(DtorSt) PROVE s \in Seq(Statement) /\ Each(BuildMap, s) = <<>> /\ Each(SetMap, s) = <<>>
  <2>1. s \in Seq(Statement)
    BY <1>2, SeqWithin
  <2>2. Each(BuildMap, s) = <<>>
    BY ONLY <1>1, <1>2, <1>4, s \in Seq(DtorSt), EachSilent
  <2>3. Each(SetMap, s) = <<>>
    BY ONLY <1>1, <1>2, <1>4, s \in Seq(DtorSt), EachSilent
  <2> QED BY <2>1, <2>2, <2>3
<1>8. ASSUME NEW s \in Seq(UseSt)
      PROVE  s \in Seq(Statement) /\ Each(BuildMap, s) = <<>> /\ Each(SetMap, s) = <<>> /\ Each(GoneMap, s) = <<>>
  <2>1. s \in Seq(Statement)
    BY <1>2, SeqWithin
  <2>2. Each(BuildMap, s) = <<>>
    BY ONLY <1>1, <1>2, <1>5, s \in Seq(UseSt), EachSilent
  <2>3. Each(SetMap, s) = <<>>
    BY ONLY <1>1, <1>2, <1>5, s \in Seq(UseSt), EachSilent
  <2>4. Each(GoneMap, s) = <<>>
    BY ONLY <1>1, <1>2, <1>5, s \in Seq(UseSt), EachSilent
  <2> QED BY <2>1, <2>2, <2>3, <2>4
<1> QED BY <1>6, <1>7, <1>8

LEMMA DtorIn ==
  ASSUME Classes(program), NEW c \in 1 .. Len(program), NEW at \in Address, NEW op \in {"dtor", "dtor body"}
  PROVE  /\ <<Perform(op, at, c)>> \in Seq(DtorSt) /\ <<Perform(op, at, c)>> \in Seq(Statement)
         /\ Perform(op, at, c) \in DtorSt /\ Perform(op, at, c) \in Statement
         /\ Each(GoneMap, <<Perform(op, at, c)>>) = GoneMap[Perform(op, at, c)]
<1>1. c \in Nat /\ op \in Ops
  BY ClassIs DEF Ops
<1>2. PICK s : s = Perform(op, at, c)
  OBVIOUS
<1>3. s \in Statement /\ s.op = op /\ s.class = c
  BY <1>1, <1>2 DEF Perform, Statement
<1>4. s \in DtorSt
  BY <1>3 DEF DtorSt
<1>5. IsMap(GoneMap, Statement, Seq(Place))
  BY MapsAre
<1>6. Each(GoneMap, <<s>>) = GoneMap[s]
  BY ONLY <1>3, <1>5, EachOne
<1> QED BY <1>2, <1>3, <1>4, <1>6, OneInSeq

LEMMA DtorRowsIn ==
  ASSUME NEW T, NEW c \in Nat, NEW at \in Address, NEW live,
         NEW fs, Len(fs) \in Nat, \A i \in 1 .. Len(fs) : \A a \in Address : Perform("dtor", a, fs[i].class) \in T
  PROVE  FlattenSeq(DtorCalls(at, fs, c, live)) \in Seq(T)
<1>1. ASSUME NEW k \in 1 .. Len(fs) PROVE DtorCalls(at, fs, c, live)[k] \in Seq(T)
  <2>1. PICK i \in 1 .. Len(fs) : i = Len(fs) + 1 - k
    BY ONLY Len(fs) \in Nat, k \in 1 .. Len(fs)
  <2>2. PICK n \in Nat : n = IF i \in live THEN MemberCount(fs[i]) ELSE 0
    BY CountIs
  <2>3. DtorCalls(at, fs, c, live)[k] = DtorRow(at, c, i, fs[i].class, n)
    BY <2>1, <2>2 DEF DtorCalls
  <2>4. ASSUME NEW j \in 1 .. n PROVE Perform("dtor", Part(at, c, i, n + 1 - j), fs[i].class) \in T
    <3>1. n + 1 - j \in Nat /\ i \in Nat
      OBVIOUS
    <3>2. Part(at, c, i, n + 1 - j) \in Address
      BY <3>1, PartIs
    <3> QED BY <3>2
  <2>5. DtorRow(at, c, i, fs[i].class, n) \in [1 .. n -> T]
    BY <2>4 DEF DtorRow
  <2> QED BY <2>3, <2>5, FunctionSeq
<1>2. DtorCalls(at, fs, c, live) \in [1 .. Len(fs) -> Seq(T)]
  <2>1. DtorCalls(at, fs, c, live) = [k \in 1 .. Len(fs) |-> DtorCalls(at, fs, c, live)[k]]
    BY DEF DtorCalls
  <2> QED BY <1>1, <2>1
<1> QED BY <1>2, FunctionSeq, FlattenIn

GoneDoes(s, g) == s \in Seq(DtorSt) /\ s \in Seq(Statement) /\ Each(GoneMap, s) = g

LEMMA GonesDo ==
  ASSUME Classes(program), NEW s, NEW t, NEW a, NEW b, GoneDoes(s, a), GoneDoes(t, b)
  PROVE  GoneDoes(s \o t, a \o b)
<1>1. s \in Seq(DtorSt) /\ s \in Seq(Statement) /\ t \in Seq(DtorSt) /\ t \in Seq(Statement)
  BY DEF GoneDoes
<1>2. s \o t \in Seq(DtorSt) /\ s \o t \in Seq(Statement)
  BY <1>1, ConcatProperties
<1>3. Each(GoneMap, s \o t) = Each(GoneMap, s) \o Each(GoneMap, t)
  BY <1>1, MapsAre, EachConcat
<1> QED BY <1>2, <1>3 DEF GoneDoes

LEMMA DtorCallsDo ==
  ASSUME Classes(program), NEW c \in Nat, NEW at \in Address,
         NEW fs, Len(fs) \in Nat, \A i \in 1 .. Len(fs) : fs[i].class \in 1 .. Len(program)
  PROVE  GoneDoes(FlattenSeq(DtorCalls(at, fs, c, Live(fs))), Inside(at, Reverse(Twice(GridOf(GoneOf, fs, c)))))
<1>1. Fits(GoneOf, fs)
  BY OfsFit DEF Fits
<1>2. IsMap(GoneMap, Statement, Seq(Place))
  BY MapsAre
<1>3. \A i \in 1 .. Len(fs) : fs[i].class \in Nat
  BY ClassIs
<1>4. \A i \in 1 .. Len(fs) : \A a \in Address :
        GoneMap[Perform("dtor", a, fs[i].class)] = Inside(a, Reverse(GoneOf[fs[i].class]))
  <2>1. "dtor" \in Ops
    BY DEF Ops
  <2> QED BY <2>1, MapsAt
<1>5. \A i \in 1 .. Len(fs) : i \notin Live(fs) => MemberCount(fs[i]) = 0 \/ GoneOf[fs[i].class] = <<>>
  BY NothingGone DEF Live
<1>6. /\ Each(GoneMap, FlattenSeq(DtorCalls(at, fs, c, Live(fs)))) = Inside(at, Reverse(Twice(GridOf(GoneOf, fs, c))))
      /\ FlattenSeq(DtorCalls(at, fs, c, Live(fs))) \in Seq(Statement)
  BY ONLY <1>1, <1>2, <1>3, <1>4, <1>5, at \in Address, c \in Nat, DtorsPlace
<1>7. FlattenSeq(DtorCalls(at, fs, c, Live(fs))) \in Seq(DtorSt)
  <2>1. \A i \in 1 .. Len(fs) : \A a \in Address : Perform("dtor", a, fs[i].class) \in DtorSt
    BY DtorIn
  <2> QED BY <2>1, DtorRowsIn
<1> QED BY <1>6, <1>7 DEF GoneDoes

LEMMA BaseDtorDoes ==
  ASSUME Classes(program), NEW c \in 1 .. Len(program), NEW at \in Address
  PROVE  GoneDoes(BaseDtor(at, c), Inside(at, Reverse(OfClasses(BaseParts(program, program[c].base), UserDtors))))
<1>1. PICK b : b = program[c].base
  OBVIOUS
<1>2. b \in Nat /\ (b # NoClass => b \in 1 .. Len(program))
  BY <1>1, ClassIs
<1>3. CASE b = NoClass
  <2>1. BaseDtor(at, c) = <<>> /\ BaseParts(program, b) = <<>>
    BY <1>1, <1>3 DEF BaseDtor, BaseParts
  <2>3. OfClasses(<<>>, UserDtors) = <<>>
    BY EmptySeq, OfClassesIs, EachEmpty
  <2> QED BY <1>1, <2>1, <2>3, EmptySeq, EachEmpty, NothingInside DEF GoneDoes
<1>4. CASE b # NoClass /\ program[b].dtor = "none"
  <2>1. BaseDtor(at, c) = <<>> /\ BaseParts(program, b) = program[b].parts
    BY <1>1, <1>4 DEF BaseDtor, BaseParts
  <2>3. OfClasses(BaseParts(program, b), UserDtors) = <<>>
    BY <1>2, <1>4, <2>1, NothingGone, OfsFit
  <2> QED BY <1>1, <2>1, <2>3, EmptySeq, EachEmpty, NothingInside DEF GoneDoes
<1>5. CASE b # NoClass /\ program[b].dtor # "none"
  <2>1. BaseDtor(at, c) = <<Perform("dtor", at, b)>> /\ BaseParts(program, b) = program[b].parts
    BY <1>1, <1>5 DEF BaseDtor, BaseParts
  <2>2. b \in 1 .. Len(program)
    BY <1>2, <1>5
  <2>3. GoneOf[b] = OfClasses(BaseParts(program, b), UserDtors)
    BY <2>1, <2>2, OfsFit
  <2>4. "dtor" \in Ops
    BY DEF Ops
  <2>5. GoneMap[Perform("dtor", at, b)] = Inside(at, Reverse(GoneOf[b]))
    BY <2>2, <2>4, MapsAt
  <2>6. /\ <<Perform("dtor", at, b)>> \in Seq(DtorSt) /\ <<Perform("dtor", at, b)>> \in Seq(Statement)
        /\ Each(GoneMap, <<Perform("dtor", at, b)>>) = GoneMap[Perform("dtor", at, b)]
    BY <2>2, DtorIn
  <2> QED BY <1>1, <2>1, <2>3, <2>5, <2>6 DEF GoneDoes
<1> QED BY <1>3, <1>4, <1>5

LEMMA DtorDoes ==
  ASSUME Classes(program), NEW c \in 1 .. Len(program), NEW at \in Address
  PROVE  GoneDoes(DtorCode(at, c), Inside(at, Reverse(GoneOf[c])))
<1>1. PICK bp \in Seq(Place), gp \in Seq(Place), ip \in Seq(Place) :
        /\ bp = BaseParts(program, program[c].base)
        /\ gp = Twice(GridOf(PartsMap(program), program[c].fields, c)) /\ ip = Itself(c)
        /\ program[c].parts = (bp \o gp) \o ip
        /\ Fits(PartsMap(program), program[c].fields)
  <2>1. PartsMade(program, c)
    BY ClassIs
  <2>2. /\ Fits(PartsMap(program), program[c].fields)
         /\ BaseParts(program, program[c].base) \in Seq(Place)
         /\ Twice(GridOf(PartsMap(program), program[c].fields, c)) \in Seq(Place)
         /\ Itself(c) \in Seq(Place)
    BY PartsFit
  <2> QED BY <2>1, <2>2 DEF PartsMade
<1>2. c \in Nat \ {0}
  BY ClassIs
<1>3. PICK bb \in Seq(Place), gb \in Seq(Place), ib \in Seq(Place) :
        bb = OfClasses(bp, UserDtors) /\ gb = OfClasses(gp, UserDtors) /\ ib = OfClasses(ip, UserDtors)
  BY OfClassesIn
<1>4. GoneOf[c] = (bb \o gb) \o ib
  <2>1. OfClasses(bp \o gp, UserDtors) = bb \o gb /\ bp \o gp \in Seq(Place)
    BY <1>3, OfClassesConcat, ConcatProperties
  <2>2. OfClasses((bp \o gp) \o ip, UserDtors) = (bb \o gb) \o ib
    <3>1. PICK x \in Seq(Place) : x = bp \o gp
      BY <2>1
    <3>2. OfClasses(x \o ip, UserDtors) = OfClasses(x, UserDtors) \o OfClasses(ip, UserDtors)
      BY OfClassesConcat
    <3>3. OfClasses(x, UserDtors) = bb \o gb
      BY <2>1, <3>1
    <3> QED BY <1>3, <3>1, <3>2, <3>3
  <2> QED BY <1>1, <2>2, OfsFit
<1>5. gb = Twice(GridOf(GoneOf, program[c].fields, c))
  <2>1. \A i \in 1 .. Len(program[c].fields) :
          GoneOf[program[c].fields[i].class] = OfClasses(PartsMap(program)[program[c].fields[i].class], UserDtors)
    <3> TAKE i \in 1 .. Len(program[c].fields)
    <3>1. PICK b \in 1 .. Len(program) : b = program[c].fields[i].class
      BY FieldIs
    <3>2. GoneOf[b] = OfClasses(program[b].parts, UserDtors)
      BY OfsFit
    <3>3. PartsMap(program)[b] = program[b].parts
      BY PartsFit
    <3> QED BY <3>1, <3>2, <3>3
  <2>2. PICK fs : fs = program[c].fields
    OBVIOUS
  <2>3. Fits(PartsMap(program), fs) /\ c \in Nat
        /\ \A i \in 1 .. Len(fs) : GoneOf[fs[i].class] = OfClasses(PartsMap(program)[fs[i].class], UserDtors)
    BY <1>1, <1>2, <2>1, <2>2
  <2>4. OfClasses(Twice(GridOf(PartsMap(program), fs, c)), UserDtors) = Twice(GridOf(GoneOf, fs, c))
    <3>1. PICK F, G, cs : F = PartsMap(program) /\ G = GoneOf /\ cs = UserDtors
      OBVIOUS
    <3>2. Fits(F, fs) /\ c \in Nat /\ \A i \in 1 .. Len(fs) : G[fs[i].class] = OfClasses(F[fs[i].class], cs)
      BY <2>3, <3>1
    <3>3. OfClasses(Twice(GridOf(F, fs, c)), cs) = Twice(GridOf(G, fs, c))
      BY ONLY <3>2, GridClasses
    <3> QED BY <3>1, <3>3
  <2> QED BY <1>1, <1>3, <2>2, <2>4
<1>6. GoneDoes(MemberDtors(at, c), Inside(at, Reverse(gb)))
  <2>1. PICK fs : fs = program[c].fields
    OBVIOUS
  <2>2. Len(fs) \in Nat /\ \A i \in 1 .. Len(fs) : fs[i].class \in 1 .. Len(program)
    BY <2>1, ClassIs, FieldIs
  <2>3. GoneDoes(FlattenSeq(DtorCalls(at, fs, c, Live(fs))), Inside(at, Reverse(Twice(GridOf(GoneOf, fs, c)))))
    BY <1>2, <2>2, DtorCallsDo
  <2> QED BY <1>5, <2>1, <2>3, MemberDtorsAre
<1>7. GoneDoes(BaseDtor(at, c), Inside(at, Reverse(bb)))
  BY <1>1, <1>3, BaseDtorDoes
<1>8. GoneDoes(<<Perform("dtor body", at, c)>>, Inside(at, Reverse(ib)))
  <2>1. "dtor body" \in Ops
    BY DEF Ops
  <2>2. ib = IF c \in UserDtors THEN Itself(c) ELSE <<>>
    BY <1>1, <1>2, <1>3, OfClassesItself
  <2>3. Reverse(Itself(c)) = Itself(c)
    BY DEF Reverse, Itself
  <2>4. Inside(at, Itself(c)) = <<<<at, c>>>> /\ Inside(at, <<>>) = <<>> /\ Reverse(<<>>) = <<>>
    BY <1>2, InsideItself, NothingInside
  <2>5. GoneMap[Perform("dtor body", at, c)] = IF c \in UserDtors THEN <<<<at, c>>>> ELSE <<>>
    BY <2>1, MapsAt
  <2>6. Inside(at, Reverse(ib)) = GoneMap[Perform("dtor body", at, c)]
    BY <2>2, <2>3, <2>4, <2>5
  <2>7. /\ <<Perform("dtor body", at, c)>> \in Seq(DtorSt) /\ <<Perform("dtor body", at, c)>> \in Seq(Statement)
        /\ Each(GoneMap, <<Perform("dtor body", at, c)>>) = GoneMap[Perform("dtor body", at, c)]
    BY DtorIn
  <2> QED BY <2>6, <2>7 DEF GoneDoes
<1>9. GoneDoes((<<Perform("dtor body", at, c)>> \o MemberDtors(at, c)) \o BaseDtor(at, c),
               (Inside(at, Reverse(ib)) \o Inside(at, Reverse(gb))) \o Inside(at, Reverse(bb)))
  <2>1. GoneDoes(<<Perform("dtor body", at, c)>> \o MemberDtors(at, c), Inside(at, Reverse(ib)) \o Inside(at, Reverse(gb)))
    BY <1>6, <1>8, GonesDo
  <2> QED BY <1>7, <2>1, GonesDo
<1>10. PICK rb \in Seq(Place), rg \in Seq(Place), ri \in Seq(Place) : rb = Reverse(bb) /\ rg = Reverse(gb) /\ ri = Reverse(ib)
  BY ReverseIn
<1>11. Reverse(GoneOf[c]) = (ri \o rg) \o rb
  <2>1. Reverse(bb \o gb) = rg \o rb /\ bb \o gb \in Seq(Place)
    BY <1>10, ReverseConcat, ConcatProperties
  <2>2. PICK x \in Seq(Place) : x = bb \o gb
    BY <2>1
  <2>3. Reverse(x \o ib) = Reverse(ib) \o Reverse(x)
    BY ReverseConcat
  <2>4. ri \o (rg \o rb) = (ri \o rg) \o rb
    <3>1. Assoc(ri, rg, rb)
      BY ConcatAssoc
    <3> QED BY ONLY <3>1 DEF Assoc
  <2> QED BY <1>4, <1>10, <2>1, <2>2, <2>3, <2>4
<1>12. Inside(at, (ri \o rg) \o rb) = (Inside(at, ri) \o Inside(at, rg)) \o Inside(at, rb)
  <2>1. InsideThree(at, ri, rg, rb)
    BY InsideThreeHolds
  <2> QED BY ONLY <2>1 DEF InsideThree
<1> QED BY <1>9, <1>10, <1>11, <1>12 DEF DtorCode

(* The vtables a statement relies on: g are those the construction of the  *)
(* whole object sets.                                                      *)
MemberNeed(s, a, v) ==
  \E i \in 1 .. Len(program[s.class].fields) : \E e \in 1 .. MemberCount(program[s.class].fields[i]) :
    /\ program[program[s.class].fields[i].class].vtable
    /\ a = Part(s.at, s.class, i, e) /\ v = program[s.class].fields[i].class
Need(g, s, a, v) ==
  \/ s.op = "ctor body" /\ program[s.class].vtable /\ a = s.at /\ v = s.class
  \/ s.op = "ctor body" /\ MemberNeed(s, a, v)
  \/ s.op = "delete" /\ program[s.class].virtualDtor /\ a = TheObject /\ v = Len(program)
  \/ s.op = "use" /\ Leaves(g, a, v)

(* A vtable is set, by the statements up to here or before them.           *)
Settled(S, vp, a, v) == Leaves(S, a, v) \/ (Silent(S, a) /\ a \in DOMAIN vp /\ vp[a] = v)

SetsBefore(S, c, k) == S \o Each(SetMap, SubSeq(c, 1, k - 1))
AllReady(g, S, c, vp) ==
  \A k \in 1 .. Len(c) : \A a, v : Need(g, c[k], a, v) => Settled(SetsBefore(S, c, k), vp, a, v)

SameBefore(S, c, k, R, d, j) == k \in 1 .. Len(c) /\ c[k] = d[j] /\ SetsBefore(S, c, k) = SetsBefore(R, d, j)

LEMMA FrontBefore ==
  ASSUME NEW S, NEW s \in Seq(Statement), NEW t \in Seq(Statement), NEW k \in 1 .. Len(s)
  PROVE  SameBefore(S, s \o t, k, S, s, k)
<1>1. PICK w \in Seq(Statement) : w = s \o t /\ Joined(w, s, t)
  BY ConcatJoins, ConcatProperties
<1>2. k \in 1 .. Len(w) /\ w[k] = s[k] /\ k \in Nat
  BY <1>1 DEF Joined
<1>3. SubSeq(w, 1, k - 1) = SubSeq(s, 1, k - 1)
  <2>0. 1 \in Int /\ k - 1 \in Int /\ Len(s) \in Nat /\ Len(w) \in Nat
    BY <1>2, LenProperties
  <2>1. \A i \in 1 .. k - 1 : w[i] = s[i] /\ s[i] \in Statement
    <3>1. \A i \in 1 .. k - 1 : i \in 1 .. Len(s)
      BY <2>0
    <3> QED BY <1>1, <3>1, ElementOfSeq DEF Joined
  <2>2. PICK x, y : x = SubSeq(w, 1, k - 1) /\ y = SubSeq(s, 1, k - 1)
    OBVIOUS
  <2>3. /\ x \in Seq(Statement) /\ Len(x) = IF 1 <= k - 1 THEN k - 1 - 1 + 1 ELSE 0
        /\ \A i \in 1 .. k - 1 - 1 + 1 : x[i] = w[1 + i - 1]
    BY <2>0, <2>1, <2>2, SubSeqProperties
  <2>4. /\ y \in Seq(Statement) /\ Len(y) = IF 1 <= k - 1 THEN k - 1 - 1 + 1 ELSE 0
        /\ \A i \in 1 .. k - 1 - 1 + 1 : y[i] = s[1 + i - 1]
    BY <2>0, <2>1, <2>2, SubSeqProperties
  <2>5. \A i \in 1 .. Len(x) : x[i] = y[i]
    <3>1. \A i \in 1 .. Len(x) : i \in 1 .. k - 1 - 1 + 1 /\ i \in 1 .. k - 1 /\ 1 + i - 1 = i
      BY <1>2, <2>3
    <3> QED BY <2>1, <2>3, <2>4, <3>1
  <2>6. x = y
    BY <2>3, <2>4, <2>5, SeqEqual
  <2> QED BY <2>2, <2>6
<1> QED BY <1>1, <1>2, <1>3 DEF SameBefore, SetsBefore

LEMMA BeforeIn ==
  ASSUME NEW s \in Seq(Statement), NEW k \in 1 .. Len(s)
  PROVE  SubSeq(s, 1, k - 1) \in Seq(Statement)
<1>1. 1 \in Int /\ k - 1 \in Int /\ Len(s) \in Nat
  BY LenProperties
<1>2. \A i \in 1 .. k - 1 : s[i] \in Statement
  <2>1. \A i \in 1 .. k - 1 : i \in 1 .. Len(s)
    BY <1>1
  <2> QED BY <2>1, ElementOfSeq
<1> QED BY <1>1, <1>2, SubSeqProperties

LEMMA BackBefore ==
  ASSUME Classes(program), NEW S \in Seq(Place),
         NEW s \in Seq(Statement), NEW t \in Seq(Statement), NEW j \in 1 .. Len(t)
  PROVE  SameBefore(S, s \o t, Len(s) + j, S \o Each(SetMap, s), t, j)
<1>0. Len(s) \in Nat /\ Len(t) \in Nat /\ j \in Nat \ {0}
  BY LenProperties
<1>1. PICK w \in Seq(Statement) : w = s \o t /\ Joined(w, s, t)
  BY ConcatJoins, ConcatProperties
<1>2. PICK k \in Nat : k = Len(s) + j
  BY <1>0
<1>3. k \in 1 .. Len(w) /\ w[k] = t[j]
  BY <1>1, <1>2 DEF Joined
<1>4. PICK b \in Seq(Statement) : b = SubSeq(t, 1, j - 1)
  BY BeforeIn
<1>5. SubSeq(w, 1, k - 1) = s \o b
  <2>0. 1 \in Int /\ k - 1 \in Int /\ j - 1 \in Int /\ Len(w) \in Nat
    BY <1>0, LenProperties
  <2>1. PICK x : x = SubSeq(w, 1, k - 1)
    OBVIOUS
  <2>2. \A i \in 1 .. k - 1 : w[i] \in Statement
    <3>1. \A i \in 1 .. k - 1 : i \in 1 .. Len(w)
      BY <1>3, <2>0
    <3> QED BY <3>1, ElementOfSeq
  <2>3. /\ x \in Seq(Statement) /\ Len(x) = IF 1 <= k - 1 THEN k - 1 - 1 + 1 ELSE 0
        /\ \A i \in 1 .. k - 1 - 1 + 1 : x[i] = w[1 + i - 1]
    BY ONLY <2>0, <2>1, <2>2, SubSeqProperties
  <2>4. \A i \in 1 .. j - 1 : t[i] \in Statement
    <3>1. \A i \in 1 .. j - 1 : i \in 1 .. Len(t)
      BY <1>0
    <3> QED BY <3>1, ElementOfSeq
  <2>5. /\ Len(b) = IF 1 <= j - 1 THEN j - 1 - 1 + 1 ELSE 0
        /\ \A i \in 1 .. j - 1 - 1 + 1 : b[i] = t[1 + i - 1]
    BY ONLY <1>4, <2>0, <2>4, SubSeqProperties
  <2>6. PICK y \in Seq(Statement) : y = s \o b /\ Joined(y, s, b)
    BY ConcatJoins, ConcatProperties
  <2>7. Len(b) = j - 1 /\ Len(x) = k - 1 /\ Len(y) = k - 1
    BY <1>0, <1>2, <2>3, <2>5, <2>6 DEF Joined
  <2>8. ASSUME NEW i \in 1 .. k - 1 PROVE x[i] = y[i]
    <3>1. x[i] = w[i]
      <4>1. i \in 1 .. k - 1 - 1 + 1 /\ 1 + i - 1 = i
        BY <1>2
      <4> QED BY <2>3, <4>1
    <3>2. CASE i \in 1 .. Len(s)
      BY <1>1, <2>6, <3>1, <3>2 DEF Joined
    <3>3. CASE i \notin 1 .. Len(s)
      <4>1. PICK n \in 1 .. j - 1 : i = Len(s) + n
        <5>1. i - Len(s) \in 1 .. j - 1 /\ i = Len(s) + (i - Len(s))
          BY <1>0, <1>2, <3>3
        <5> QED BY <5>1
      <4>2. n \in 1 .. Len(b) /\ n \in 1 .. Len(t) /\ n \in 1 .. j - 1 - 1 + 1 /\ 1 + n - 1 = n
        BY <1>0, <2>7
      <4>3. y[i] = b[n] /\ w[i] = t[n]
        BY <1>1, <2>6, <4>1, <4>2 DEF Joined
      <4> QED BY <2>5, <3>1, <4>2, <4>3
    <3> QED BY <3>2, <3>3
  <2>9. x = y
    BY <2>3, <2>6, <2>7, <2>8, SeqEqual
  <2> QED BY <2>1, <2>6, <2>9
<1>6. IsMap(SetMap, Statement, Seq(Place))
  BY MapsAre
<1>7. PICK es \in Seq(Place), eb \in Seq(Place) : es = Each(SetMap, s) /\ eb = Each(SetMap, b)
  <2>1. Each(SetMap, s) \in Seq(Place)
    BY ONLY <1>6, s \in Seq(Statement), EachIn
  <2>2. Each(SetMap, b) \in Seq(Place)
    BY ONLY <1>6, b \in Seq(Statement), EachIn
  <2> QED BY <2>1, <2>2
<1>8. Each(SetMap, s \o b) = es \o eb
  <2>1. Each(SetMap, s \o b) = Each(SetMap, s) \o Each(SetMap, b)
    BY ONLY <1>6, s \in Seq(Statement), b \in Seq(Statement), EachConcat, SMTT(40)
  <2> QED BY <1>7, <2>1
<1>9. S \o (es \o eb) = (S \o es) \o eb
  <2>1. Assoc(S, es, eb)
    BY ConcatAssoc
  <2> QED BY ONLY <2>1 DEF Assoc
<1> QED BY <1>1, <1>2, <1>3, <1>4, <1>5, <1>7, <1>8, <1>9 DEF SameBefore, SetsBefore

ReadyTwo(g, S, s, t, vp) ==
  AllReady(g, S, s \o t, vp) <=> AllReady(g, S, s, vp) /\ AllReady(g, S \o Each(SetMap, s), t, vp)

LEMMA ReadyConcat ==
  ASSUME Classes(program), NEW S \in Seq(Place), NEW s \in Seq(Statement), NEW t \in Seq(Statement), NEW g, NEW vp
  PROVE  ReadyTwo(g, S, s, t, vp)
<1>1. PICK w \in Seq(Statement) : w = s \o t /\ Joined(w, s, t)
  BY ConcatJoins, ConcatProperties
<1>2. PICK R : R = S \o Each(SetMap, s)
  OBVIOUS
<1>3. \A k \in 1 .. Len(s) : SameBefore(S, w, k, S, s, k)
  BY <1>1, FrontBefore
<1>4. \A j \in 1 .. Len(t) : SameBefore(S, w, Len(s) + j, R, t, j)
  BY <1>1, <1>2, BackBefore
<1>5. \A k \in 1 .. Len(w) : k \in 1 .. Len(s) \/ \E j \in 1 .. Len(t) : k = Len(s) + j
  <2> TAKE k \in 1 .. Len(w)
  <2>1. Len(s) \in Nat /\ (k \in 1 .. Len(s) \/ k - Len(s) \in 1 .. Len(t))
    BY <1>1 DEF Joined
  <2>2. k = Len(s) + (k - Len(s))
    BY <2>1
  <2> QED BY <2>1, <2>2
<1>6. ASSUME AllReady(g, S, w, vp) PROVE AllReady(g, S, s, vp) /\ AllReady(g, R, t, vp)
  BY ONLY <1>3, <1>4, <1>6 DEF AllReady, SameBefore
<1>7. ASSUME AllReady(g, S, s, vp), AllReady(g, R, t, vp) PROVE AllReady(g, S, w, vp)
  <2> SUFFICES ASSUME NEW k \in 1 .. Len(w), NEW a, NEW v, Need(g, w[k], a, v)
               PROVE  Settled(SetsBefore(S, w, k), vp, a, v)
    BY DEF AllReady
  <2>1. CASE k \in 1 .. Len(s)
    BY <1>3, <1>7, <2>1 DEF AllReady, SameBefore
  <2>2. ASSUME NEW j \in 1 .. Len(t), k = Len(s) + j PROVE Settled(SetsBefore(S, w, k), vp, a, v)
    BY <1>4, <1>7, <2>2 DEF AllReady, SameBefore
  <2> QED BY <1>5, <2>1, <2>2
<1> QED BY <1>1, <1>2, <1>6, <1>7 DEF ReadyTwo

(* Statements that rely on no vtable; and one.                             *)
LEMMA ReadyOfItself ==
  ASSUME NEW s, NEW g, NEW S, NEW vp, \A k \in 1 .. Len(s) : s[k].op \notin {"ctor body", "delete", "use"}
  PROVE  AllReady(g, S, s, vp)
BY DEF AllReady, Need

LEMMA ReadyOne ==
  ASSUME NEW x \in Statement, NEW g, NEW S \in Seq(Place), NEW vp
  PROVE  AllReady(g, S, <<x>>, vp) <=> \A a, v : Need(g, x, a, v) => Settled(S, vp, a, v)
<1>1. Len(<<x>>) = 1 /\ <<x>>[1] = x /\ <<x>> \in Seq(Statement)
  BY OneInSeq
<1>2. SubSeq(<<x>>, 1, 1 - 1) = <<>>
  BY SubSeqEmpty
<1>3. SetsBefore(S, <<x>>, 1) = S
  BY <1>2, EachEmpty, ConcatEmptySeq DEF SetsBefore
<1>4. 1 .. Len(<<x>>) = {1}
  BY <1>1
<1> QED BY <1>1, <1>3, <1>4 DEF AllReady

(* What has been set is settled.                                           *)
LEMMA ReadyAfter ==
  ASSUME Classes(program), NEW t \in Seq(Statement), NEW g, NEW at \in Address, NEW c \in Nat, NEW vp,
         AllReady(g, <<<<at, c>>>>, t, vp), NEW vn, vn = [x \in {at} \cup DOMAIN vp |-> IF x = at THEN c ELSE vp[x]]
  PROVE  AllReady(g, <<>>, t, vn)
<1>1. ASSUME NEW k \in 1 .. Len(t), NEW a, NEW v, Settled(SetsBefore(<<<<at, c>>>>, t, k), vp, a, v)
      PROVE  Settled(SetsBefore(<<>>, t, k), vn, a, v)
  <2>1. PICK e \in Seq(Place) : e = Each(SetMap, SubSeq(t, 1, k - 1))
    BY BeforeIn, MapsAre, EachIn
  <2>2. SetsBefore(<<>>, t, k) = e /\ SetsBefore(<<<<at, c>>>>, t, k) = <<<<at, c>>>> \o e
    BY <2>1, ConcatEmptySeq DEF SetsBefore
  <2>3. PICK o \in Seq(Place) : o = <<<<at, c>>>> /\ Len(o) = 1 /\ o[1] = <<at, c>>
    <3>1. <<at, c>> \in Place
      BY DEF Place
    <3> QED BY <3>1, OneInSeq
  <2>4. Silent(o, a) <=> a # at
    BY <2>3 DEF Silent
  <2>5. Leaves(o, a, v) => a = at /\ v = c
    BY <2>3 DEF Leaves
  <2>6. /\ Silent(o \o e, a) <=> Silent(o, a) /\ Silent(e, a)
        /\ Leaves(o \o e, a, v) => Leaves(e, a, v) \/ (Leaves(o, a, v) /\ Silent(e, a))
    BY LeavesConcat
  <2>7. at \in DOMAIN vn /\ vn[at] = c /\ (a # at /\ a \in DOMAIN vp => a \in DOMAIN vn /\ vn[a] = vp[a])
    OBVIOUS
  <2> QED BY <1>1, <2>2, <2>3, <2>4, <2>5, <2>6, <2>7 DEF Settled
<1> QED BY <1>1 DEF AllReady

(* Calls of constructors, and the setting of vtables.                      *)
InitSt == {s \in Statement : s.op \in {"ctor", "vtable"}}

LEMMA InitIn ==
  ASSUME NEW op \in {"ctor", "vtable"}, NEW at \in Address, NEW c \in Nat
  PROVE  <<Perform(op, at, c)>> \in Seq(InitSt)
<1>1. Perform(op, at, c) \in InitSt
  BY DEF Perform, InitSt, Statement, Ops
<1> QED BY <1>1, OneInSeq

LEMMA FrontIn ==
  ASSUME Classes(program), NEW c \in 1 .. Len(program), NEW at \in Address
  PROVE  CtorFront(at, c) \in Seq(InitSt)
<1>1. ASSUME NEW b \in 1 .. Len(program), NEW a \in Address PROVE Initialise(a, b) \in Seq(InitSt)
  <2>1. b \in Nat
    BY ClassIs
  <2>2. <<Perform("ctor", a, b)>> \in Seq(InitSt) /\ <<Perform("vtable", a, b)>> \in Seq(InitSt)
    BY <2>1, InitIn
  <2> QED BY <2>2, EmptySeq DEF Initialise
<1>2. MemberCtors(at, c) \in Seq(InitSt)
  <2>1. PICK fs : fs = program[c].fields
    OBVIOUS
  <2>2. Len(fs) \in Nat /\ \A i \in 1 .. Len(fs) : fs[i].class \in 1 .. Len(program)
    BY <2>1, ClassIs, FieldIs
  <2>3. \A i \in 1 .. Len(fs) : \A a \in Address : Initialise(a, fs[i].class) \in Seq(InitSt)
    BY <1>1, <2>2
  <2>4. c \in Nat
    BY ClassIs
  <2>5. CallGrid(at, fs, c) \in Seq(Seq(Seq(InitSt)))
    BY <2>2, <2>3, <2>4, CallGridIn
  <2>6. Twice(CallGrid(at, fs, c)) \in Seq(InitSt)
    BY <2>5, TwiceIn
  <2> QED BY <2>1, <2>6, MemberCtorsAre
<1>3. BaseCtor(at, c) \in Seq(InitSt)
  <2>1. program[c].base \in Nat
    BY ClassIs
  <2>2. <<Perform("ctor", at, program[c].base)>> \in Seq(InitSt)
    BY <2>1, InitIn
  <2> QED BY <2>2, EmptySeq DEF BaseCtor
<1>4. VtableInit(at, c) \in Seq(InitSt)
  <2>1. c \in Nat
    BY ClassIs
  <2>2. <<Perform("vtable", at, c)>> \in Seq(InitSt)
    BY <2>1, InitIn
  <2> QED BY <2>2, EmptySeq DEF VtableInit
<1>5. BaseCtor(at, c) \o VtableInit(at, c) \in Seq(InitSt)
  BY <1>3, <1>4, ConcatProperties
<1> QED BY <1>2, <1>5, ConcatProperties DEF CtorFront

LEMMA QuietReady ==
  ASSUME NEW s \in Seq(InitSt), NEW g, NEW S, NEW vp
  PROVE  AllReady(g, S, s, vp)
<1>1. \A k \in 1 .. Len(s) : s[k] \in InitSt
  BY ElementOfSeq
<1>2. \A k \in 1 .. Len(s) : s[k].op \notin {"ctor body", "delete", "use"}
  BY <1>1 DEF InitSt
<1> QED BY <1>2, ReadyOfItself

LEMMA BodyReady ==
  ASSUME Classes(program), NEW c \in 1 .. Len(program), NEW at \in Address, program[c].ctor # "none",
         NEW g, NEW a, NEW v, Need(g, Perform("ctor body", at, c), a, v)
  PROVE  Leaves(Inside(at, SetOf[c]), a, v)
<1>0. SetsAre(program, SetOf) /\ c \in Nat /\ SetOf[c] \in Seq(Place)
  BY SetsAreSo, ClassIs, OfsFit DEF SetOf
<1>1. PICK s : s = Perform("ctor body", at, c) /\ s.op = "ctor body" /\ s.at = at /\ s.class = c
  <2>1. PICK s : s = Perform("ctor body", at, c)
    OBVIOUS
  <2>2. s.op = "ctor body" /\ s.at = at /\ s.class = c
    BY <2>1 DEF Perform
  <2> QED BY <2>1, <2>2
<1>2. CASE program[c].vtable /\ a = at /\ v = c
  <2>1. Leaves(SetOf[c], <<>>, c)
    BY <1>0, <1>2, SetsItself
  <2>2. Leaves(Inside(at, SetOf[c]), at \o <<>>, c)
    BY <1>0, <2>1, EmptyAddress, LeavesInside
  <2>3. at \o <<>> = at
    BY ConcatEmptySeq DEF Address
  <2> QED BY <1>2, <2>2, <2>3
<1>3. CASE MemberNeed(s, a, v)
  <2>1. PICK i \in 1 .. Len(program[c].fields) : \E e \in 1 .. MemberCount(program[c].fields[i]) :
          /\ program[program[c].fields[i].class].vtable
          /\ a = Part(at, c, i, e) /\ v = program[c].fields[i].class
    BY <1>1, <1>3 DEF MemberNeed
  <2>2. PICK e \in 1 .. MemberCount(program[c].fields[i]) :
          /\ program[program[c].fields[i].class].vtable
          /\ a = Part(at, c, i, e) /\ v = program[c].fields[i].class
    BY <2>1
  <2>3. v \in 1 .. Len(program) /\ program[v].vtable
    BY <2>2, FieldIs
  <2>4. Leaves(SetOf[v], <<>>, v)
    BY <1>0, <2>3, SetsItself
  <2>5. i \in Nat /\ e \in Nat
    <3>1. Fits(SetOf, program[c].fields)
      BY <1>0, SetsFit
    <3> QED BY <3>1, FieldNumbers
  <2>6. Part(<<>>, c, i, e) \in Address /\ at \o Part(<<>>, c, i, e) = Part(at, c, i, e)
    BY <1>0, <2>5, PartIs, PartAfter
  <2>7. Leaves(SetOf[c], Part(<<>>, c, i, e) \o <<>>, v)
    BY <1>0, <2>2, <2>4, EmptyAddress, TableOfMember
  <2>8. Part(<<>>, c, i, e) \o <<>> = Part(<<>>, c, i, e)
    BY <2>6, ConcatEmptySeq DEF Address
  <2>9. Leaves(Inside(at, SetOf[c]), at \o Part(<<>>, c, i, e), v)
    BY <1>0, <2>6, <2>7, <2>8, LeavesInside
  <2> QED BY <2>2, <2>6, <2>9
<1> QED BY <1>1, <1>2, <1>3 DEF Need

LEMMA CtorReady ==
  ASSUME Classes(program), NEW c \in 1 .. Len(program), NEW at \in Address, program[c].ctor # "none", NEW g, NEW vp
  PROVE  AllReady(g, <<>>, CtorCode(at, c), vp)
<1>1. CtorDoes(at, c)
  BY CtorDoesSo
<1>2. PICK f \in Seq(Statement), b \in Statement, e \in Seq(Place) :
        /\ f = CtorFront(at, c) /\ b = Perform("ctor body", at, c) /\ e = Inside(at, SetOf[c])
        /\ CtorCode(at, c) = f \o <<b>> /\ Each(SetMap, f) = e
  <2>1. Perform("ctor body", at, c) \in Statement
    <3>1. "ctor body" \in Ops
      BY DEF Ops
    <3> QED BY <3>1, MapsAt
  <2>2. Inside(at, SetOf[c]) \in Seq(Place)
    BY OfsFit, InsideIn
  <2> QED BY <1>1, <2>1, <2>2 DEF CtorDoes
<1>3. AllReady(g, <<>>, f, vp)
  BY <1>2, FrontIn, QuietReady
<1>4. AllReady(g, e, <<b>>, vp)
  <2>1. \A a, v : Need(g, b, a, v) => Settled(e, vp, a, v)
    BY <1>2, BodyReady DEF Settled
  <2> QED BY <2>1, ReadyOne
<1>5. <<>> \o e = e /\ <<>> \in Seq(Place)
  BY ConcatEmptySeq, EmptySeq
<1>6. <<b>> \in Seq(Statement)
  BY OneInSeq
<1>7. ReadyTwo(g, <<>>, f, <<b>>, vp)
  BY <1>5, <1>6, ReadyConcat
<1> QED BY <1>2, <1>3, <1>4, <1>5, <1>7 DEF ReadyTwo

(* The object of a program, as if it were the only member of class 0.      *)
ObjFields(st) == <<[shape |-> st, class |-> Len(program)]>>
WholeOf(F, st) == Twice(GridOf(F, ObjFields(st), 0))
WholeParts(st) == WholeOf(PartsMap(program), st)
FinalSets(st) == WholeOf(SetOf, st)
CtorsDue(st) == OfClasses(WholeParts(st), UserCtors)
DtorsDue(st) == IF st = "global" THEN <<>> ELSE Reverse(OfClasses(WholeParts(st), UserDtors))

OneField(fs, st) ==
  /\ Len(fs) = 1 /\ Len(fs) \in Nat /\ fs[1].shape = st /\ fs[1].class = Len(program)
  /\ \A i \in 1 .. Len(fs) : i = 1 /\ fs[i].class = Len(program)

LEMMA ObjFieldsAre ==
  ASSUME NEW st
  PROVE  OneField(ObjFields(st), st)
<1>1. PICK r : r = [shape |-> st, class |-> Len(program)]
  OBVIOUS
<1>2. r.shape = st /\ r.class = Len(program)
  BY <1>1
<1>3. ObjFields(st) = <<r>>
  BY <1>1 DEF ObjFields
<1>4. Len(<<r>>) = 1 /\ <<r>>[1] = r
  BY OneInSeq
<1> QED BY <1>2, <1>3, <1>4 DEF OneField

LEMMA OneRowFlat ==
  ASSUME NEW T, NEW r \in Seq(Seq(T)), NEW g, Len(g) = 1, g[1] = r
  PROVE  Twice(g) = FlattenSeq(r)
<1>1. PICK s \in Seq(T) : s = FlattenSeq(r)
  BY FlattenIn
<1>2. Twice(g) = FlattenSeq([i \in 1 .. 1 |-> FlattenSeq(g[i])])
  BY DEF Twice
<1>3. [i \in 1 .. 1 |-> FlattenSeq(g[i])] = [i \in 1 .. 1 |-> s]
  BY <1>1
<1>4. PICK f : f = [i \in 1 .. 1 |-> s]
  OBVIOUS
<1>5. f \in [1 .. 1 -> Seq(T)] /\ f[1] = s
  BY <1>4
<1>6. f \in Seq(Seq(T)) /\ Len(f) = 1
  BY <1>5, FunctionSeq
<1>7. <<s>> \in Seq(Seq(T)) /\ Len(<<s>>) = 1 /\ <<s>>[1] = s
  BY OneInSeq
<1>8. \A i \in 1 .. Len(f) : f[i] = <<s>>[i]
  <2>1. \A i \in 1 .. Len(f) : i = 1
    BY <1>6
  <2> QED BY <1>5, <1>7, <2>1
<1>9. f = <<s>>
  BY <1>6, <1>7, <1>8, SeqEqual
<1> QED BY <1>1, <1>2, <1>3, <1>4, <1>9, FlattenOne

Count(st) == IF Owns(st) THEN Elements(st) ELSE 0

LEMMA CountIn ==
  ASSUME NEW st
  PROVE  Count(st) \in Nat /\ \A f : f.shape = st => MemberCount(f) = Count(st)
BY CountIs, ProgramAssumption DEF Count, MemberCount, Elements

LEMMA WholeIs ==
  ASSUME Classes(program), Len(program) # 0, NEW F, F[Len(program)] \in Seq(Place), NEW st
  PROVE  /\ Fits(F, ObjFields(st)) /\ WholeOf(F, st) \in Seq(Place)
         /\ WholeOf(F, st) = FlattenSeq([e \in 1 .. Count(st) |-> Inside(Part(<<>>, NoClass, 1, e), F[Len(program)])])
<1>1. PICK fs : fs = ObjFields(st) /\ OneField(fs, st)
  BY ObjFieldsAre
<1>2. Fits(F, fs)
  BY <1>1 DEF Fits, OneField
<1>3. WholeOf(F, st) \in Seq(Place)
  BY <1>1, <1>2, GridPlaces DEF WholeOf
<1>4. MemberCount(fs[1]) = Count(st) /\ Count(st) \in Nat
  BY <1>1, CountIn DEF OneField
<1>5. PICK g : g = GridOf(F, fs, 0)
  OBVIOUS
<1>6. PICK r : r = [e \in 1 .. Count(st) |-> Inside(Part(<<>>, NoClass, 1, e), F[Len(program)])]
  OBVIOUS
<1>7. g = [i \in 1 .. 1 |-> [e \in 1 .. MemberCount(fs[i]) |-> Inside(Part(<<>>, 0, i, e), F[fs[i].class])]]
  BY <1>1, <1>5 DEF GridOf, OneField
<1>8. g[1] = r
  BY <1>1, <1>4, <1>6, <1>7 DEF OneField, NoClass
<1>9. Len(g) = 1
  BY <1>7
<1>10. r \in Seq(Seq(Place))
  <2>1. ASSUME NEW e \in 1 .. Count(st) PROVE Inside(Part(<<>>, NoClass, 1, e), F[Len(program)]) \in Seq(Place)
    <3>1. e \in Nat /\ 1 \in Nat /\ NoClass \in Nat
      BY <1>4 DEF NoClass
    <3>2. Part(<<>>, NoClass, 1, e) \in Address
      BY <3>1, PartIs
    <3> QED BY <3>2, InsideIn
  <2>2. r \in [1 .. Count(st) -> Seq(Place)]
    BY <1>6, <2>1
  <2> QED BY <1>4, <2>2, FunctionSeq
<1>11. Twice(g) = FlattenSeq(r)
  BY <1>8, <1>9, <1>10, OneRowFlat
<1> QED BY <1>1, <1>2, <1>3, <1>5, <1>6, <1>11 DEF WholeOf

LEMMA PartsAre ==
  ASSUME Classes(program), Len(program) # 0, NEW o, o.class = Len(program), o.storage \in Storages
  PROVE  Parts(o) = WholeParts(o.storage)
<1>1. Len(program) \in 1 .. Len(program)
  BY DEF Classes
<1>2. PartsMap(program)[Len(program)] = program[o.class].parts /\ program[o.class].parts \in Seq(Place)
  BY <1>1, PartsFit
<1>3. (IF o.storage = "new array" \/ ~Owns(o.storage) THEN 0 ELSE Elements(o.storage)) = Count(o.storage)
  BY DEF Storages, Count
<1>4. WholeParts(o.storage) = FlattenSeq([e \in 1 .. Count(o.storage) |-> Inside(Part(<<>>, NoClass, 1, e), program[o.class].parts)])
  BY <1>2, WholeIs DEF WholeParts
<1> QED BY <1>3, <1>4 DEF Parts

-----------------------------------------------------------------------------
(* The code that creates it.                                               *)
Begin(o) ==
  CASE o.storage \in AllShapes -> LocalCtors(o.storage, o.class)
    [] o.storage \in {"new", "global"} -> Initialise(TheObject, o.class)
    [] o.storage = "new array" -> <<>>
End(o) ==
  CASE o.storage \in AllShapes -> LocalDtors(o.storage, o.class)
    [] o.storage \in {"new", "new array"} -> <<Perform("delete", TheObject, o.static)>>
    [] o.storage = "global" -> <<>>

LEMMA MainIs ==
  ASSUME NEW o
  PROVE  MainCode(o) = (Begin(o) \o <<Perform("use", TheObject, o.class)>>) \o End(o)
BY DEF MainCode, Begin, End

LEMMA BeginIs ==
  ASSUME Classes(program), Len(program) # 0, NEW o, o.class = Len(program), o.storage \in Storages
  PROVE  Begin(o) = Twice(CallGrid(<<>>, ObjFields(o.storage), 0))
<1>0. Len(program) \in 1 .. Len(program)
  BY DEF Classes
<1>1. PICK fs : fs = ObjFields(o.storage) /\ OneField(fs, o.storage)
  BY ObjFieldsAre
<1>4. MemberCount(fs[1]) = Count(o.storage) /\ Count(o.storage) \in Nat
  BY <1>1, CountIn DEF OneField
<1>5. PICK g : g = CallGrid(<<>>, fs, 0)
  OBVIOUS
<1>6. PICK r : r = [e \in 1 .. Count(o.storage) |-> Initialise(Part(<<>>, NoClass, 1, e), Len(program))]
  OBVIOUS
<1>7. g = [i \in 1 .. 1 |-> [e \in 1 .. MemberCount(fs[i]) |-> Initialise(Part(<<>>, 0, i, e), fs[i].class)]]
  BY <1>1, <1>5 DEF CallGrid, OneField
<1>8. g[1] = r
  BY <1>1, <1>4, <1>6, <1>7 DEF OneField, NoClass
<1>9. Len(g) = 1
  BY <1>7
<1>10. ASSUME NEW e \in 1 .. Count(o.storage)
       PROVE  Initialise(Part(<<>>, NoClass, 1, e), Len(program)) \in Seq(CtorSt)
  <2>1. e \in Nat /\ 1 \in Nat /\ NoClass \in Nat
    BY <1>4 DEF NoClass
  <2>2. Part(<<>>, NoClass, 1, e) \in Address
    BY <2>1, PartIs
  <2> QED BY <1>0, <2>2, InitialiseIn
<1>11. r \in Seq(Seq(CtorSt)) /\ Len(r) = Count(o.storage)
  <2>1. r \in [1 .. Count(o.storage) -> Seq(CtorSt)]
    BY <1>6, <1>10
  <2> QED BY <1>4, <2>1, FunctionSeq
<1>12. Twice(g) = FlattenSeq(r)
  BY <1>8, <1>9, <1>11, OneRowFlat
<1>13. CASE o.storage \in AllShapes
  <2>1. (IF o.storage # "pointer" THEN Elements(o.storage) ELSE 0) = Count(o.storage)
    BY <1>13 DEF Storages, AllShapes, Count, Owns
  <2>2. LocalCtors(o.storage, o.class) = FlattenSeq(r)
    BY <1>6, <2>1 DEF LocalCtors
  <2>3. o.storage \notin {"new", "global"} /\ o.storage # "new array"
    BY <1>13 DEF AllShapes
  <2>4. Begin(o) = LocalCtors(o.storage, o.class)
    BY <1>13, <2>3 DEF Begin
  <2> QED BY <1>1, <1>5, <1>12, <2>2, <2>4
<1>14. CASE o.storage \in {"new", "global"}
  <2>1. Count(o.storage) = 1 /\ o.storage \notin AllShapes
    BY <1>14 DEF Count, Owns, Elements, AllShapes
  <2>2. r[1] = Initialise(TheObject, o.class) /\ Len(r) = 1
    BY <1>6, <1>11, <2>1 DEF TheObject
  <2>3. Initialise(TheObject, o.class) \in Seq(CtorSt)
    BY <1>10, <2>1 DEF TheObject
  <2>4. r = <<Initialise(TheObject, o.class)>>
    <3>1. PICK i \in Seq(CtorSt) : i = Initialise(TheObject, o.class)
      BY <2>3
    <3>2. <<i>> \in Seq(Seq(CtorSt)) /\ Len(<<i>>) = 1 /\ <<i>>[1] = i
      BY OneInSeq
    <3>3. \A k \in 1 .. Len(r) : r[k] = <<i>>[k]
      <4>1. \A k \in 1 .. Len(r) : k = 1
        BY <2>2
      <4> QED BY <2>2, <3>1, <3>2, <4>1
    <3>4. r = <<i>>
      BY <1>11, <2>2, <3>2, <3>3, SeqEqual
    <3> QED BY <3>1, <3>4
  <2>5. FlattenSeq(r) = Initialise(TheObject, o.class)
    BY <2>3, <2>4, FlattenOne
  <2> QED BY <1>1, <1>5, <1>12, <1>14, <2>1, <2>5 DEF Begin
<1> QED BY <1>13, <1>14 DEF Storages, AllShapes

LEMMA OneWhole ==
  ASSUME Classes(program), Len(program) # 0, NEW F, F[Len(program)] \in Seq(Place), NEW st, Count(st) = 1
  PROVE  WholeOf(F, st) = Inside(TheObject, F[Len(program)]) /\ TheObject \in Address
<1>0. TheObject \in Address
  <2>1. 1 \in Nat /\ NoClass \in Nat
    BY DEF NoClass
  <2> QED BY <2>1, PartIs DEF TheObject
<1>1. PICK s \in Seq(Place) : s = Inside(TheObject, F[Len(program)])
  BY <1>0, InsideIn
<1>2. PICK f : f = [e \in 1 .. 1 |-> Inside(Part(<<>>, NoClass, 1, e), F[Len(program)])]
  OBVIOUS
<1>3. f[1] = s /\ f = [e \in 1 .. 1 |-> f[e]]
  BY <1>1, <1>2 DEF TheObject
<1>4. f \in [1 .. 1 -> Seq(Place)]
  BY <1>3
<1>5. f \in Seq(Seq(Place)) /\ Len(f) = 1
  BY <1>4, FunctionSeq
<1>6. <<s>> \in Seq(Seq(Place)) /\ Len(<<s>>) = 1 /\ <<s>>[1] = s
  BY OneInSeq
<1>7. \A i \in 1 .. Len(f) : f[i] = <<s>>[i]
  <2>1. \A i \in 1 .. Len(f) : i = 1
    BY <1>5
  <2> QED BY <1>3, <1>6, <2>1
<1>8. f = <<s>>
  BY <1>5, <1>6, <1>7, SeqEqual
<1>9. WholeOf(F, st) = FlattenSeq(f)
  BY <1>2, WholeIs
<1> QED BY <1>0, <1>1, <1>8, <1>9, FlattenOne

LEMMA DuesAre ==
  ASSUME Classes(program), Len(program) # 0, NEW st
  PROVE  /\ CtorsDue(st) = WholeOf(BuildOf, st) /\ CtorsDue(st) \in Seq(Place)
         /\ OfClasses(WholeParts(st), UserDtors) = WholeOf(GoneOf, st) /\ WholeOf(GoneOf, st) \in Seq(Place)
         /\ WholeParts(st) \in Seq(Place) /\ FinalSets(st) \in Seq(Place)
<1>0. PICK c \in 1 .. Len(program) : c = Len(program)
  <2>1. Len(program) \in 1 .. Len(program)
    BY DEF Classes
  <2> QED BY <2>1
<1>1. PartsMap(program)[c] = program[c].parts /\ program[c].parts \in Seq(Place)
  BY PartsFit
<1>2. /\ BuildOf[c] = OfClasses(program[c].parts, UserCtors) /\ BuildOf[c] \in Seq(Place)
      /\ GoneOf[c] = OfClasses(program[c].parts, UserDtors) /\ GoneOf[c] \in Seq(Place)
      /\ SetOf[c] \in Seq(Place)
  BY OfsFit
<1>3. WholeParts(st) \in Seq(Place) /\ Fits(PartsMap(program), ObjFields(st))
  BY <1>0, <1>1, WholeIs DEF WholeParts
<1>4. FinalSets(st) \in Seq(Place)
  BY <1>0, <1>2, WholeIs DEF FinalSets
<1>5. WholeOf(BuildOf, st) \in Seq(Place) /\ WholeOf(GoneOf, st) \in Seq(Place)
  BY <1>0, <1>2, WholeIs
<1>6. PICK fs : fs = ObjFields(st) /\ OneField(fs, st)
  BY ObjFieldsAre
<1>7. \A i \in 1 .. Len(fs) : fs[i].class = c
  BY <1>0, <1>6 DEF OneField
<1>8. 0 \in Nat /\ Fits(PartsMap(program), fs)
  BY <1>3, <1>6
<1>9. OfClasses(Twice(GridOf(PartsMap(program), fs, 0)), UserCtors) = Twice(GridOf(BuildOf, fs, 0))
  <2>1. \A i \in 1 .. Len(fs) : BuildOf[fs[i].class] = OfClasses(PartsMap(program)[fs[i].class], UserCtors)
    BY <1>1, <1>2, <1>7
  <2> QED BY ONLY <1>8, <2>1, GridClasses
<1>10. OfClasses(Twice(GridOf(PartsMap(program), fs, 0)), UserDtors) = Twice(GridOf(GoneOf, fs, 0))
  <2>1. \A i \in 1 .. Len(fs) : GoneOf[fs[i].class] = OfClasses(PartsMap(program)[fs[i].class], UserDtors)
    BY <1>1, <1>2, <1>7
  <2> QED BY ONLY <1>8, <2>1, GridClasses
<1>11. CtorsDue(st) = WholeOf(BuildOf, st)
  BY <1>6, <1>9 DEF CtorsDue, WholeParts, WholeOf
<1>12. OfClasses(WholeParts(st), UserDtors) = WholeOf(GoneOf, st)
  BY <1>6, <1>10 DEF WholeParts, WholeOf
<1> QED BY <1>3, <1>4, <1>5, <1>11, <1>12

LEMMA BeginDoes ==
  ASSUME Classes(program), Len(program) # 0, NEW o, o.class = Len(program), o.storage \in Storages
  PROVE  PartDoes(Begin(o), CtorsDue(o.storage), FinalSets(o.storage))
<1>1. PICK fs : fs = ObjFields(o.storage) /\ OneField(fs, o.storage)
  BY ObjFieldsAre
<1>2. Len(fs) \in Nat /\ \A i \in 1 .. Len(fs) : fs[i].class \in 1 .. Len(program)
  BY <1>1 DEF OneField, Classes
<1>3. PICK b : b = Twice(CallGrid(<<>>, fs, 0))
  OBVIOUS
<1>4. /\ b \in Seq(CtorSt) /\ b \in Seq(Statement)
      /\ \A h, F : Inits(h, F) => Each(h, b) = Inside(<<>>, Twice(GridOf(F, fs, 0)))
  <2>1. 0 \in Nat
    OBVIOUS
  <2>2. /\ Twice(CallGrid(<<>>, fs, 0)) \in Seq(CtorSt) /\ Twice(CallGrid(<<>>, fs, 0)) \in Seq(Statement)
        /\ \A h, F : Inits(h, F) =>
              Fits(F, fs) /\ Each(h, Twice(CallGrid(<<>>, fs, 0))) = Inside(<<>>, Twice(GridOf(F, fs, 0)))
    BY ONLY <1>2, <2>1, Classes(program), EmptyAddress, CallsDo
  <2> QED BY <1>3, <2>2
<1>5. Each(BuildMap, b) = CtorsDue(o.storage)
  BY <1>1, <1>4, InitsBuild, DuesAre, InsideNothing DEF WholeOf
<1>6. Each(SetMap, b) = FinalSets(o.storage)
  <2>1. FinalSets(o.storage) = Twice(GridOf(SetOf, fs, 0)) /\ FinalSets(o.storage) \in Seq(Place)
    BY <1>1, DuesAre DEF FinalSets, WholeOf
  <2> QED BY <1>4, <2>1, InitsSet, InsideNothing
<1> QED BY <1>1, <1>3, <1>4, <1>5, <1>6, BeginIs DEF PartDoes

LEMMA BeginQuiet ==
  ASSUME Classes(program), Len(program) # 0, NEW o, o.class = Len(program), o.storage \in Storages
  PROVE  Begin(o) \in Seq(InitSt)
<1>1. PICK fs : fs = ObjFields(o.storage) /\ OneField(fs, o.storage)
  BY ObjFieldsAre
<1>2. \A i \in 1 .. Len(fs) : \A a \in Address : Initialise(a, fs[i].class) \in Seq(InitSt)
  <2> TAKE i \in 1 .. Len(fs)
  <2> TAKE a \in Address
  <2>1. fs[i].class \in Nat
    BY <1>1 DEF OneField, Classes
  <2>2. <<Perform("ctor", a, fs[i].class)>> \in Seq(InitSt) /\ <<Perform("vtable", a, fs[i].class)>> \in Seq(InitSt)
    BY <2>1, InitIn
  <2> QED BY <2>2, EmptySeq DEF Initialise
<1>3. 0 \in Nat /\ Len(fs) \in Nat
  BY <1>1 DEF OneField
<1>4. CallGrid(<<>>, fs, 0) \in Seq(Seq(Seq(InitSt)))
  BY <1>2, <1>3, EmptyAddress, CallGridIn
<1>5. Twice(CallGrid(<<>>, fs, 0)) \in Seq(InitSt)
  BY <1>4, TwiceIn
<1> QED BY <1>1, <1>5, BeginIs

-----------------------------------------------------------------------------
(* The code that ends its life.                                            *)
EndDoes(o) ==
  /\ GoneDoes(End(o), DtorsDue(o.storage))
  /\ \A vp : AllReady(FinalSets(o.storage), FinalSets(o.storage), End(o), vp)

DtorOnly == {s \in Statement : s.op = "dtor"}

LEMMA LocalEnd ==
  ASSUME Classes(program), Len(program) # 0, NEW o, o.class = Len(program),
         o.storage \in {"value", "array", "typedef", "pointer"}
  PROVE  EndDoes(o)
<1>0. Len(program) \in 1 .. Len(program)
  BY DEF Classes
<1>1. PICK fs : fs = ObjFields(o.storage) /\ OneField(fs, o.storage)
  BY ObjFieldsAre
<1>2. Len(fs) \in Nat /\ \A i \in 1 .. Len(fs) : fs[i].class \in 1 .. Len(program)
  BY <1>0, <1>1 DEF OneField
<1>3. PICK n \in Nat : n = IF program[Len(program)].dtor # "none" THEN Count(o.storage) ELSE 0
  BY CountIn
<1>4. PICK d : d = DtorCalls(<<>>, fs, 0, Live(fs))
  OBVIOUS
<1>5. PICK r : r = DtorRow(<<>>, 0, 1, Len(program), n)
  OBVIOUS
<1>6. r \in Seq(Statement)
  <2>1. 0 \in Nat /\ 1 \in Nat /\ Len(program) \in Nat
    BY <1>0
  <2> QED BY <1>5, <2>1, EmptyAddress, DtorRowIn DEF DtorRowIs
<1>7. d[1] = r /\ Len(d) = 1
  <2>1. d = [k \in 1 .. 1 |->
     DtorRow(<<>>, 0, 1 + 1 - k, fs[1 + 1 - k].class,
             IF 1 + 1 - k \in Live(fs) THEN MemberCount(fs[1 + 1 - k]) ELSE 0)]
    BY <1>1, <1>4 DEF DtorCalls, OneField
  <2>2. MemberCount(fs[1]) = Count(o.storage) /\ fs[1].class = Len(program)
    BY <1>1, CountIn DEF OneField
  <2>3. 1 \in Live(fs) <=> program[Len(program)].dtor # "none"
    BY <1>1 DEF Live, OneField
  <2> QED BY <1>3, <1>5, <2>1, <2>2, <2>3
<1>8. d \in Seq(Seq(Statement))
  <2>1. d = [k \in 1 .. 1 |-> d[k]]
    BY <1>1, <1>4 DEF DtorCalls, OneField
  <2>2. d \in [1 .. 1 -> Seq(Statement)]
    BY <1>6, <1>7, <2>1
  <2> QED BY <2>2, FunctionSeq
<1>9. d = <<r>>
  <2>1. <<r>> \in Seq(Seq(Statement)) /\ Len(<<r>>) = 1 /\ <<r>>[1] = r
    BY <1>6, OneInSeq
  <2>2. \A i \in 1 .. Len(d) : d[i] = <<r>>[i]
    <3>1. \A i \in 1 .. Len(d) : i = 1
      BY <1>7
    <3> QED BY <1>7, <2>1, <3>1
  <2> QED BY <1>7, <1>8, <2>1, <2>2, SeqEqual
<1>10. FlattenSeq(d) = r
  BY <1>6, <1>9, FlattenOne
<1>11. End(o) = r
  <2>1. (IF o.storage \in {"value", "array", "typedef", "typedef pointer"} /\ program[o.class].dtor # "none"
             THEN Elements(o.storage) ELSE 0) = n
    BY <1>3 DEF Count, Owns
  <2>2. LocalDtors(o.storage, o.class) = r
    BY <1>5, <2>1 DEF LocalDtors, DtorRow, NoClass
  <2>3. o.storage \in AllShapes /\ o.storage \notin {"new", "new array"} /\ o.storage # "global"
    BY DEF AllShapes
  <2> QED BY <2>2, <2>3 DEF End
<1>12. GoneDoes(FlattenSeq(d), Inside(<<>>, Reverse(Twice(GridOf(GoneOf, fs, 0)))))
  <2>1. 0 \in Nat
    OBVIOUS
  <2> QED BY <1>2, <1>4, <2>1, EmptyAddress, DtorCallsDo
<1>13. Inside(<<>>, Reverse(Twice(GridOf(GoneOf, fs, 0)))) = DtorsDue(o.storage)
  <2>1. PICK g \in Seq(Place) : g = WholeOf(GoneOf, o.storage) /\ g = Twice(GridOf(GoneOf, fs, 0))
    BY <1>1, DuesAre DEF WholeOf
  <2>2. DtorsDue(o.storage) = Reverse(g)
    BY <2>1, DuesAre DEF DtorsDue
  <2>3. Inside(<<>>, Reverse(g)) = Reverse(g)
    BY ReverseIn, InsideNothing
  <2> QED BY <2>1, <2>2, <2>3
<1>14. r \in Seq(DtorOnly)
  <2>1. ASSUME NEW j \in 1 .. n PROVE Perform("dtor", Part(<<>>, 0, 1, n + 1 - j), Len(program)) \in DtorOnly
    <3>1. n + 1 - j \in Nat /\ 0 \in Nat /\ 1 \in Nat /\ Len(program) \in Nat
      BY <1>0
    <3>2. Part(<<>>, 0, 1, n + 1 - j) \in Address
      BY <3>1, PartIs
    <3> QED BY <3>1, <3>2 DEF Perform, DtorOnly, Statement, Ops
  <2>2. r \in [1 .. n -> DtorOnly]
    BY <1>5, <2>1 DEF DtorRow
  <2> QED BY <2>2, FunctionSeq
<1>15. \A k \in 1 .. Len(r) : r[k].op \notin {"ctor body", "delete", "use"}
  <2>1. \A k \in 1 .. Len(r) : r[k] \in DtorOnly
    BY <1>14, ElementOfSeq
  <2> QED BY <2>1 DEF DtorOnly
<1>16. \A vp : AllReady(FinalSets(o.storage), FinalSets(o.storage), r, vp)
  BY <1>15, ReadyOfItself
<1> QED BY <1>10, <1>11, <1>12, <1>13, <1>16 DEF EndDoes

LEMMA GlobalEnd ==
  ASSUME NEW o, o.storage = "global"
  PROVE  EndDoes(o)
<1>1. End(o) = <<>>
  BY DEF End, AllShapes
<1>2. \A vp : AllReady(FinalSets(o.storage), FinalSets(o.storage), <<>>, vp)
  BY DEF AllReady
<1> QED BY <1>1, <1>2, EmptySeq, EachEmpty DEF EndDoes, GoneDoes, DtorsDue

LEMMA NewEnd ==
  ASSUME Classes(program), Len(program) # 0, NEW o, o.class = Len(program), o.storage = "new",
         NEW b \in 1 .. Len(program), o.static = b, b \in Ancestors[Len(program)],
         b = Len(program) \/ program[b].virtualDtor
  PROVE  EndDoes(o)
<1>0. PICK c \in 1 .. Len(program) : c = Len(program)
  <2>1. Len(program) \in 1 .. Len(program)
    BY ClassIs
  <2> QED BY <2>1
<1>1. PICK s : s = Perform("delete", TheObject, b)
  OBVIOUS
<1>2. End(o) = <<s>>
  BY <1>1 DEF End, AllShapes
<1>3. Count(o.storage) = 1
  BY DEF Count, Owns, Elements
<1>4. SetOf[c] \in Seq(Place) /\ GoneOf[c] \in Seq(Place)
  BY OfsFit
<1>5. TheObject \in Address /\ WholeOf(GoneOf, "new") = Inside(TheObject, GoneOf[c])
      /\ FinalSets("new") = Inside(TheObject, SetOf[c])
  BY <1>0, <1>3, <1>4, OneWhole DEF FinalSets
<1>6. s \in Statement /\ s.op = "delete" /\ s.class = b /\ s.at = TheObject
  <2>1. b \in Nat
    BY ClassIs
  <2> QED BY <1>1, <1>5, <2>1 DEF Perform, Statement, Ops
<1>7. s \in DtorSt
  BY <1>6 DEF DtorSt
<1>8. Each(GoneMap, <<s>>) = DtorsDue("new")
  <2>1. IsMap(GoneMap, Statement, Seq(Place))
    BY MapsAre
  <2>2. Each(GoneMap, <<s>>) = GoneMap[s]
    BY ONLY <1>6, <2>1, EachOne
  <2>3. "delete" \in Ops
    BY DEF Ops
  <2>4. GoneMap[s] = Inside(TheObject, Reverse(GoneOf[c]))
    BY <1>0, <1>1, <1>5, <2>3, MapsAt, ZenonT(100)
  <2>5. Reverse(Inside(TheObject, GoneOf[c])) = Inside(TheObject, Reverse(GoneOf[c]))
    BY <1>4, <1>5, ReverseInside
  <2>6. DtorsDue("new") = Reverse(WholeOf(GoneOf, "new"))
    BY DuesAre DEF DtorsDue
  <2> QED BY <1>5, <2>2, <2>4, <2>5, <2>6
<1>9. ASSUME NEW a, NEW v, Need(FinalSets("new"), s, a, v)
      PROVE  Leaves(FinalSets("new"), a, v)
  <2>1. program[b].virtualDtor /\ a = TheObject /\ v = c
    BY <1>0, <1>6, <1>9 DEF Need
  <2>2. program[b].vtable
    BY <2>1, ClassIs DEF Tables
  <2>3. program[c].vtable
    <3>1. AncFit(program, Ancestors, c)
      BY AncestorsAre, AncestorsFit
    <3> QED BY <1>0, <2>2, <3>1 DEF AncFit
  <2>4. Leaves(SetOf[c], <<>>, c)
    BY <2>3, SetsAreSo, SetsItself DEF SetOf
  <2>5. Leaves(Inside(TheObject, SetOf[c]), TheObject \o <<>>, c)
    BY <1>4, <1>5, <2>4, EmptyAddress, LeavesInside
  <2>6. TheObject \o <<>> = TheObject
    BY <1>5, ConcatEmptySeq DEF Address
  <2> QED BY <1>5, <2>1, <2>5, <2>6
<1>10. ASSUME NEW vp PROVE AllReady(FinalSets("new"), FinalSets("new"), <<s>>, vp)
  <2>1. \A a, v : Need(FinalSets("new"), s, a, v) => Settled(FinalSets("new"), vp, a, v)
    BY <1>9 DEF Settled
  <2>2. FinalSets("new") \in Seq(Place)
    BY DuesAre
  <2> QED BY <1>6, <2>1, <2>2, ReadyOne
<1>11. <<s>> \in Seq(DtorSt) /\ <<s>> \in Seq(Statement)
  BY <1>6, <1>7, OneInSeq
<1> QED BY <1>2, <1>8, <1>10, <1>11 DEF EndDoes, GoneDoes

(* First constructors, then the use, then destructors.                     *)
Phased(cd, gn) ==
  \E u \in Seq(CtorSt), m \in Seq(UseSt), d \in Seq(DtorSt) :
    cd = (u \o m) \o d /\ (gn = <<>> \/ (u = <<>> /\ m = <<>>))

Progress(st, cd, bl, gn, vp) ==
  /\ cd \in Seq(Statement) /\ bl \in Seq(Place) /\ gn \in Seq(Place)
  /\ bl \o Each(BuildMap, cd) = CtorsDue(st)
  /\ gn \o Each(GoneMap, cd) = DtorsDue(st)
  /\ Phased(cd, gn)
  /\ AllReady(FinalSets(st), <<>>, cd, vp)

LEMMA UseIn ==
  ASSUME NEW at \in Address, NEW c \in Nat
  PROVE  /\ Perform("use", at, c) \in UseSt /\ Perform("use", at, c) \in Statement
         /\ Perform("use", at, c).op = "use"
BY DEF Perform, UseSt, Statement, Ops

LEMMA EndHolds ==
  ASSUME Classes(program), Len(program) # 0, NEW o, o.class = Len(program), o.storage \in Storages,
         o.static \in DOMAIN program, LegalObject(o)
  PROVE  EndDoes(o)
<1>1. CASE o.storage \in {"value", "array", "typedef", "pointer"}
  BY <1>1, LocalEnd
<1>2. CASE o.storage = "global"
  BY <1>2, GlobalEnd
<1>3. CASE o.storage = "new"
  <2>1. PICK b : b = o.static
    OBVIOUS
  <2>2. b \in 1 .. Len(program)
    BY <2>1 DEF Classes
  <2>3. b \in Ancestors[Len(program)] /\ (b = Len(program) \/ program[b].virtualDtor)
    BY <1>3, <2>1 DEF LegalObject
  <2> QED BY <1>3, <2>1, <2>2, <2>3, NewEnd
<1> QED BY <1>1, <1>2, <1>3 DEF Storages

LEMMA MainProgress ==
  ASSUME Classes(program), Len(program) # 0, NEW o, o.class = Len(program), o.storage \in Storages,
         o.static \in DOMAIN program, LegalObject(o)
  PROVE  Progress(o.storage, MainCode(o), <<>>, <<>>, <<>>)
<1>1. PICK st : st = o.storage
  OBVIOUS
<1>2. PartDoes(Begin(o), CtorsDue(st), FinalSets(st)) /\ Begin(o) \in Seq(InitSt)
  BY <1>1, BeginDoes, BeginQuiet
<1>3. EndDoes(o)
  BY EndHolds
<1>4. PICK x : x = Perform("use", TheObject, o.class)
  OBVIOUS
<1>5. x \in UseSt /\ x \in Statement /\ x.op = "use"
  <2>1. TheObject \in Address
    <3>1. 1 \in Nat /\ NoClass \in Nat
      BY DEF NoClass
    <3> QED BY <3>1, PartIs DEF TheObject
  <2>2. o.class \in Nat
    BY DEF Classes
  <2> QED BY <1>4, <2>1, <2>2, UseIn
<1>6. PICK u \in Seq(CtorSt), m \in Seq(UseSt), d \in Seq(DtorSt) : u = Begin(o) /\ m = <<x>> /\ d = End(o)
  <2>1. <<x>> \in Seq(UseSt)
    BY <1>5, OneInSeq
  <2>2. Begin(o) \in Seq(CtorSt) /\ End(o) \in Seq(DtorSt)
    BY <1>2, <1>3 DEF PartDoes, EndDoes, GoneDoes
  <2> QED BY <2>1, <2>2
<1>7. MainCode(o) = (u \o m) \o d
  BY <1>4, <1>6, MainIs
<1>8. u \in Seq(Statement) /\ m \in Seq(Statement) /\ d \in Seq(Statement) /\ u \o m \in Seq(Statement)
      /\ (u \o m) \o d \in Seq(Statement)
  <2>1. u \in Seq(Statement) /\ m \in Seq(Statement) /\ d \in Seq(Statement)
    BY SilentKinds
  <2>2. u \o m \in Seq(Statement)
    BY <2>1, ConcatProperties
  <2>3. (u \o m) \o d \in Seq(Statement)
    BY <2>1, <2>2, ConcatProperties
  <2> QED BY <2>1, <2>2, <2>3
<1>9. /\ Each(BuildMap, u) = CtorsDue(st) /\ Each(BuildMap, m) = <<>> /\ Each(BuildMap, d) = <<>>
      /\ Each(SetMap, u) = FinalSets(st) /\ Each(SetMap, m) = <<>>
      /\ Each(GoneMap, u) = <<>> /\ Each(GoneMap, m) = <<>> /\ Each(GoneMap, d) = DtorsDue(st)
  BY <1>1, <1>2, <1>3, <1>6, SilentKinds DEF PartDoes, EndDoes, GoneDoes
<1>10. CtorsDue(st) \in Seq(Place) /\ FinalSets(st) \in Seq(Place) /\ DtorsDue(st) \in Seq(Place)
  <2>1. CtorsDue(st) \in Seq(Place) /\ FinalSets(st) \in Seq(Place) /\ OfClasses(WholeParts(st), UserDtors) \in Seq(Place)
    BY DuesAre
  <2>2. Reverse(OfClasses(WholeParts(st), UserDtors)) \in Seq(Place) /\ <<>> \in Seq(Place)
    BY <2>1, ReverseIn, EmptySeq
  <2> QED BY <2>1, <2>2 DEF DtorsDue
<1>11. Each(BuildMap, (u \o m) \o d) = (Each(BuildMap, u) \o Each(BuildMap, m)) \o Each(BuildMap, d)
  <2>1. IsMap(BuildMap, Statement, Seq(Place))
    BY MapsAre
  <2>2. Each(BuildMap, u \o m) = Each(BuildMap, u) \o Each(BuildMap, m)
    BY ONLY <1>8, <2>1, EachConcat
  <2>3. PICK y \in Seq(Statement) : y = u \o m
    BY <1>8
  <2>4. Each(BuildMap, y \o d) = Each(BuildMap, y) \o Each(BuildMap, d)
    BY ONLY <1>8, <2>1, y \in Seq(Statement), EachConcat
  <2> QED BY <2>2, <2>3, <2>4
<1>12. Each(GoneMap, (u \o m) \o d) = (Each(GoneMap, u) \o Each(GoneMap, m)) \o Each(GoneMap, d)
  <2>1. IsMap(GoneMap, Statement, Seq(Place))
    BY MapsAre
  <2>2. Each(GoneMap, u \o m) = Each(GoneMap, u) \o Each(GoneMap, m)
    BY ONLY <1>8, <2>1, EachConcat
  <2>3. PICK y \in Seq(Statement) : y = u \o m
    BY <1>8
  <2>4. Each(GoneMap, y \o d) = Each(GoneMap, y) \o Each(GoneMap, d)
    BY ONLY <1>8, <2>1, y \in Seq(Statement), EachConcat
  <2> QED BY <2>2, <2>3, <2>4
<1>13. <<>> \o Each(BuildMap, (u \o m) \o d) = CtorsDue(st)
  BY <1>9, <1>10, <1>11, ConcatEmptySeq
<1>14. <<>> \o Each(GoneMap, (u \o m) \o d) = DtorsDue(st)
  <2>1. <<>> \o <<>> = <<>>
    BY EmptySeq, ConcatEmptySeq
  <2>2. <<>> \o DtorsDue(st) = DtorsDue(st)
    BY <1>10, ConcatEmptySeq
  <2> QED BY <1>9, <1>12, <2>1, <2>2
<1>15. Phased((u \o m) \o d, <<>>)
  BY DEF Phased
<1>16. AllReady(FinalSets(st), <<>>, (u \o m) \o d, <<>>)
  <2>1. PICK g \in Seq(Place) : g = FinalSets(st)
    BY <1>10
  <2>2. PICK y \in Seq(Statement) : y = u \o m
    BY <1>8
  <2>3. <<>> \in Seq(Place) /\ <<>> \o g = g /\ g \o <<>> = g
    BY EmptySeq, ConcatEmptySeq
  <2>4. AllReady(g, <<>>, u, <<>>)
    BY <1>2, <1>6, QuietReady
  <2>5. AllReady(g, g, m, <<>>)
    <3>1. \A a, v : Need(g, x, a, v) => Settled(g, <<>>, a, v)
      BY <1>5 DEF Need, Settled
    <3> QED BY <1>5, <1>6, <3>1, ReadyOne
  <2>6. AllReady(g, g, d, <<>>)
    BY <1>1, <1>3, <1>6, <2>1 DEF EndDoes
  <2>7. ReadyTwo(g, <<>>, u, m, <<>>)
    BY <1>8, <2>3, ReadyConcat
  <2>8. ReadyTwo(g, <<>>, y, d, <<>>)
    BY <1>8, <2>3, ReadyConcat
  <2>9. Each(SetMap, y) = g
    <3>1. IsMap(SetMap, Statement, Seq(Place))
      BY MapsAre
    <3>2. Each(SetMap, u \o m) = Each(SetMap, u) \o Each(SetMap, m)
      BY ONLY <1>8, <3>1, EachConcat
    <3> QED BY <1>9, <2>1, <2>2, <2>3, <3>2
  <2>10. AllReady(g, <<>>, y, <<>>)
    BY <1>9, <2>1, <2>2, <2>3, <2>4, <2>5, <2>7 DEF ReadyTwo
  <2>11. AllReady(g, <<>>, y \o d, <<>>)
    BY <2>3, <2>6, <2>8, <2>9, <2>10 DEF ReadyTwo
  <2> QED BY <2>1, <2>2, <2>11
<1>17. <<>> \in Seq(Place)
  BY EmptySeq
<1> QED BY <1>1, <1>7, <1>8, <1>13, <1>14, <1>15, <1>16, <1>17 DEF Progress

-----------------------------------------------------------------------------
(* The first statement, and the rest.                                      *)
HeadCtor(h, t, gn) == h \in CtorSt /\ gn = <<>> /\ \A w \in Seq(CtorSt) : Phased(w \o t, gn)
HeadUse(h, t, gn) == h \in UseSt /\ gn = <<>> /\ Phased(t, gn) /\ Each(BuildMap, t) = <<>>
HeadDtor(h, t) == h \in DtorSt /\ Each(BuildMap, t) = <<>> /\ \A w \in Seq(DtorSt) : \A gx : Phased(w \o t, gx)

LEMMA Splits ==
  ASSUME NEW T, NEW s \in Seq(T), s # <<>>
  PROVE  s = <<Head(s)>> \o Tail(s) /\ Head(s) \in T /\ Tail(s) \in Seq(T)
OBVIOUS

LEMMA HeadOf ==
  ASSUME NEW h, NEW T, NEW s \in Seq(T)
  PROVE  Head(<<h>> \o s) = h /\ Tail(<<h>> \o s) = s
OBVIOUS

LEMMA HeadKind ==
  ASSUME Classes(program), NEW cd \in Seq(Statement), NEW gn, Phased(cd, gn), cd # <<>>
  PROVE  HeadCtor(Head(cd), Tail(cd), gn) \/ HeadUse(Head(cd), Tail(cd), gn) \/ HeadDtor(Head(cd), Tail(cd))
<1>1. PICK u \in Seq(CtorSt), m \in Seq(UseSt), d \in Seq(DtorSt) :
        cd = (u \o m) \o d /\ (gn = <<>> \/ (u = <<>> /\ m = <<>>))
  BY DEF Phased
<1>2. u \in Seq(Statement) /\ m \in Seq(Statement) /\ d \in Seq(Statement)
  BY SilentKinds
<1>3. CtorSt \subseteq Statement /\ UseSt \subseteq Statement /\ DtorSt \subseteq Statement
  BY DEF CtorSt, UseSt, DtorSt
<1>4. \A s \in Seq(Statement) : <<>> \o s = s /\ s \o <<>> = s
  BY ConcatEmptySeq
<1>5. \A s \in Seq(Statement), t \in Seq(Statement) : s \o t \in Seq(Statement)
  BY ConcatProperties
<1>6. CASE u # <<>>
  <2>1. PICK h \in CtorSt, r \in Seq(CtorSt) : u = <<h>> \o r
    BY <1>6, Splits
  <2>2. h \in Statement /\ r \in Seq(Statement) /\ <<h>> \in Seq(Statement)
    BY <1>3, <2>1, SilentKinds, OneInSeq
  <2>3. PICK t \in Seq(Statement) : t = (r \o m) \o d
    BY <1>2, <1>5, <2>2
  <2>4. cd = <<h>> \o t
    <3>1. Assoc(<<h>>, r, m)
      BY <1>2, <2>2, ConcatAssoc
    <3>2. PICK y \in Seq(Statement) : y = r \o m
      BY <1>2, <1>5, <2>2
    <3>3. Assoc(<<h>>, y, d)
      BY <1>2, <2>2, ConcatAssoc
    <3> QED BY ONLY <1>1, <2>1, <2>3, <3>1, <3>2, <3>3 DEF Assoc
  <2>5. Head(cd) = h /\ Tail(cd) = t
    BY <2>4, HeadOf
  <2>6. ASSUME NEW w \in Seq(CtorSt) PROVE Phased(w \o t, gn)
    <3>1. w \o r \in Seq(CtorSt) /\ w \in Seq(Statement)
      BY ConcatProperties, SilentKinds
    <3>2. Assoc(w, r, m)
      BY <1>2, <2>2, <3>1, ConcatAssoc
    <3>3. PICK y \in Seq(Statement) : y = r \o m
      BY <1>2, <1>5, <2>2
    <3>4. Assoc(w, y, d)
      BY <1>2, <3>1, ConcatAssoc
    <3>5. w \o t = ((w \o r) \o m) \o d
      BY ONLY <2>3, <3>2, <3>3, <3>4 DEF Assoc
    <3>6. gn = <<>>
      BY <1>1, <1>6
    <3> QED BY <3>1, <3>5, <3>6 DEF Phased
  <2> QED BY <1>1, <1>6, <2>5, <2>6 DEF HeadCtor
<1>7. CASE u = <<>> /\ m # <<>>
  <2>1. PICK h \in UseSt, r \in Seq(UseSt) : m = <<h>> \o r
    BY <1>7, Splits
  <2>2. h \in Statement /\ r \in Seq(Statement) /\ <<h>> \in Seq(Statement)
    BY <1>3, <2>1, SilentKinds, OneInSeq
  <2>3. PICK t \in Seq(Statement) : t = r \o d
    BY <1>2, <1>5, <2>2
  <2>4. cd = <<h>> \o t
    <3>1. Assoc(<<h>>, r, d)
      BY <1>2, <2>2, ConcatAssoc
    <3>2. cd = m \o d
      BY <1>1, <1>2, <1>4, <1>7
    <3> QED BY ONLY <2>1, <2>3, <3>1, <3>2 DEF Assoc
  <2>5. Head(cd) = h /\ Tail(cd) = t
    BY <2>4, HeadOf
  <2>6. gn = <<>>
    BY <1>1, <1>7
  <2>7. Phased(t, gn)
    <3>1. <<>> \in Seq(CtorSt)
      BY EmptySeq
    <3>2. t = (<<>> \o r) \o d
      BY <1>4, <2>2, <2>3
    <3> QED BY <2>6, <3>1, <3>2 DEF Phased
  <2>8. Each(BuildMap, t) = <<>>
    <3>1. IsMap(BuildMap, Statement, Seq(Place))
      BY MapsAre
    <3>2. Each(BuildMap, r \o d) = Each(BuildMap, r) \o Each(BuildMap, d)
      <4>1. PICK x \in Seq(Statement), y \in Seq(Statement) : x = r /\ y = d
        BY <1>2, <2>2
      <4>2. Each(BuildMap, x \o y) = Each(BuildMap, x) \o Each(BuildMap, y)
        BY ONLY <3>1, x \in Seq(Statement), y \in Seq(Statement), EachConcat, SMTT(40)
      <4> QED BY <4>1, <4>2
    <3>3. Each(BuildMap, r) = <<>> /\ Each(BuildMap, d) = <<>>
      BY SilentKinds
    <3> QED BY <2>3, <3>2, <3>3, EmptySeq, ConcatEmptySeq
  <2> QED BY <2>5, <2>6, <2>7, <2>8 DEF HeadUse
<1>8. CASE u = <<>> /\ m = <<>>
  <2>1. cd = d
    BY <1>1, <1>2, <1>4, <1>8
  <2>2. PICK h \in DtorSt, t \in Seq(DtorSt) : Head(d) = h /\ Tail(d) = t
    BY <2>1, Splits
  <2>3. Each(BuildMap, t) = <<>>
    BY SilentKinds
  <2>4. ASSUME NEW w \in Seq(DtorSt), NEW gx PROVE Phased(w \o t, gx)
    <3>1. PICK y \in Seq(DtorSt) : y = w \o t
      BY ConcatProperties
    <3>2. <<>> \in Seq(CtorSt) /\ <<>> \in Seq(UseSt)
      BY EmptySeq
    <3>3. y = (<<>> \o <<>>) \o y
      <4>1. y \in Seq(Statement) /\ <<>> \in Seq(Statement)
        BY SilentKinds, EmptySeq
      <4> QED BY <1>4, <4>1
    <3> QED BY <3>1, <3>2, <3>3 DEF Phased
  <2> QED BY <2>1, <2>2, <2>3, <2>4 DEF HeadDtor
<1> QED BY <1>6, <1>7, <1>8

Opened(st, bl, gn, vp, h, t) ==
  /\ h \in Statement /\ t \in Seq(Statement) /\ bl \in Seq(Place) /\ gn \in Seq(Place)
  /\ BuildMap[h] \in Seq(Place) /\ GoneMap[h] \in Seq(Place) /\ SetMap[h] \in Seq(Place)
  /\ Each(BuildMap, t) \in Seq(Place) /\ Each(GoneMap, t) \in Seq(Place)
  /\ bl \o (BuildMap[h] \o Each(BuildMap, t)) = CtorsDue(st)
  /\ gn \o (GoneMap[h] \o Each(GoneMap, t)) = DtorsDue(st)
  /\ \A a, v : Need(FinalSets(st), h, a, v) => Settled(<<>>, vp, a, v)
  /\ AllReady(FinalSets(st), SetMap[h], t, vp)

LEMMA Opens ==
  ASSUME Classes(program), NEW st, NEW cd, NEW bl, NEW gn, NEW vp, Progress(st, cd, bl, gn, vp), cd # <<>>
  PROVE  Opened(st, bl, gn, vp, Head(cd), Tail(cd))
<1>1. cd \in Seq(Statement) /\ bl \in Seq(Place) /\ gn \in Seq(Place)
      /\ bl \o Each(BuildMap, cd) = CtorsDue(st) /\ gn \o Each(GoneMap, cd) = DtorsDue(st)
      /\ AllReady(FinalSets(st), <<>>, cd, vp)
  BY DEF Progress
<1>2. PICK h \in Statement, t \in Seq(Statement) : h = Head(cd) /\ t = Tail(cd) /\ cd = <<h>> \o t
  <2>1. cd = <<Head(cd)>> \o Tail(cd) /\ Head(cd) \in Statement /\ Tail(cd) \in Seq(Statement)
    <3>1. cd \in Seq(Statement)
      BY <1>1
    <3> QED BY ONLY <3>1, cd # <<>>, Splits
  <2> QED BY <2>1
<1>3. PICK s \in Seq(Statement) : s = <<h>>
  BY OneInSeq
<1>4. IsMap(BuildMap, Statement, Seq(Place)) /\ IsMap(GoneMap, Statement, Seq(Place)) /\ IsMap(SetMap, Statement, Seq(Place))
  BY MapsAre
<1>5. BuildMap[h] \in Seq(Place) /\ GoneMap[h] \in Seq(Place) /\ SetMap[h] \in Seq(Place)
  BY <1>4 DEF IsMap
<1>6. Each(BuildMap, s) = BuildMap[h] /\ Each(GoneMap, s) = GoneMap[h] /\ Each(SetMap, s) = SetMap[h]
  <2>1. Each(BuildMap, <<h>>) = BuildMap[h]
    BY ONLY <1>4, h \in Statement, EachOne
  <2>2. Each(GoneMap, <<h>>) = GoneMap[h]
    BY ONLY <1>4, h \in Statement, EachOne
  <2>3. Each(SetMap, <<h>>) = SetMap[h]
    BY ONLY <1>4, h \in Statement, EachOne
  <2> QED BY <1>3, <2>1, <2>2, <2>3
<1>7. Each(BuildMap, cd) = BuildMap[h] \o Each(BuildMap, t)
  <2>1. Each(BuildMap, s \o t) = Each(BuildMap, s) \o Each(BuildMap, t)
    BY ONLY <1>4, s \in Seq(Statement), t \in Seq(Statement), EachConcat
  <2> QED BY <1>2, <1>3, <1>6, <2>1
<1>8. Each(GoneMap, cd) = GoneMap[h] \o Each(GoneMap, t)
  <2>1. Each(GoneMap, s \o t) = Each(GoneMap, s) \o Each(GoneMap, t)
    BY ONLY <1>4, s \in Seq(Statement), t \in Seq(Statement), EachConcat
  <2> QED BY <1>2, <1>3, <1>6, <2>1
<1>9. Each(BuildMap, t) \in Seq(Place) /\ Each(GoneMap, t) \in Seq(Place)
  <2>1. Each(BuildMap, t) \in Seq(Place)
    BY ONLY <1>4, t \in Seq(Statement), EachIn
  <2>2. Each(GoneMap, t) \in Seq(Place)
    BY ONLY <1>4, t \in Seq(Statement), EachIn
  <2> QED BY <2>1, <2>2
<1>10. AllReady(FinalSets(st), <<>>, s, vp) /\ AllReady(FinalSets(st), SetMap[h], t, vp)
  <2>1. <<>> \in Seq(Place) /\ <<>> \o SetMap[h] = SetMap[h]
    BY <1>5, EmptySeq, ConcatEmptySeq
  <2>2. ReadyTwo(FinalSets(st), <<>>, s, t, vp)
    BY <2>1, ReadyConcat
  <2> QED BY <1>1, <1>2, <1>3, <1>6, <2>1, <2>2 DEF ReadyTwo
<1>11. \A a, v : Need(FinalSets(st), h, a, v) => Settled(<<>>, vp, a, v)
  <2>1. <<>> \in Seq(Place)
    BY EmptySeq
  <2> QED BY <1>3, <1>10, <2>1, ReadyOne
<1> QED BY <1>1, <1>2, <1>5, <1>7, <1>8, <1>9, <1>10, <1>11 DEF Opened

(* The first statement gives way to w.                                     *)
ReadyNext(st, w, t, vp) == AllReady(FinalSets(st), <<>>, w \o t, vp)

LEMMA ReadyKept ==
  ASSUME Classes(program), NEW st, NEW bl, NEW gn, NEW vp, NEW h, NEW t, Opened(st, bl, gn, vp, h, t),
         NEW w \in Seq(Statement), AllReady(FinalSets(st), <<>>, w, vp), Each(SetMap, w) = SetMap[h]
  PROVE  ReadyNext(st, w, t, vp)
<1>1. t \in Seq(Statement) /\ SetMap[h] \in Seq(Place) /\ AllReady(FinalSets(st), SetMap[h], t, vp)
  BY DEF Opened
<1>2. <<>> \in Seq(Place) /\ <<>> \o SetMap[h] = SetMap[h]
  BY <1>1, EmptySeq, ConcatEmptySeq
<1>3. ReadyTwo(FinalSets(st), <<>>, w, t, vp)
  BY <1>1, <1>2, ReadyConcat
<1> QED BY <1>1, <1>2, <1>3 DEF ReadyTwo, ReadyNext

Adds(h, w, x, y) ==
  /\ w \in Seq(Statement) /\ x \in Seq(Place) /\ y \in Seq(Place)
  /\ x \o Each(BuildMap, w) = BuildMap[h] /\ y \o Each(GoneMap, w) = GoneMap[h]

LEMMA Replaced ==
  ASSUME Classes(program), NEW st, NEW bl, NEW gn, NEW vp, NEW h, NEW t, Opened(st, bl, gn, vp, h, t),
         NEW w, NEW x, NEW y, Adds(h, w, x, y), NEW vn, ReadyNext(st, w, t, vn), Phased(w \o t, gn \o y)
  PROVE  Progress(st, w \o t, bl \o x, gn \o y, vn)
<1>1. /\ h \in Statement /\ t \in Seq(Statement) /\ bl \in Seq(Place) /\ gn \in Seq(Place)
      /\ bl \o (BuildMap[h] \o Each(BuildMap, t)) = CtorsDue(st)
      /\ gn \o (GoneMap[h] \o Each(GoneMap, t)) = DtorsDue(st)
  BY DEF Opened
<1>2. /\ w \in Seq(Statement) /\ x \in Seq(Place) /\ y \in Seq(Place)
      /\ x \o Each(BuildMap, w) = BuildMap[h] /\ y \o Each(GoneMap, w) = GoneMap[h]
  BY DEF Adds
<1>3. IsMap(BuildMap, Statement, Seq(Place)) /\ IsMap(GoneMap, Statement, Seq(Place))
  BY MapsAre
<1>4. w \o t \in Seq(Statement) /\ bl \o x \in Seq(Place) /\ gn \o y \in Seq(Place)
  BY <1>1, <1>2, ConcatProperties
<1>5. (bl \o x) \o Each(BuildMap, w \o t) = CtorsDue(st)
  <2>1. PICK ew \in Seq(Place), et \in Seq(Place) : ew = Each(BuildMap, w) /\ et = Each(BuildMap, t)
    <3>1. Each(BuildMap, w) \in Seq(Place)
      BY ONLY <1>2, <1>3, EachIn
    <3>2. Each(BuildMap, t) \in Seq(Place)
      BY ONLY <1>1, <1>3, EachIn
    <3> QED BY <3>1, <3>2
  <2>2. Each(BuildMap, w \o t) = ew \o et
    <3>1. Each(BuildMap, w \o t) = Each(BuildMap, w) \o Each(BuildMap, t)
      BY ONLY <1>1, <1>2, <1>3, EachConcat, SMTT(40)
    <3> QED BY <2>1, <3>1
  <2>3. PICK r \in Seq(Place) : r = ew \o et
    BY ConcatProperties
  <2>4. Assoc(bl, x, r)
    BY <1>1, <1>2, ConcatAssoc
  <2>5. Assoc(x, ew, et)
    BY <1>2, ConcatAssoc
  <2> QED BY ONLY <1>1, <1>2, <2>1, <2>2, <2>3, <2>4, <2>5 DEF Assoc
<1>6. (gn \o y) \o Each(GoneMap, w \o t) = DtorsDue(st)
  <2>1. PICK ew \in Seq(Place), et \in Seq(Place) : ew = Each(GoneMap, w) /\ et = Each(GoneMap, t)
    <3>1. Each(GoneMap, w) \in Seq(Place)
      BY ONLY <1>2, <1>3, EachIn
    <3>2. Each(GoneMap, t) \in Seq(Place)
      BY ONLY <1>1, <1>3, EachIn
    <3> QED BY <3>1, <3>2
  <2>2. Each(GoneMap, w \o t) = ew \o et
    <3>1. Each(GoneMap, w \o t) = Each(GoneMap, w) \o Each(GoneMap, t)
      BY ONLY <1>1, <1>2, <1>3, EachConcat, SMTT(40)
    <3> QED BY <2>1, <3>1
  <2>3. PICK r \in Seq(Place) : r = ew \o et
    BY ConcatProperties
  <2>4. Assoc(gn, y, r)
    BY <1>1, <1>2, ConcatAssoc
  <2>5. Assoc(y, ew, et)
    BY <1>2, ConcatAssoc
  <2> QED BY ONLY <1>1, <1>2, <2>1, <2>2, <2>3, <2>4, <2>5 DEF Assoc
<1> QED BY <1>4, <1>5, <1>6 DEF Progress, ReadyNext

LEMMA StatementIs ==
  ASSUME NEW h \in Statement
  PROVE  h = Perform(h.op, h.at, h.class) /\ h.op \in Ops /\ h.at \in Address /\ h.class \in Nat
BY DEF Perform, Statement

(* What the maps make of it.                                               *)
MapsOf(h, b, e, g) == BuildMap[h] = b /\ SetMap[h] = e /\ GoneMap[h] = g

LEMMA MapsOfHead ==
  ASSUME Classes(program), NEW h \in Statement, h.class \in 1 .. Len(program)
  PROVE  /\ h.op = "ctor" => MapsOf(h, Inside(h.at, BuildOf[h.class]), Inside(h.at, SetOf[h.class]), <<>>)
         /\ h.op = "ctor body" => MapsOf(h, IF h.class \in UserCtors THEN <<<<h.at, h.class>>>> ELSE <<>>, <<>>, <<>>)
         /\ h.op = "vtable" => MapsOf(h, <<>>, <<<<h.at, h.class>>>>, <<>>)
         /\ h.op = "dtor" => MapsOf(h, <<>>, <<>>, Inside(h.at, Reverse(GoneOf[h.class])))
         /\ h.op = "dtor body" => MapsOf(h, <<>>, <<>>, IF h.class \in UserDtors THEN <<<<h.at, h.class>>>> ELSE <<>>)
         /\ h.op = "delete" => MapsOf(h, <<>>, <<>>, Inside(h.at, Reverse(GoneOf[Len(program)])))
<1>1. h = Perform(h.op, h.at, h.class) /\ h.op \in Ops /\ h.at \in Address
  BY StatementIs
<1>2. PICK op \in Ops, at \in Address, c \in 1 .. Len(program) : op = h.op /\ at = h.at /\ c = h.class /\ h = Perform(op, at, c)
  BY <1>1
<1>3. /\ BuildMap[h] =
              IF op = "ctor" THEN Inside(at, BuildOf[c])
              ELSE IF op = "ctor body" /\ c \in UserCtors THEN <<<<at, c>>>> ELSE <<>>
      /\ SetMap[h] = IF op = "ctor" THEN Inside(at, SetOf[c]) ELSE IF op = "vtable" THEN <<<<at, c>>>> ELSE <<>>
      /\ GoneMap[h] =
              IF op = "dtor" THEN Inside(at, Reverse(GoneOf[c]))
              ELSE IF op = "dtor body" /\ c \in UserDtors THEN <<<<at, c>>>>
              ELSE IF op = "delete" THEN Inside(at, Reverse(GoneOf[Len(program)])) ELSE <<>>
  <2>1. /\ BuildMap[Perform(op, at, c)] =
              IF op = "ctor" THEN Inside(at, BuildOf[c])
              ELSE IF op = "ctor body" /\ c \in UserCtors THEN <<<<at, c>>>> ELSE <<>>
        /\ SetMap[Perform(op, at, c)] = IF op = "ctor" THEN Inside(at, SetOf[c]) ELSE IF op = "vtable" THEN <<<<at, c>>>> ELSE <<>>
        /\ GoneMap[Perform(op, at, c)] =
              IF op = "dtor" THEN Inside(at, Reverse(GoneOf[c]))
              ELSE IF op = "dtor body" /\ c \in UserDtors THEN <<<<at, c>>>>
              ELSE IF op = "delete" THEN Inside(at, Reverse(GoneOf[Len(program)])) ELSE <<>>
    BY MapsAt
  <2> QED BY <1>2, <2>1
<1> QED BY <1>2, <1>3 DEF MapsOf

(* The first statement is done, and nothing takes its place.               *)
LEMMA StaysReady ==
  ASSUME Classes(program), NEW st, NEW bl, NEW gn, NEW vp, NEW h, NEW t, Opened(st, bl, gn, vp, h, t), SetMap[h] = <<>>
  PROVE  ReadyNext(st, <<>>, t, vp)
<1>1. <<>> \in Seq(Statement)
  BY EmptySeq
<1>2. Each(SetMap, <<>>) = SetMap[h]
  BY EachEmpty
<1>3. AllReady(FinalSets(st), <<>>, <<>>, vp)
  BY DEF AllReady
<1> QED BY <1>1, <1>2, <1>3, ReadyKept

LEMMA Dropped ==
  ASSUME Classes(program), NEW st, NEW bl, NEW gn, NEW vp, NEW h, NEW t, Opened(st, bl, gn, vp, h, t),
         NEW vn, ReadyNext(st, <<>>, t, vn), Phased(t, gn \o GoneMap[h])
  PROVE  Progress(st, t, bl \o BuildMap[h], gn \o GoneMap[h], vn)
<1>1. t \in Seq(Statement) /\ BuildMap[h] \in Seq(Place) /\ GoneMap[h] \in Seq(Place)
  BY DEF Opened
<1>2. PICK x \in Seq(Place), y \in Seq(Place) : x = BuildMap[h] /\ y = GoneMap[h]
  BY <1>1
<1>3. PICK w \in Seq(Statement) : w = <<>>
  BY EmptySeq
<1>4. w \o t = t
  BY <1>1, <1>3, ConcatEmptySeq
<1>5. x \o <<>> = x /\ y \o <<>> = y
  BY ConcatEmptySeq
<1>6. Adds(h, w, x, y)
  BY <1>2, <1>3, <1>5, EachEmpty DEF Adds
<1>7. ReadyNext(st, w, t, vn) /\ Phased(w \o t, gn \o y)
  BY <1>2, <1>3, <1>4
<1>8. Progress(st, w \o t, bl \o x, gn \o y, vn)
  BY <1>6, <1>7, Replaced
<1> QED BY <1>2, <1>4, <1>8

LEMMA AppendIs ==
  ASSUME NEW T, NEW s \in Seq(T), NEW x
  PROVE  Append(s, x) = s \o <<x>>
OBVIOUS

(* Nothing is added to what has run.                                       *)
Unchanging(bl, gn) == bl \o <<>> = bl /\ gn \o <<>> = gn

LEMMA NothingAdded ==
  ASSUME NEW st, NEW bl, NEW gn, NEW vp, NEW h, NEW t, Opened(st, bl, gn, vp, h, t)
  PROVE  Unchanging(bl, gn)
<1>1. bl \in Seq(Place) /\ gn \in Seq(Place)
  BY DEF Opened
<1> QED BY <1>1, ConcatEmptySeq DEF Unchanging

LEMMA CtorStep ==
  ASSUME Classes(program), NEW st, NEW bl, NEW gn, NEW vp, NEW h, NEW t, Opened(st, bl, gn, vp, h, t),
         HeadCtor(h, t, gn), h.op = "ctor"
  PROVE  Progress(st, CtorCode(h.at, h.class) \o t, bl, gn, vp)
<1>1. h \in Statement /\ h \in CtorSt /\ BuildMap[h] \in Seq(Place) /\ GoneMap[h] \in Seq(Place)
  BY DEF Opened, HeadCtor
<1>2. PICK at \in Address, c \in 1 .. Len(program) : at = h.at /\ c = h.class /\ program[c].ctor # "none"
  BY <1>1, StatementIs DEF CtorSt
<1>3. PICK w : w = CtorCode(at, c)
  OBVIOUS
<1>4. w \in Seq(CtorSt) /\ w \in Seq(Statement)
      /\ Each(BuildMap, w) = Inside(at, BuildOf[c]) /\ Each(SetMap, w) = Inside(at, SetOf[c])
  <2>1. CtorDoes(at, c)
    BY <1>2, CtorDoesSo
  <2> QED BY <1>3, <2>1 DEF CtorDoes, PartDoes
<1>5. Each(GoneMap, w) = <<>>
  BY <1>4, SilentKinds
<1>6. MapsOf(h, Inside(at, BuildOf[c]), Inside(at, SetOf[c]), <<>>)
  BY <1>1, <1>2, MapsOfHead
<1>7. Unchanging(bl, gn)
  BY NothingAdded
<1>8. Adds(h, w, <<>>, <<>>)
  <2>1. <<>> \o BuildMap[h] = BuildMap[h] /\ <<>> \o <<>> = <<>> /\ <<>> \in Seq(Place)
    BY <1>1, EmptySeq, ConcatEmptySeq
  <2> QED BY <1>4, <1>5, <1>6, <2>1 DEF Adds, MapsOf
<1>9. ReadyNext(st, w, t, vp)
  <2>1. AllReady(FinalSets(st), <<>>, w, vp)
    BY <1>2, <1>3, CtorReady
  <2>2. Each(SetMap, w) = SetMap[h]
    BY <1>4, <1>6 DEF MapsOf
  <2> QED BY <1>4, <2>1, <2>2, ReadyKept
<1>10. Phased(w \o t, gn \o <<>>)
  BY <1>4, <1>7 DEF HeadCtor, Unchanging
<1>11. Progress(st, w \o t, bl \o <<>>, gn \o <<>>, vp)
  BY <1>8, <1>9, <1>10, Replaced
<1> QED BY <1>2, <1>3, <1>7, <1>11 DEF Unchanging

LEMMA NextPhase ==
  ASSUME NEW st, NEW bl, NEW gn, NEW vp, NEW h, NEW t, Opened(st, bl, gn, vp, h, t), HeadCtor(h, t, gn)
  PROVE  Phased(t, gn)
<1>1. t \in Seq(Statement) /\ <<>> \in Seq(CtorSt)
  BY EmptySeq DEF Opened
<1>2. <<>> \o t = t
  BY <1>1, ConcatEmptySeq
<1> QED BY <1>1, <1>2 DEF HeadCtor

LEMMA CtorBodyStep ==
  ASSUME Classes(program), NEW st, NEW bl, NEW gn, NEW vp, NEW h, NEW t, Opened(st, bl, gn, vp, h, t),
         HeadCtor(h, t, gn), h.op = "ctor body"
  PROVE  Progress(st, t, IF program[h.class].ctor = "implicit" THEN bl ELSE Append(bl, <<h.at, h.class>>), gn, vp)
<1>1. h \in Statement /\ h \in CtorSt /\ bl \in Seq(Place)
  BY DEF Opened, HeadCtor
<1>2. PICK at \in Address, c \in 1 .. Len(program) : at = h.at /\ c = h.class /\ program[c].ctor # "none"
  BY <1>1, StatementIs DEF CtorSt
<1>3. MapsOf(h, IF c \in UserCtors THEN <<<<at, c>>>> ELSE <<>>, <<>>, <<>>)
  BY <1>1, <1>2, MapsOfHead
<1>4. Unchanging(bl, gn)
  BY NothingAdded
<1>5. ReadyNext(st, <<>>, t, vp)
  BY <1>3, StaysReady DEF MapsOf
<1>6. Phased(t, gn \o GoneMap[h])
  BY <1>3, <1>4, NextPhase DEF MapsOf, Unchanging
<1>7. Progress(st, t, bl \o BuildMap[h], gn \o GoneMap[h], vp)
  BY <1>5, <1>6, Dropped
<1>8. c \in UserCtors <=> program[c].ctor # "implicit"
  <2>1. program[c].ctor \in CtorKinds /\ c \in DOMAIN program
    BY ClassIs DEF ClassTyped, Classes
  <2> QED BY <1>2, <2>1 DEF UserCtors, CtorKinds
<1>9. bl \o BuildMap[h] = IF program[c].ctor = "implicit" THEN bl ELSE Append(bl, <<at, c>>)
  <2>1. Append(bl, <<at, c>>) = bl \o <<<<at, c>>>>
    BY ONLY <1>1, AppendIs
  <2> QED BY <1>3, <1>4, <1>8, <2>1 DEF MapsOf, Unchanging
<1> QED BY <1>2, <1>3, <1>4, <1>7, <1>9 DEF MapsOf, Unchanging

LEMMA VtableStep ==
  ASSUME Classes(program), NEW st, NEW bl, NEW gn, NEW vp, NEW h, NEW t, Opened(st, bl, gn, vp, h, t),
         HeadCtor(h, t, gn), h.op = "vtable",
         NEW vn, vn = [a \in {h.at} \cup DOMAIN vp |-> IF a = h.at THEN h.class ELSE vp[a]]
  PROVE  Progress(st, t, bl, gn, vn)
<1>1. h \in Statement /\ h \in CtorSt /\ t \in Seq(Statement) /\ AllReady(FinalSets(st), SetMap[h], t, vp)
  BY DEF Opened, HeadCtor
<1>2. PICK at \in Address, c \in 1 .. Len(program) : at = h.at /\ c = h.class
  BY <1>1, StatementIs DEF CtorSt
<1>3. MapsOf(h, <<>>, <<<<at, c>>>>, <<>>)
  BY <1>1, <1>2, MapsOfHead
<1>4. Unchanging(bl, gn)
  BY NothingAdded
<1>5. vn = [a \in {at} \cup DOMAIN vp |-> IF a = at THEN c ELSE vp[a]]
  BY <1>2
<1>6. ReadyNext(st, <<>>, t, vn)
  <2>1. AllReady(FinalSets(st), <<<<at, c>>>>, t, vp) /\ c \in Nat
    BY <1>1, <1>3, ClassIs DEF MapsOf
  <2>2. AllReady(FinalSets(st), <<>>, t, vn)
    BY <1>1, <1>5, <2>1, ReadyAfter, SMTT(40), ZenonT(40)
  <2>3. <<>> \o t = t
    BY <1>1, ConcatEmptySeq
  <2> QED BY <2>2, <2>3 DEF ReadyNext
<1>7. Phased(t, gn \o GoneMap[h])
  BY <1>3, <1>4, NextPhase DEF MapsOf, Unchanging
<1>8. Progress(st, t, bl \o BuildMap[h], gn \o GoneMap[h], vn)
  BY <1>6, <1>7, Dropped
<1> QED BY <1>3, <1>4, <1>8 DEF MapsOf, Unchanging

LEMMA UseStep ==
  ASSUME Classes(program), NEW st, NEW bl, NEW gn, NEW vp, NEW h, NEW t, Opened(st, bl, gn, vp, h, t), HeadUse(h, t, gn)
  PROVE  Progress(st, t, bl, gn, vp)
<1>1. h \in Statement /\ h.op = "use" /\ Phased(t, gn)
  BY DEF Opened, HeadUse, UseSt
<1>2. BuildMap[h] = <<>> /\ SetMap[h] = <<>> /\ GoneMap[h] = <<>>
  BY <1>1 DEF BuildMap, SetMap, GoneMap
<1>3. Unchanging(bl, gn)
  BY NothingAdded
<1>4. ReadyNext(st, <<>>, t, vp)
  BY <1>2, StaysReady
<1>5. Phased(t, gn \o GoneMap[h])
  BY <1>1, <1>2, <1>3 DEF Unchanging
<1>6. Progress(st, t, bl \o BuildMap[h], gn \o GoneMap[h], vp)
  BY <1>4, <1>5, Dropped
<1> QED BY <1>2, <1>3, <1>6 DEF Unchanging

-----------------------------------------------------------------------------
QuietDtor == {s \in Statement : s.op \in {"dtor", "dtor body"}}

LEMMA QuietDtorIn ==
  ASSUME NEW op \in {"dtor", "dtor body"}, NEW at \in Address, NEW c \in Nat
  PROVE  Perform(op, at, c) \in QuietDtor
BY DEF Perform, QuietDtor, Statement, Ops

LEMMA DtorQuiet ==
  ASSUME Classes(program), NEW c \in 1 .. Len(program), NEW at \in Address
  PROVE  DtorCode(at, c) \in Seq(QuietDtor)
<1>1. c \in Nat /\ program[c].base \in Nat /\ Len(program[c].fields) \in Nat
  BY ClassIs
<1>2. PICK a \in Seq(QuietDtor) : a = <<Perform("dtor body", at, c)>>
  BY <1>1, QuietDtorIn, OneInSeq
<1>3. PICK m \in Seq(QuietDtor) : m = MemberDtors(at, c)
  <2>1. MemberDtors(at, c) = FlattenSeq(DtorCalls(at, program[c].fields, c, Live(program[c].fields)))
    BY MemberDtorsAre
  <2>2. \A i \in 1 .. Len(program[c].fields) : program[c].fields[i].class \in Nat
    BY FieldIs, ClassIs
  <2>3. \A i \in 1 .. Len(program[c].fields) : \A b \in Address : Perform("dtor", b, program[c].fields[i].class) \in QuietDtor
    BY <2>2, QuietDtorIn
  <2>4. FlattenSeq(DtorCalls(at, program[c].fields, c, Live(program[c].fields))) \in Seq(QuietDtor)
    BY <1>1, <2>3, DtorRowsIn
  <2> QED BY <2>1, <2>4
<1>4. PICK b \in Seq(QuietDtor) : b = BaseDtor(at, c)
  <2>1. <<Perform("dtor", at, program[c].base)>> \in Seq(QuietDtor)
    BY <1>1, QuietDtorIn, OneInSeq
  <2>2. <<>> \in Seq(QuietDtor)
    BY EmptySeq
  <2> QED BY <2>1, <2>2 DEF BaseDtor
<1>5. PICK u \in Seq(QuietDtor) : u = a \o m
  BY ConcatProperties
<1>6. u \o b \in Seq(QuietDtor)
  BY ConcatProperties
<1> QED BY <1>2, <1>3, <1>4, <1>5, <1>6 DEF DtorCode

LEMMA QuietDtorReady ==
  ASSUME NEW s \in Seq(QuietDtor), NEW g, NEW S, NEW vp
  PROVE  AllReady(g, S, s, vp)
<1>1. \A k \in 1 .. Len(s) : s[k] \in QuietDtor
  BY ElementOfSeq
<1>2. \A k \in 1 .. Len(s) : s[k].op \notin {"ctor body", "delete", "use"}
  BY <1>1 DEF QuietDtor
<1> QED BY <1>2, ReadyOfItself

(* Destructors take the place of the first statement.                      *)
LEMMA DtorsTake ==
  ASSUME Classes(program), NEW st, NEW bl, NEW gn, NEW vp, NEW h, NEW t, Opened(st, bl, gn, vp, h, t), HeadDtor(h, t),
         NEW w, w \in Seq(QuietDtor), GoneDoes(w, GoneMap[h]), BuildMap[h] = <<>>, SetMap[h] = <<>>
  PROVE  Progress(st, w \o t, bl, gn, vp)
<1>1. w \in Seq(DtorSt) /\ w \in Seq(Statement) /\ Each(GoneMap, w) = GoneMap[h] /\ GoneMap[h] \in Seq(Place)
  BY DEF GoneDoes, Opened
<1>2. Each(BuildMap, w) = <<>> /\ Each(SetMap, w) = <<>>
  BY <1>1, SilentKinds
<1>3. Unchanging(bl, gn)
  BY NothingAdded
<1>4. Adds(h, w, <<>>, <<>>)
  <2>1. <<>> \o GoneMap[h] = GoneMap[h] /\ <<>> \o <<>> = <<>> /\ <<>> \in Seq(Place)
    BY <1>1, EmptySeq, ConcatEmptySeq
  <2> QED BY <1>1, <1>2, <2>1 DEF Adds
<1>5. ReadyNext(st, w, t, vp)
  <2>1. AllReady(FinalSets(st), <<>>, w, vp)
    BY QuietDtorReady
  <2>2. Each(SetMap, w) = SetMap[h]
    BY <1>2
  <2> QED BY <1>1, <2>1, <2>2, ReadyKept
<1>6. Phased(w \o t, gn \o <<>>)
  BY <1>1 DEF HeadDtor
<1>7. Progress(st, w \o t, bl \o <<>>, gn \o <<>>, vp)
  BY <1>4, <1>5, <1>6, Replaced
<1> QED BY <1>3, <1>7 DEF Unchanging

LEMMA DtorStep ==
  ASSUME Classes(program), NEW st, NEW bl, NEW gn, NEW vp, NEW h, NEW t, Opened(st, bl, gn, vp, h, t),
         HeadDtor(h, t), h.op = "dtor"
  PROVE  Progress(st, DtorCode(h.at, h.class) \o t, bl, gn, vp)
<1>1. h \in Statement /\ h \in DtorSt
  BY DEF Opened, HeadDtor
<1>2. PICK at \in Address, c \in 1 .. Len(program) : at = h.at /\ c = h.class
  BY <1>1, StatementIs DEF DtorSt
<1>3. PICK w : w = DtorCode(at, c)
  OBVIOUS
<1>4. MapsOf(h, <<>>, <<>>, Inside(at, Reverse(GoneOf[c])))
  BY <1>1, <1>2, MapsOfHead
<1>5. GoneDoes(w, Inside(at, Reverse(GoneOf[c]))) /\ w \in Seq(QuietDtor)
  BY <1>3, DtorDoes, DtorQuiet
<1>6. GoneDoes(w, GoneMap[h]) /\ BuildMap[h] = <<>> /\ SetMap[h] = <<>>
  BY <1>4, <1>5 DEF MapsOf
<1>7. Progress(st, w \o t, bl, gn, vp)
  BY <1>5, <1>6, DtorsTake
<1> QED BY <1>2, <1>3, <1>7

LEMMA NextDtors ==
  ASSUME NEW st, NEW bl, NEW gn, NEW vp, NEW h, NEW t, Opened(st, bl, gn, vp, h, t), HeadDtor(h, t)
  PROVE  \A gx : Phased(t, gx)
<1>1. t \in Seq(Statement) /\ <<>> \in Seq(DtorSt)
  BY EmptySeq DEF Opened
<1>2. <<>> \o t = t
  BY <1>1, ConcatEmptySeq
<1> QED BY <1>1, <1>2 DEF HeadDtor

LEMMA DtorBodyStep ==
  ASSUME Classes(program), NEW st, NEW bl, NEW gn, NEW vp, NEW h, NEW t, Opened(st, bl, gn, vp, h, t),
         HeadDtor(h, t), h.op = "dtor body"
  PROVE  Progress(st, t, bl, IF program[h.class].dtor = "user" THEN Append(gn, <<h.at, h.class>>) ELSE gn, vp)
<1>1. h \in Statement /\ h \in DtorSt /\ gn \in Seq(Place)
  BY DEF Opened, HeadDtor
<1>2. PICK at \in Address, c \in 1 .. Len(program) : at = h.at /\ c = h.class
  BY <1>1, StatementIs DEF DtorSt
<1>3. MapsOf(h, <<>>, <<>>, IF c \in UserDtors THEN <<<<at, c>>>> ELSE <<>>)
  BY <1>1, <1>2, MapsOfHead
<1>4. Unchanging(bl, gn)
  BY NothingAdded
<1>5. ReadyNext(st, <<>>, t, vp)
  BY <1>3, StaysReady DEF MapsOf
<1>6. Phased(t, gn \o GoneMap[h])
  BY NextDtors
<1>7. Progress(st, t, bl \o BuildMap[h], gn \o GoneMap[h], vp)
  BY <1>5, <1>6, Dropped
<1>8. c \in UserDtors <=> program[c].dtor = "user"
  BY DEF UserDtors, Classes
<1>9. gn \o GoneMap[h] = IF program[c].dtor = "user" THEN Append(gn, <<at, c>>) ELSE gn
  <2>1. Append(gn, <<at, c>>) = gn \o <<<<at, c>>>>
    BY ONLY <1>1, AppendIs
  <2> QED BY <1>3, <1>4, <1>8, <2>1 DEF MapsOf, Unchanging
<1> QED BY <1>2, <1>3, <1>4, <1>7, <1>9 DEF MapsOf, Unchanging

(* What delete calls.                                                      *)
Deleted(vp, h) ==
  IF program[h.class].virtualDtor THEN
    IF h.at \in DOMAIN vp THEN <<Perform("dtor", h.at, vp[h.at])>> ELSE <<>>
  ELSE IF program[h.class].dtor # "none" THEN <<Perform("dtor", h.at, h.class)>>
  ELSE <<>>

LEMMA DeleteStep ==
  ASSUME Classes(program), NEW st, NEW bl, NEW gn, NEW vp, NEW h, NEW t, Opened(st, bl, gn, vp, h, t),
         HeadDtor(h, t), h.op = "delete"
  PROVE  Progress(st, Deleted(vp, h) \o t, bl, gn, vp)
<1>1. h \in Statement /\ h \in DtorSt /\ \A a, v : Need(FinalSets(st), h, a, v) => Settled(<<>>, vp, a, v)
  BY DEF Opened, HeadDtor
<1>2. PICK at \in Address, c \in 1 .. Len(program) : at = h.at /\ c = h.class
  BY <1>1, StatementIs DEF DtorSt
<1>3. at = TheObject /\ (program[c].virtualDtor \/ c = Len(program))
  BY <1>1, <1>2 DEF DtorSt
<1>4. PICK z \in 1 .. Len(program) : z = Len(program)
  BY <1>2, ClassIs
<1>5. MapsOf(h, <<>>, <<>>, Inside(at, Reverse(GoneOf[z])))
  BY <1>1, <1>2, <1>4, MapsOfHead
<1>6. z \in Nat
  BY ClassIs
<1>7. \/ Deleted(vp, h) = <<Perform("dtor", at, z)>>
      \/ Deleted(vp, h) = <<>> /\ program[z].dtor = "none"
  <2>1. CASE program[c].virtualDtor
    <3>1. Need(FinalSets(st), h, TheObject, Len(program))
      BY <1>2, <2>1 DEF Need
    <3>2. Settled(<<>>, vp, TheObject, Len(program))
      BY <1>1, <3>1
    <3>3. TheObject \in DOMAIN vp /\ vp[TheObject] = Len(program)
      BY <3>2 DEF Settled, Leaves
    <3> QED BY <1>2, <1>3, <1>4, <2>1, <3>3 DEF Deleted
  <2>2. CASE ~ program[c].virtualDtor
    BY <1>2, <1>3, <1>4, <2>2 DEF Deleted
  <2> QED BY <2>1, <2>2
<1>8. PICK w : w = Deleted(vp, h)
  OBVIOUS
<1>9. w \in Seq(QuietDtor) /\ GoneDoes(w, GoneMap[h])
  <2>1. CASE w = <<Perform("dtor", at, z)>>
    <3>1. w \in Seq(QuietDtor)
      BY <1>6, <2>1, QuietDtorIn, OneInSeq
    <3>2. w \in Seq(DtorSt) /\ w \in Seq(Statement) /\ Each(GoneMap, w) = GoneMap[Perform("dtor", at, z)]
      BY <2>1, DtorIn
    <3>3. GoneMap[Perform("dtor", at, z)] = Inside(at, Reverse(GoneOf[z]))
      <4>1. "dtor" \in Ops
        BY DEF Ops
      <4> QED BY <4>1, MapsAt, ZenonT(40)
    <3> QED BY <1>5, <3>1, <3>2, <3>3 DEF GoneDoes, MapsOf
  <2>2. CASE w = <<>> /\ program[z].dtor = "none"
    <3>1. GoneOf[z] = <<>>
      BY <2>2, NothingGone
    <3>2. GoneMap[h] = <<>>
      BY <1>5, <3>1, NothingInside DEF MapsOf
    <3> QED BY <2>2, <3>2, EmptySeq, EachEmpty DEF GoneDoes
  <2> QED BY <1>7, <1>8, <2>1, <2>2
<1>10. BuildMap[h] = <<>> /\ SetMap[h] = <<>>
  BY <1>5 DEF MapsOf
<1>11. Progress(st, w \o t, bl, gn, vp)
  BY <1>9, <1>10, DtorsTake
<1> QED BY <1>8, <1>11

(* A program with one more class: what was compiled stays as it was.       *)
Longer(p, q, k) ==
  /\ Len(p) \in Nat /\ Len(q) = Len(p) + 1 /\ DOMAIN q = 1 .. Len(q)
  /\ \A b \in 1 .. Len(p) : q[b] = p[b]
  /\ q[Len(p) + 1] = k

LEMMA LongerIs ==
  ASSUME NEW p, NEW k, Len(p) \in Nat, DOMAIN p = 1 .. Len(p)
  PROVE  Longer(p, Append(p, k), k)
BY DEF Longer

LEMMA GridSame ==
  ASSUME NEW F, NEW G, NEW fs, NEW c, \A i \in 1 .. Len(fs) : F[fs[i].class] = G[fs[i].class]
  PROVE  GridOf(F, fs, c) = GridOf(G, fs, c)
BY DEF GridOf

LEMMA PartsKept ==
  ASSUME NEW p, NEW q, NEW k, Longer(p, q, k), NEW b \in 1 .. Len(p), DOMAIN p = 1 .. Len(p)
  PROVE  PartsMap(q)[b] = PartsMap(p)[b] /\ PartsMap(q)[b] = p[b].parts
<1>1. b \in DOMAIN q /\ b \in DOMAIN p /\ q[b] = p[b]
  BY DEF Longer
<1> QED BY <1>1 DEF PartsMap

LEMMA OldClass ==
  ASSUME NEW p, NEW q, NEW k, Classes(p), Longer(p, q, k), NEW c \in 1 .. Len(p)
  PROVE  Compiles(q, c)
<1>1. /\ c \in Nat \ {0} /\ ClassTyped(p, c) /\ PartsMade(p, c) /\ NoCtor(p, c) /\ NoDtor(p, c) /\ Tables(p, c)
      /\ p[c].base \in Nat /\ (p[c].base # NoClass => p[c].base \in 1 .. Len(p))
      /\ Len(p[c].fields) \in Nat
  BY ClassIs
<1>2. q[c] = p[c] /\ \A b \in 1 .. Len(p) : q[b] = p[b]
  BY DEF Longer
<1>3. ClassTyped(q, c)
  BY <1>1, <1>2 DEF ClassTyped
<1>4. p[c].base # NoClass => q[p[c].base] = p[p[c].base]
  BY <1>1, <1>2
<1>5. Members(q, c) = Members(p, c)
  BY <1>2 DEF Members
<1>6. \A m \in Members(p, c) : q[m] = p[m]
  <2>1. \A i \in 1 .. Len(p[c].fields) : p[c].fields[i].class \in 1 .. Len(p)
    BY FieldIs
  <2> QED BY <1>2, <2>1 DEF Members
<1>7. PartsMade(q, c)
  <2>1. BaseParts(q, q[c].base) = BaseParts(p, p[c].base)
    BY <1>2, <1>4 DEF BaseParts
  <2>2. \A i \in 1 .. Len(p[c].fields) : PartsMap(q)[p[c].fields[i].class] = PartsMap(p)[p[c].fields[i].class]
    <3>1. \A i \in 1 .. Len(p[c].fields) : p[c].fields[i].class \in 1 .. Len(p)
      BY FieldIs
    <3>2. DOMAIN p = 1 .. Len(p)
      BY DEF Classes
    <3> QED BY <3>1, <3>2, PartsKept
  <2>3. GridOf(PartsMap(q), p[c].fields, c) = GridOf(PartsMap(p), p[c].fields, c)
    BY <2>2, GridSame
  <2> QED BY <1>1, <1>2, <2>1, <2>3 DEF PartsMade
<1>8. NoCtor(q, c)
  BY <1>1, <1>2, <1>4, <1>5, <1>6 DEF NoCtor
<1>9. NoDtor(q, c)
  BY <1>1, <1>2, <1>4, <1>5, <1>6 DEF NoDtor
<1>10. Tables(q, c)
  BY <1>1, <1>2, <1>4 DEF Tables
<1> QED BY <1>3, <1>7, <1>8, <1>9, <1>10 DEF Compiles

(* The new class.                                                          *)
NewDecl(d) ==
  /\ d.base \in 0 .. Len(program) /\ d.fields \in Seq(FieldsBelow(Len(program) + 1))
  /\ d.ctor \in {"none", "default", "args"} /\ d.dtor \in {"none", "user"} /\ d.virtual \in BOOLEAN

LEMMA DeclIs ==
  ASSUME Len(program) \in Nat, family.shapes \subseteq AlikeShapes, NEW d \in Declarations(Len(program) + 1)
  PROVE  NewDecl(d)
<1>1. /\ d.base \in {NoClass} \cup 1 .. Len(program) + 1 - 1
      /\ d.fields \in UNION {[1 .. n -> [shape : family.shapes, class : 1 .. Len(program) + 1 - 1]] : n \in 0 .. family.fields}
      /\ d.ctor \in {"none", "default", "args"} /\ d.dtor \in {"none", "user"} /\ d.virtual \in BOOLEAN
  BY DEF Declarations
<1>2. d.base \in 0 .. Len(program)
  BY <1>1 DEF NoClass
<1>3. PICK n \in Nat : d.fields \in [1 .. n -> [shape : family.shapes, class : 1 .. Len(program) + 1 - 1]]
  <2>1. PICK n \in 0 .. family.fields : d.fields \in [1 .. n -> [shape : family.shapes, class : 1 .. Len(program) + 1 - 1]]
    BY <1>1
  <2>2. n \in Nat
    OBVIOUS
  <2> QED BY <2>1, <2>2
<1>4. [shape : family.shapes, class : 1 .. Len(program) + 1 - 1] \subseteq FieldsBelow(Len(program) + 1)
  BY DEF FieldsBelow
<1>5. d.fields \in [1 .. n -> FieldsBelow(Len(program) + 1)]
  BY <1>3, <1>4
<1>6. d.fields \in Seq(FieldsBelow(Len(program) + 1))
  BY <1>5, FunctionSeq
<1> QED BY <1>1, <1>2, <1>6 DEF NewDecl

LEMMA DeclFields ==
  ASSUME Len(program) \in Nat, NEW d, NewDecl(d)
  PROVE  /\ Len(d.fields) \in Nat /\ DOMAIN d.fields = 1 .. Len(d.fields)
         /\ \A i \in 1 .. Len(d.fields) : d.fields[i].class \in 1 .. Len(program) /\ d.fields[i].shape \in AlikeShapes
<1>1. d.fields \in Seq(FieldsBelow(Len(program) + 1))
  BY DEF NewDecl
<1>2. Len(d.fields) \in Nat /\ DOMAIN d.fields = 1 .. Len(d.fields) /\ \A i \in 1 .. Len(d.fields) : d.fields[i] \in FieldsBelow(Len(program) + 1)
  BY <1>1, LenProperties, ElementOfSeq
<1>3. \A f \in FieldsBelow(Len(program) + 1) : f.class \in 1 .. Len(program) /\ f.shape \in AlikeShapes
  BY DEF FieldsBelow
<1> QED BY <1>2, <1>3

LEMMA PartsOfIs ==
  ASSUME NEW d, NEW c, NEW F, Len(d.fields) \in Nat, \A i \in 1 .. Len(d.fields) : F[d.fields[i].class] = program[d.fields[i].class].parts
  PROVE  PartsOf(d, c) = (BaseParts(program, d.base) \o Twice(GridOf(F, d.fields, c))) \o Itself(c)
<1>1. PICK fs : fs = d.fields
  OBVIOUS
<1>2. PICK g : g = GridOf(F, fs, c)
  OBVIOUS
<1>3. Len(g) = Len(fs)
  BY <1>1, <1>2 DEF GridOf
<1>4. \A i \in 1 .. Len(fs) : g[i] = [e \in 1 .. (IF Owns(fs[i].shape) THEN Elements(fs[i].shape) ELSE 0) |->
                      Inside(Part(<<>>, c, i, e), program[fs[i].class].parts)]
  BY <1>1, <1>2 DEF GridOf, MemberCount
<1>5. PICK r : r = [i \in 1 .. Len(fs) |-> FlattenSeq(g[i])]
  OBVIOUS
<1>6. Twice(g) = FlattenSeq(r)
  BY <1>3, <1>5 DEF Twice
<1>7. r = [i \in 1 .. Len(fs) |-> FlattenSeq([e \in 1 .. (IF Owns(fs[i].shape) THEN Elements(fs[i].shape) ELSE 0) |->
                      Inside(Part(<<>>, c, i, e), program[fs[i].class].parts)])]
  BY <1>4, <1>5
<1>8. PartsOf(d, c) = (BaseParts(program, d.base) \o FlattenSeq(r)) \o Itself(c)
  BY <1>1, <1>7 DEF PartsOf, BaseParts, Itself
<1> QED BY <1>1, <1>2, <1>6, <1>8

-----------------------------------------------------------------------------
NewMember(d, m) ==
  \E i \in 1 .. Len(d.fields) : m = d.fields[i].class /\ Owns(d.fields[i].shape) /\ m \in MemberClasses(d)
                                /\ LegalMember(d, d.fields[i])

LEMMA NewMembers ==
  ASSUME Len(program) \in Nat, NEW d, NewDecl(d), LegalClass(d),
         NEW q, NEW c, q[c].fields = d.fields, NEW m \in Members(q, c)
  PROVE  NewMember(d, m) /\ m \in 1 .. Len(program)
<1>1. PICK i \in 1 .. Len(d.fields) : m = d.fields[i].class /\ Owns(d.fields[i].shape)
  BY DEF Members
<1>2. d.fields[i].class \in 1 .. Len(program) /\ d.fields[i].shape \in AlikeShapes /\ i \in DOMAIN d.fields
  BY DeclFields
<1>3. MemberValueClass(d.fields[i]) = m /\ m # NoClass
  <2>1. PICK f : f = d.fields[i]
    OBVIOUS
  <2>2. f.shape \in {"value", "const", "array", "const array"}
    BY <1>1, <1>2, <2>1 DEF Owns, AlikeShapes
  <2>3. MemberValueClass(f) = f.class
    BY <2>2 DEF MemberValueClass
  <2>4. f.class # NoClass
    BY <1>2, <2>1 DEF NoClass
  <2> QED BY <1>1, <2>1, <2>3, <2>4
<1>4. m \in MemberClasses(d)
  BY <1>2, <1>3 DEF MemberClasses
<1>5. LegalMember(d, d.fields[i])
  BY <1>2 DEF LegalClass
<1> QED BY <1>1, <1>2, <1>4, <1>5 DEF NewMember

LEMMA KindIs ==
  ASSUME Classes(program), NEW b \in 1 .. Len(program)
  PROVE  program[b].ctor \in CtorKinds /\ Tables(program, b)
BY ClassIs DEF ClassTyped

LEMMA NewClass ==
  ASSUME Classes(program), NEW d, NewDecl(d), LegalClass(d), NEW q, NEW c, c = Len(program) + 1,
         Longer(program, q, Compiled(d, PartsOf(d, c)))
  PROVE  Compiles(q, c)
<1>1. Len(program) \in Nat /\ DOMAIN program = 1 .. Len(program)
  BY DEF Classes
<1>2. PICK k : k = Compiled(d, PartsOf(d, c))
  OBVIOUS
<1>3. q[c] = k /\ \A b \in 1 .. Len(program) : q[b] = program[b]
  BY <1>2 DEF Longer
<1>4. /\ k.base = d.base /\ k.fields = d.fields /\ k.parts = PartsOf(d, c)
      /\ k.ctor = (IF d.ctor = "none" /\ WantsCtor(d) THEN "implicit" ELSE d.ctor)
      /\ k.dtor = (IF d.dtor = "none" /\ WantsDtor(d) THEN "implicit" ELSE d.dtor)
      /\ k.vtable = (d.virtual \/ \E b \in Bases(d) : program[b].vtable)
      /\ k.virtualDtor = (\/ d.virtual /\ d.dtor = "user"
                          \/ \E b \in Bases(d) : program[b].virtualDtor)
  BY <1>2 DEF Compiled
<1>5. /\ d.base \in 0 .. Len(program) /\ d.fields \in Seq(FieldsBelow(c))
      /\ d.ctor \in {"none", "default", "args"} /\ d.dtor \in {"none", "user"} /\ d.virtual \in BOOLEAN
  BY DEF NewDecl
<1>6. d.base # NoClass => d.base \in 1 .. Len(program) /\ d.base \in Bases(d) /\ q[d.base] = program[d.base]
  BY <1>1, <1>3, <1>5 DEF NoClass, Bases
<1>7. \A b \in Bases(d) : b = d.base /\ b # NoClass
  BY DEF Bases
<1>8. ClassTyped(q, c)
  <2>1. d.base \in 0 .. c - 1
    BY <1>1, <1>5
  <2>2. k.ctor \in CtorKinds /\ k.dtor \in DtorKinds
    BY <1>4, <1>5 DEF CtorKinds, DtorKinds
  <2>3. k.vtable \in BOOLEAN /\ k.virtualDtor \in BOOLEAN
    BY <1>4
  <2> QED BY <1>3, <1>4, <1>5, <2>1, <2>2, <2>3 DEF ClassTyped
<1>9. PartsMade(q, c)
  <2>1. \A i \in 1 .. Len(d.fields) : PartsMap(q)[d.fields[i].class] = program[d.fields[i].class].parts
    BY <1>1, DeclFields, PartsKept
  <2>2. PartsOf(d, c) = (BaseParts(program, d.base) \o Twice(GridOf(PartsMap(q), d.fields, c))) \o Itself(c)
    BY <1>1, <2>1, DeclFields, PartsOfIs
  <2>3. BaseParts(q, d.base) = BaseParts(program, d.base)
    BY <1>6 DEF BaseParts
  <2> QED BY <1>3, <1>4, <2>2, <2>3 DEF PartsMade
<1>10. \A m \in Members(q, c) : NewMember(d, m) /\ m \in 1 .. Len(program) /\ q[m] = program[m]
  BY <1>1, <1>3, <1>4, NewMembers
<1>11. NoCtor(q, c)
  <2>1. SUFFICES ASSUME k.ctor = "none"
                 PROVE  /\ d.base # NoClass => q[d.base].ctor = "none"
                        /\ \A m \in Members(q, c) : q[m].ctor = "none" /\ ~ q[m].vtable
    BY <1>3, <1>4 DEF NoCtor
  <2>2. d.ctor = "none" /\ ~ WantsCtor(d)
    BY <1>4, <2>1
  <2>3. d.base # NoClass => q[d.base].ctor = "none"
    <3>1. SUFFICES ASSUME d.base # NoClass PROVE program[d.base].ctor = "none"
      BY <1>6
    <3>2. program[d.base].ctor \in CtorKinds
      BY <1>6, <3>1, KindIs
    <3>3. program[d.base].ctor # "args"
      BY <1>6, <2>2, <3>1 DEF LegalClass
    <3>4. program[d.base].ctor \notin {"implicit", "default"}
      BY <1>6, <2>2, <3>1 DEF WantsCtor, HasDefaultCtor
    <3> QED BY <3>2, <3>3, <3>4 DEF CtorKinds
  <2>4. ASSUME NEW m \in Members(q, c) PROVE program[m].ctor = "none" /\ ~ program[m].vtable
    <3>1. program[m].ctor \in CtorKinds
      BY <1>10, KindIs
    <3>2. m \in MemberClasses(d) /\ program[m].ctor # "args"
      BY <1>10, <2>2 DEF NewMember, LegalMember
    <3>3. program[m].ctor \notin {"implicit", "default"} /\ ~ (program[m].ctor = "none" /\ program[m].vtable)
      BY <2>2, <3>2 DEF WantsCtor, HasDefaultCtor
    <3> QED BY <3>1, <3>2, <3>3 DEF CtorKinds
  <2> QED BY <1>10, <2>3, <2>4
<1>12. NoDtor(q, c)
  <2>1. SUFFICES ASSUME k.dtor = "none"
                 PROVE  /\ d.base # NoClass => q[d.base].dtor = "none"
                        /\ \A m \in Members(q, c) : q[m].dtor = "none"
    BY <1>3, <1>4 DEF NoDtor
  <2>2. ~ WantsDtor(d)
    BY <1>4, <2>1
  <2>3. \A b \in Bases(d) \cup MemberClasses(d) : program[b].dtor = "none"
    BY <2>2 DEF WantsDtor
  <2> QED BY <1>6, <1>10, <2>3 DEF NewMember
<1>13. Tables(q, c)
  <2>1. d.base # NoClass => Tables(program, d.base)
    BY <1>6, KindIs
  <2>2. \A b \in Bases(d) : program[b].virtualDtor => program[b].vtable
    BY <1>7, <2>1 DEF Tables
  <2> QED BY <1>3, <1>4, <1>6, <2>2 DEF Tables
<1> QED BY <1>8, <1>9, <1>11, <1>12, <1>13 DEF Compiles

(* One more class.                                                         *)
LEMMA OneMoreClass ==
  ASSUME Classes(program), family.shapes \subseteq AlikeShapes,
         NEW d \in Declarations(Len(program) + 1), LegalClass(d),
         NEW q, q = Append(program, Compiled(d, PartsOf(d, Len(program) + 1)))
  PROVE  Classes(q) /\ Len(q) = Len(program) + 1
<1>1. PICK k : k = Compiled(d, PartsOf(d, Len(program) + 1))
  OBVIOUS
<1>2. Len(program) \in Nat /\ DOMAIN program = 1 .. Len(program)
  BY DEF Classes
<1>3. Longer(program, q, k)
  BY <1>1, <1>2, LongerIs
<1>4. NewDecl(d)
  BY <1>2, DeclIs
<1>5. Compiles(q, Len(program) + 1)
  BY <1>1, <1>3, <1>4, NewClass
<1>6. \A c \in 1 .. Len(program) : Compiles(q, c)
  BY <1>3, OldClass
<1>7. Len(q) = Len(program) + 1 /\ DOMAIN q = 1 .. Len(q)
  BY <1>3 DEF Longer
<1>8. \A c \in 1 .. Len(q) : c \in 1 .. Len(program) \/ c = Len(program) + 1
  BY <1>2, <1>7
<1> QED BY <1>2, <1>5, <1>6, <1>7, <1>8 DEF Classes

(* Steps that leave the program alone leave alone what is defined from it. *)
LEMMA MapsKept ==
  ASSUME program' = program
  PROVE  /\ BuildMap' = BuildMap /\ SetMap' = SetMap /\ GoneMap' = GoneMap
         /\ SetOf' = SetOf /\ UserCtors' = UserCtors /\ UserDtors' = UserDtors
<1>1. UserCtors' = UserCtors /\ UserDtors' = UserDtors
  BY DEF UserCtors, UserDtors
<1>2. BuildOf' = BuildOf
  BY <1>1 DEF BuildOf
<1>3. GoneOf' = GoneOf
  BY <1>1 DEF GoneOf
<1>4. SetOf' = SetOf
  BY DEF SetOf
<1>5. BuildMap' = BuildMap
  BY <1>1, <1>2 DEF BuildMap
<1>6. SetMap' = SetMap
  BY <1>4 DEF SetMap
<1>7. GoneMap' = GoneMap
  BY <1>1, <1>3 DEF GoneMap
<1> QED BY <1>1, <1>4, <1>5, <1>6, <1>7

LEMMA DuesKept ==
  ASSUME program' = program, NEW st
  PROVE  WholeParts(st)' = WholeParts(st) /\ FinalSets(st)' = FinalSets(st)
         /\ CtorsDue(st)' = CtorsDue(st) /\ DtorsDue(st)' = DtorsDue(st)
<1>1. ObjFields(st)' = ObjFields(st)
  BY DEF ObjFields
<1>2. WholeParts(st)' = WholeParts(st)
  BY <1>1 DEF WholeParts, WholeOf
<1>3. FinalSets(st)' = FinalSets(st)
  BY <1>1, MapsKept DEF FinalSets, WholeOf
<1>4. CtorsDue(st)' = CtorsDue(st)
  BY <1>2, MapsKept DEF CtorsDue
<1>5. DtorsDue(st)' = DtorsDue(st)
  BY <1>2, MapsKept DEF DtorsDue
<1> QED BY <1>2, <1>3, <1>4, <1>5

LEMMA KindsKept ==
  ASSUME program' = program
  PROVE  CtorSt' = CtorSt /\ DtorSt' = DtorSt
BY DEF CtorSt, DtorSt

LEMMA NeedKept ==
  ASSUME program' = program, NEW g, NEW s, NEW a, NEW v
  PROVE  Need(g, s, a, v)' <=> Need(g, s, a, v)
BY DEF Need, MemberNeed

LEMMA ProgressKept ==
  ASSUME program' = program, NEW st, Progress(st, code', built', gone', vptr')
  PROVE  Progress(st, code, built, gone, vptr)'
<1>1. /\ code' \in Seq(Statement) /\ built' \in Seq(Place) /\ gone' \in Seq(Place)
      /\ built' \o Each(BuildMap, code') = CtorsDue(st)
      /\ gone' \o Each(GoneMap, code') = DtorsDue(st)
      /\ Phased(code', gone')
      /\ AllReady(FinalSets(st), <<>>, code', vptr')
  BY DEF Progress
<1>2. Phased(code, gone)'
  BY <1>1, KindsKept DEF Phased
<1>3. AllReady(FinalSets(st), <<>>, code, vptr)'
  BY <1>1, MapsKept, DuesKept, NeedKept DEF AllReady, SetsBefore
<1> QED BY <1>1, <1>2, <1>3, MapsKept, DuesKept DEF Progress

-----------------------------------------------------------------------------
Unstarted == object = {} /\ code = <<>> /\ built = <<>> /\ gone = <<>> /\ vptr = <<>>

Underway(st) ==
  /\ object = {[storage |-> st, parts |-> WholeParts(st)]} /\ Len(program) = family.classes
  /\ Progress(st, code, built, gone, vptr)

(* The inductive invariant: the classes are compiled as they should be,    *)
(* and there is no object yet, or one whose code is on its way.            *)
LifeInv ==
  /\ family \in Families /\ Classes(program)
  /\ Unstarted \/ \E st \in Storages : Underway(st)

LEMMA LifeInvInit ==
  LifeInit => LifeInv
<1>1. SUFFICES ASSUME LifeInit PROVE LifeInv
  OBVIOUS
<1>2. Classes(<<>>)
  BY DEF Classes
<1> QED BY <1>1, <1>2 DEF LifeInit, LifeInv, Unstarted

LEMMA DeclareKeeps ==
  ASSUME TreatedAlike, LifeInv, DeclareClass
  PROVE  LifeInv'
<1>1. family \in Families /\ Classes(program) /\ Len(program) < family.classes
  BY DEF LifeInv, DeclareClass
<1>2. family' = family /\ object' = object /\ code' = code /\ built' = built /\ gone' = gone /\ vptr' = vptr
  BY DEF DeclareClass
<1>3. Len(program) \in Nat /\ family.classes \in Nat
  BY <1>1, ProgramAssumption DEF Classes
<1>4. Unstarted
  BY <1>1, <1>3 DEF LifeInv, Underway
<1>5. family.shapes \subseteq AlikeShapes
  BY <1>1 DEF TreatedAlike
<1>6. PICK d \in Declarations(Len(program) + 1) :
        LegalClass(d) /\ program' = Append(program, Compiled(d, PartsOf(d, Len(program) + 1)))
  BY DEF DeclareClass
<1>7. Classes(program')
  <2>1. PICK q : q = Append(program, Compiled(d, PartsOf(d, Len(program) + 1)))
    OBVIOUS
  <2>2. Classes(q)
    BY <1>1, <1>5, <1>6, <2>1, OneMoreClass
  <2> QED BY <1>6, <2>1, <2>2
<1>8. Unstarted'
  BY <1>2, <1>4 DEF Unstarted
<1> QED BY <1>1, <1>2, <1>7, <1>8 DEF LifeInv

(* Every other step leaves the program alone.                              *)
LEMMA LifeKept ==
  ASSUME LifeInv, program' = program, family' = family, NEW st \in Storages,
         object' = {[storage |-> st, parts |-> WholeParts(st)]}, Len(program) = family.classes,
         Progress(st, code', built', gone', vptr')
  PROVE  LifeInv'
<1>1. family' \in Families /\ Classes(program')
  BY DEF LifeInv
<1>2. object' = {[storage |-> st, parts |-> WholeParts(st)']}
  BY DuesKept
<1>3. Progress(st, code, built, gone, vptr)'
  BY ProgressKept
<1>4. Len(program') = family'.classes
  OBVIOUS
<1>5. Underway(st)'
  BY <1>2, <1>3, <1>4 DEF Underway
<1> QED BY <1>1, <1>5 DEF LifeInv

LEMMA CreateKeeps ==
  ASSUME TreatedAlike, LifeInv, CreateObject
  PROVE  LifeInv'
<1>1. family \in Families /\ Classes(program) /\ Len(program) = family.classes /\ object = {}
  BY DEF LifeInv, CreateObject
<1>2. family' = family /\ program' = program /\ built' = built /\ gone' = gone /\ vptr' = vptr
  BY DEF CreateObject
<1>3. Len(program) # 0
  BY <1>1, ProgramAssumption
<1>4. built = <<>> /\ gone = <<>> /\ vptr = <<>>
  BY <1>1 DEF LifeInv, Underway, Unstarted
<1>5. PICK st \in family.storages, static \in DOMAIN program :
        LET o == [storage |-> st, class |-> family.classes, static |-> static] IN
        /\ LegalObject(o)
        /\ object' = {[storage |-> st, parts |-> Parts(o)]}
        /\ code' = MainCode(o)
  BY DEF CreateObject
<1>6. PICK o : o = [storage |-> st, class |-> family.classes, static |-> static]
  OBVIOUS
<1>7. LegalObject(o) /\ object' = {[storage |-> st, parts |-> Parts(o)]} /\ code' = MainCode(o)
  BY <1>5, <1>6
<1>8. st \in Storages /\ o.storage = st /\ o.class = Len(program) /\ o.static \in DOMAIN program
  BY <1>1, <1>6 DEF TreatedAlike
<1>9. Parts(o) = WholeParts(st)
  BY <1>1, <1>3, <1>8, PartsAre
<1>10. Progress(st, MainCode(o), <<>>, <<>>, <<>>)
  <2>1. Progress(o.storage, MainCode(o), <<>>, <<>>, <<>>)
    BY <1>1, <1>3, <1>7, <1>8, MainProgress
  <2> QED BY <1>8, <2>1
<1>11. Progress(st, code', built', gone', vptr')
  BY <1>2, <1>4, <1>7, <1>10
<1> QED BY <1>1, <1>2, <1>7, <1>8, <1>9, <1>11, LifeKept

-----------------------------------------------------------------------------
(* What is known where a statement is to be executed.                      *)
Executes(st, h, t) ==
  /\ st \in Storages /\ Underway(st) /\ Classes(program) /\ h = Head(code) /\ t = Tail(code)
  /\ Opened(st, built, gone, vptr, h, t)
  /\ HeadCtor(h, t, gone) \/ HeadUse(h, t, gone) \/ HeadDtor(h, t)

LEMMA Executing ==
  ASSUME LifeInv, code # <<>>
  PROVE  \E st, h, t : Executes(st, h, t)
<1>1. PICK st \in Storages : Underway(st)
  BY DEF LifeInv, Unstarted
<1>2. Classes(program)
  BY DEF LifeInv
<1>3. Progress(st, code, built, gone, vptr)
  BY <1>1 DEF Underway
<1>4. Opened(st, built, gone, vptr, Head(code), Tail(code))
  BY <1>2, <1>3, Opens
<1>5. code \in Seq(Statement) /\ Phased(code, gone)
  BY <1>3 DEF Progress
<1>6. HeadCtor(Head(code), Tail(code), gone) \/ HeadUse(Head(code), Tail(code), gone) \/ HeadDtor(Head(code), Tail(code))
  BY <1>2, <1>5, HeadKind
<1> QED BY <1>1, <1>2, <1>4, <1>6 DEF Executes

LEMMA HeadOps ==
  ASSUME NEW st, NEW h, NEW t, Executes(st, h, t)
  PROVE  /\ h.op \in {"ctor", "ctor body", "vtable"} => HeadCtor(h, t, gone)
         /\ h.op = "use" => HeadUse(h, t, gone)
         /\ h.op \in {"dtor", "dtor body", "delete"} => HeadDtor(h, t)
<1>1. HeadCtor(h, t, gone) => h.op \in {"ctor", "ctor body", "vtable"}
  BY DEF HeadCtor, CtorSt
<1>2. HeadUse(h, t, gone) => h.op = "use"
  BY DEF HeadUse, UseSt
<1>3. HeadDtor(h, t) => h.op \in {"dtor", "dtor body", "delete"}
  BY DEF HeadDtor, DtorSt
<1> QED BY <1>1, <1>2, <1>3 DEF Executes

LEMMA ExecuteKeeps ==
  ASSUME LifeInv, NEW st, NEW h, NEW t, Executes(st, h, t),
         family' = family, program' = program, object' = object,
         Progress(st, code', built', gone', vptr')
  PROVE  LifeInv'
<1>1. st \in Storages /\ object' = {[storage |-> st, parts |-> WholeParts(st)]} /\ Len(program) = family.classes
  BY DEF Executes, Underway
<1> QED BY <1>1, LifeKept

LEMMA CodeKeeps ==
  ASSUME LifeInv, CallCtor \/ RunCtorBody \/ SetVtable \/ Use \/ CallDtor \/ RunDtorBody \/ Delete
  PROVE  LifeInv'
<1>1. code # <<>>
  BY DEF CallCtor, RunCtorBody, SetVtable, Use, CallDtor, RunDtorBody, Delete, Pending
<1>2. PICK st, h, t : Executes(st, h, t)
  BY <1>1, Executing
<1>3. Classes(program) /\ h = Head(code) /\ t = Tail(code) /\ Opened(st, built, gone, vptr, h, t)
  BY <1>2 DEF Executes
<1>4. /\ h.op \in {"ctor", "ctor body", "vtable"} => HeadCtor(h, t, gone)
      /\ h.op = "use" => HeadUse(h, t, gone)
      /\ h.op \in {"dtor", "dtor body", "delete"} => HeadDtor(h, t)
  BY <1>2, HeadOps
<1>5. family' = family /\ program' = program /\ object' = object
  BY DEF CallCtor, RunCtorBody, SetVtable, Use, CallDtor, RunDtorBody, Delete
<1>6. CASE CallCtor
  <2>1. h.op = "ctor" /\ code' = CtorCode(h.at, h.class) \o t /\ built' = built /\ gone' = gone /\ vptr' = vptr
    BY <1>3, <1>6 DEF CallCtor, Pending, Now
  <2>2. Progress(st, CtorCode(h.at, h.class) \o t, built, gone, vptr)
    BY <1>3, <1>4, <2>1, CtorStep
  <2> QED BY <1>2, <1>5, <2>1, <2>2, ExecuteKeeps
<1>7. CASE RunCtorBody
  <2>1. /\ h.op = "ctor body" /\ code' = t /\ gone' = gone /\ vptr' = vptr
        /\ built' = IF program[h.class].ctor = "implicit" THEN built ELSE Append(built, <<h.at, h.class>>)
    BY <1>3, <1>7 DEF RunCtorBody, Pending, Now
  <2>2. Progress(st, t, IF program[h.class].ctor = "implicit" THEN built ELSE Append(built, <<h.at, h.class>>), gone, vptr)
    BY <1>3, <1>4, <2>1, CtorBodyStep
  <2> QED BY <1>2, <1>5, <2>1, <2>2, ExecuteKeeps
<1>8. CASE SetVtable
  <2>1. /\ h.op = "vtable" /\ code' = t /\ built' = built /\ gone' = gone
        /\ vptr' = [a \in {h.at} \cup DOMAIN vptr |-> IF a = h.at THEN h.class ELSE vptr[a]]
    BY <1>3, <1>8 DEF SetVtable, Pending, Now
  <2>2. PICK vn : vn = [a \in {h.at} \cup DOMAIN vptr |-> IF a = h.at THEN h.class ELSE vptr[a]]
    OBVIOUS
  <2>3. Progress(st, t, built, gone, vn)
    BY <1>3, <1>4, <2>1, <2>2, VtableStep
  <2> QED BY <1>2, <1>5, <2>1, <2>2, <2>3, ExecuteKeeps
<1>9. CASE Use
  <2>1. h.op = "use" /\ code' = t /\ built' = built /\ gone' = gone /\ vptr' = vptr
    BY <1>3, <1>9 DEF Use, Pending
  <2>2. Progress(st, t, built, gone, vptr)
    BY <1>3, <1>4, <2>1, UseStep
  <2> QED BY <1>2, <1>5, <2>1, <2>2, ExecuteKeeps
<1>10. CASE CallDtor
  <2>1. h.op = "dtor" /\ code' = DtorCode(h.at, h.class) \o t /\ built' = built /\ gone' = gone /\ vptr' = vptr
    BY <1>3, <1>10 DEF CallDtor, Pending, Now
  <2>2. Progress(st, DtorCode(h.at, h.class) \o t, built, gone, vptr)
    BY <1>3, <1>4, <2>1, DtorStep
  <2> QED BY <1>2, <1>5, <2>1, <2>2, ExecuteKeeps
<1>11. CASE RunDtorBody
  <2>1. /\ h.op = "dtor body" /\ code' = t /\ built' = built /\ vptr' = vptr
        /\ gone' = IF program[h.class].dtor = "user" THEN Append(gone, <<h.at, h.class>>) ELSE gone
    BY <1>3, <1>11 DEF RunDtorBody, Pending, Now
  <2>2. Progress(st, t, built, IF program[h.class].dtor = "user" THEN Append(gone, <<h.at, h.class>>) ELSE gone, vptr)
    BY <1>3, <1>4, <2>1, DtorBodyStep
  <2> QED BY <1>2, <1>5, <2>1, <2>2, ExecuteKeeps
<1>12. CASE Delete
  <2>1. h.op = "delete" /\ code' = Deleted(vptr, h) \o t /\ built' = built /\ gone' = gone /\ vptr' = vptr
    BY <1>3, <1>12 DEF Delete, Deleted, Pending, Now
  <2>2. Progress(st, Deleted(vptr, h) \o t, built, gone, vptr)
    BY <1>3, <1>4, <2>1, DeleteStep
  <2> QED BY <1>2, <1>5, <2>1, <2>2, ExecuteKeeps
<1> QED BY <1>6, <1>7, <1>8, <1>9, <1>10, <1>11, <1>12

LEMMA StutterKeeps ==
  ASSUME LifeInv, UNCHANGED lifeVars
  PROVE  LifeInv'
<1>1. /\ family' = family /\ program' = program /\ object' = object /\ code' = code
      /\ built' = built /\ gone' = gone /\ vptr' = vptr
  BY DEF lifeVars
<1>2. CASE Unstarted
  <2>1. Unstarted'
    BY <1>1, <1>2 DEF Unstarted
  <2>2. family' \in Families /\ Classes(program')
    BY <1>1 DEF LifeInv
  <2> QED BY <2>1, <2>2 DEF LifeInv
<1>3. ASSUME NEW st \in Storages, Underway(st) PROVE LifeInv'
  <2>1. /\ object' = {[storage |-> st, parts |-> WholeParts(st)]} /\ Len(program) = family.classes
        /\ Progress(st, code', built', gone', vptr')
    BY <1>1, <1>3 DEF Underway
  <2> QED BY <1>1, <2>1, LifeKept
<1> QED BY <1>2, <1>3 DEF LifeInv

LEMMA LifeInvNext ==
  ASSUME TreatedAlike
  PROVE  LifeInv /\ [LifeNext]_lifeVars => LifeInv'
<1>1. SUFFICES ASSUME LifeInv, [LifeNext]_lifeVars PROVE LifeInv'
  OBVIOUS
<1>2. CASE DeclareClass
  BY <1>1, <1>2, DeclareKeeps
<1>3. CASE CreateObject
  BY <1>1, <1>3, CreateKeeps
<1>4. CASE CallCtor \/ RunCtorBody \/ SetVtable \/ Use \/ CallDtor \/ RunDtorBody \/ Delete
  BY <1>1, <1>4, CodeKeeps
<1>5. CASE UNCHANGED lifeVars
  BY <1>1, <1>5, StutterKeeps
<1> QED BY <1>1, <1>2, <1>3, <1>4, <1>5 DEF LifeNext

(* What the invariant says of a state is what the runs check.              *)
LEMMA PrefixOf ==
  ASSUME NEW T, NEW s \in Seq(T), NEW t \in Seq(T)
  PROVE  IsPrefix(s, s \o t)
BY DEF IsPrefix

LEMMA OrdersAre ==
  ASSUME NEW st, NEW o, o = [storage |-> st, parts |-> WholeParts(st)]
  PROVE  CtorOrder(o) = CtorsDue(st) /\ DtorOrder(o) = DtorsDue(st)
BY DEF CtorOrder, DtorOrder, CtorsDue, DtorsDue

LEMMA OrderHolds ==
  ASSUME LifeInv
  PROVE  LivesInOrder
<1>1. SUFFICES ASSUME NEW o \in object
               PROVE  /\ IsPrefix(built, CtorOrder(o)) /\ IsPrefix(gone, DtorOrder(o))
                      /\ code = <<>> => gone = DtorOrder(o)
  BY DEF LivesInOrder
<1>2. PICK st \in Storages : Underway(st)
  BY <1>1 DEF LifeInv, Unstarted
<1>3. o = [storage |-> st, parts |-> WholeParts(st)]
  BY <1>1, <1>2 DEF Underway
<1>4. CtorOrder(o) = CtorsDue(st) /\ DtorOrder(o) = DtorsDue(st)
  BY <1>3, OrdersAre
<1>5. /\ code \in Seq(Statement) /\ built \in Seq(Place) /\ gone \in Seq(Place)
      /\ built \o Each(BuildMap, code) = CtorsDue(st)
      /\ gone \o Each(GoneMap, code) = DtorsDue(st)
  BY <1>2 DEF Underway, Progress
<1>6. PICK b \in Seq(Place), g \in Seq(Place) : b = Each(BuildMap, code) /\ g = Each(GoneMap, code)
  <2>1. Classes(program)
    BY DEF LifeInv
  <2>2. IsMap(BuildMap, Statement, Seq(Place)) /\ IsMap(GoneMap, Statement, Seq(Place))
    BY <2>1, MapsAre
  <2>3. Each(BuildMap, code) \in Seq(Place)
    BY ONLY <1>5, <2>2, EachIn
  <2>4. Each(GoneMap, code) \in Seq(Place)
    BY ONLY <1>5, <2>2, EachIn
  <2> QED BY <2>3, <2>4
<1>7. IsPrefix(built, CtorOrder(o))
  <2>1. IsPrefix(built, built \o b)
    BY <1>5, PrefixOf
  <2> QED BY <1>4, <1>5, <1>6, <2>1
<1>8. IsPrefix(gone, DtorOrder(o))
  <2>1. IsPrefix(gone, gone \o g)
    BY <1>5, PrefixOf
  <2> QED BY <1>4, <1>5, <1>6, <2>1
<1>9. ASSUME code = <<>> PROVE gone = DtorOrder(o)
  <2>1. Each(GoneMap, code) = <<>>
    BY <1>9, EachEmpty
  <2>2. gone \o <<>> = gone
    BY <1>5, ConcatEmptySeq
  <2> QED BY <1>4, <1>5, <2>1, <2>2
<1> QED BY <1>7, <1>8, <1>9

-----------------------------------------------------------------------------
(* Every part of the whole object is one of its class, at an element.      *)
LEMMA WholePart ==
  ASSUME Classes(program), Len(program) # 0, NEW st, NEW x, Among(x, WholeParts(st))
  PROVE  \E e \in 1 .. MemberCount(ObjFields(st)[1]) : \E y \in Place :
           Among(y, program[Len(program)].parts) /\ x = <<Part(<<>>, 0, 1, e) \o y[1], y[2]>>
<1>1. PICK n \in 1 .. Len(program) : n = Len(program)
  <2>1. Len(program) \in Nat
    BY DEF Classes
  <2> QED BY <2>1
<1>2. program[n].parts \in Seq(Place) /\ PartsMap(program)[n] = program[n].parts
  BY PartsFit
<1>3. OneField(ObjFields(st), st)
  BY ObjFieldsAre
<1>4. PICK F, fs : F = PartsMap(program) /\ fs = ObjFields(st)
  OBVIOUS
<1>5. Fits(F, fs)
  BY <1>1, <1>2, <1>4, WholeIs
<1>6. Twice(GridOf(F, fs, 0)) \in Seq(MembersOf(F, fs, 0))
  <2>1. 0 \in Nat
    OBVIOUS
  <2> QED BY <1>5, <2>1, GridPlaces
<1>7. x \in MembersOf(F, fs, 0)
  <2>1. Among(x, Twice(GridOf(F, fs, 0)))
    BY <1>4 DEF WholeParts, WholeOf
  <2> QED BY <1>6, <2>1, AmongSeq
<1>8. PICK i \in 1 .. Len(fs) : \E e \in 1 .. MemberCount(fs[i]) : \E y \in Place :
        Among(y, F[fs[i].class]) /\ x = <<Part(<<>>, 0, i, e) \o y[1], y[2]>>
  BY <1>7 DEF MembersOf
<1>9. i = 1 /\ fs[i].class = n
  BY <1>1, <1>3, <1>4, <1>8 DEF OneField
<1> QED BY <1>1, <1>2, <1>4, <1>8, <1>9

(* What construction leaves at its vtable.                                 *)
WholeTable(st, x) ==
  \E w \in Nat : Leaves(FinalSets(st), x[1], w) /\ x[2] \in Ancestors[w] /\ Among(<<x[1], w>>, WholeParts(st))

LEMMA WholeTables ==
  ASSUME Classes(program), Len(program) # 0, NEW st, NEW x, Among(x, WholeParts(st)), program[x[2]].vtable
  PROVE  WholeTable(st, x)
<1>1. PICK n \in 1 .. Len(program) : n = Len(program)
  <2>1. Len(program) \in Nat
    BY DEF Classes
  <2> QED BY <2>1
<1>2. PICK e \in 1 .. MemberCount(ObjFields(st)[1]) : \E y \in Place :
        Among(y, program[n].parts) /\ x = <<Part(<<>>, 0, 1, e) \o y[1], y[2]>>
  BY <1>1, WholePart
<1>3. PICK y \in Place : Among(y, program[n].parts) /\ x = <<Part(<<>>, 0, 1, e) \o y[1], y[2]>>
  BY <1>2
<1>4. x[1] = Part(<<>>, 0, 1, e) \o y[1] /\ x[2] = y[2]
  BY <1>3
<1>5. y[1] \in Address
  BY DEF Place
<1>6. AncIs(program, Ancestors) /\ SetsAre(program, SetOf)
  BY AncestorsAre, SetsAreSo DEF SetOf
<1>7. TablesSet(program, Ancestors, SetOf, n)
  BY <1>6, TablesSetHolds
<1>8. HasTable(program, Ancestors, SetOf, n, y)
  BY <1>3, <1>4, <1>7 DEF TablesSet
<1>9. PICK w \in 1 .. n : Among(<<y[1], w>>, program[n].parts) /\ y[2] \in Ancestors[w] /\ Leaves(SetOf[n], y[1], w)
  BY <1>8 DEF HasTable
<1>10. w \in Nat
  BY <1>9
<1>11. program[n].parts \in Seq(Place) /\ PartsMap(program)[n] = program[n].parts /\ SetOf[n] \in Seq(Place)
  BY <1>6, PartsFit, SetsFit
<1>12. OneField(ObjFields(st), st)
  BY ObjFieldsAre
<1>13. PICK fs : fs = ObjFields(st) /\ fs[1].class = n /\ 1 \in 1 .. Len(fs)
  BY <1>1, <1>12 DEF OneField
<1>14. Leaves(FinalSets(st), x[1], w)
  <2>1. Fits(SetOf, fs)
    BY <1>1, <1>11, <1>13, WholeIs
  <2>2. PICK i \in 1 .. Len(fs) : i = 1
    BY <1>13
  <2>3. e \in 1 .. MemberCount(fs[i]) /\ Leaves(SetOf[fs[i].class], y[1], w) /\ 0 \in Nat
    BY <1>9, <1>13, <2>2
  <2>4. Leaves(Twice(GridOf(SetOf, fs, 0)), Part(<<>>, 0, i, e) \o y[1], w)
    BY <1>5, <2>1, <2>3, GridLeaves
  <2> QED BY <1>4, <1>13, <2>2, <2>4 DEF FinalSets, WholeOf
<1>15. Among(<<x[1], w>>, WholeParts(st))
  <2>0. PICK F : F = PartsMap(program)
    OBVIOUS
  <2>1. Fits(F, fs)
    BY <1>1, <1>11, <1>13, <2>0, WholeIs
  <2>2. PICK i \in 1 .. Len(fs) : i = 1
    BY <1>13
  <2>3. e \in 1 .. MemberCount(fs[i]) /\ Among(<<y[1], w>>, F[fs[i].class]) /\ 0 \in Nat
    BY <1>9, <1>11, <1>13, <2>0, <2>2
  <2>4. Among(<<Part(<<>>, 0, i, e) \o y[1], w>>, Twice(GridOf(F, fs, 0)))
    BY <1>5, <2>1, <2>3, GridLeaves
  <2> QED BY <1>4, <1>13, <2>0, <2>2, <2>4 DEF WholeParts, WholeOf
<1> QED BY <1>4, <1>9, <1>10, <1>14, <1>15 DEF WholeTable

LEMMA CompleteHolds ==
  ASSUME LifeInv
  PROVE  CompleteWhenUsed
<1>1. SUFFICES ASSUME NEW o \in object, Pending("use")
               PROVE  /\ built = CtorOrder(o) /\ gone = <<>>
                      /\ \A x \in Range(o.parts) : program[x[2]].vtable =>
                           /\ x[1] \in DOMAIN vptr /\ x[2] \in Ancestors[vptr[x[1]]]
                           /\ <<x[1], vptr[x[1]]>> \in Range(o.parts)
  BY DEF CompleteWhenUsed
<1>2. code # <<>>
  BY <1>1 DEF Pending
<1>3. PICK st, h, t : Executes(st, h, t)
  BY <1>2, Executing
<1>4. /\ st \in Storages /\ Underway(st) /\ Classes(program) /\ h = Head(code) /\ t = Tail(code)
      /\ Opened(st, built, gone, vptr, h, t)
  BY <1>3 DEF Executes
<1>5. o = [storage |-> st, parts |-> WholeParts(st)] /\ Len(program) = family.classes
  BY <1>1, <1>4 DEF Underway
<1>6. Len(program) # 0
  BY <1>5, ProgramAssumption DEF LifeInv
<1>7. CtorOrder(o) = CtorsDue(st)
  BY <1>5, OrdersAre
<1>8. h.op = "use" /\ HeadUse(h, t, gone)
  BY <1>1, <1>3, <1>4, HeadOps DEF Pending
<1>9. built = CtorOrder(o) /\ gone = <<>>
  <2>1. gone = <<>> /\ Each(BuildMap, t) = <<>> /\ h \in Statement
    BY <1>8 DEF HeadUse, UseSt
  <2>2. BuildMap[h] = <<>>
    BY <1>8, <2>1 DEF BuildMap
  <2>3. built \in Seq(Place) /\ built \o (BuildMap[h] \o Each(BuildMap, t)) = CtorsDue(st)
    BY <1>4 DEF Opened
  <2>4. <<>> \o <<>> = <<>> /\ built \o <<>> = built
    BY <2>3, EmptySeq, ConcatEmptySeq
  <2> QED BY <1>7, <2>1, <2>2, <2>3, <2>4
<1>10. ASSUME NEW x \in Range(o.parts), program[x[2]].vtable
       PROVE  /\ x[1] \in DOMAIN vptr /\ x[2] \in Ancestors[vptr[x[1]]]
              /\ <<x[1], vptr[x[1]]>> \in Range(o.parts)
  <2>1. PICK s \in Seq(Place) : s = o.parts /\ s = WholeParts(st)
    BY <1>4, <1>5, <1>6, DuesAre
  <2>2. \A z : z \in Range(s) <=> Among(z, s)
    <3>1. DOMAIN s = 1 .. Len(s)
      BY LenProperties
    <3> QED BY <3>1 DEF Range, Among
  <2>3. WholeTable(st, x)
    BY <1>4, <1>6, <1>10, <2>1, <2>2, WholeTables
  <2>4. PICK w : Leaves(FinalSets(st), x[1], w) /\ x[2] \in Ancestors[w] /\ Among(<<x[1], w>>, WholeParts(st))
    BY <2>3 DEF WholeTable
  <2>5. Need(FinalSets(st), h, x[1], w)
    BY <1>8, <2>4 DEF Need
  <2>6. Settled(<<>>, vptr, x[1], w)
    BY <1>4, <2>5 DEF Opened
  <2>7. x[1] \in DOMAIN vptr /\ vptr[x[1]] = w
    BY <2>6 DEF Settled, Leaves
  <2> QED BY <2>1, <2>2, <2>4, <2>7
<1> QED BY <1>9, <1>10

LEMMA VtablesHold ==
  ASSUME LifeInv
  PROVE  VtablesInCtor
<1>1. SUFFICES ASSUME Pending("ctor body")
               PROVE  /\ program[Now.class].vtable => Now.at \in DOMAIN vptr /\ vptr[Now.at] = Now.class
                      /\ \A i \in DOMAIN program[Now.class].fields :
                           LET f == program[Now.class].fields[i] IN
                           Owns(f.shape) /\ program[f.class].vtable =>
                             \A e \in 1 .. Elements(f.shape) :
                               /\ Part(Now.at, Now.class, i, e) \in DOMAIN vptr
                               /\ vptr[Part(Now.at, Now.class, i, e)] = f.class
  BY DEF VtablesInCtor
<1>2. code # <<>>
  BY <1>1 DEF Pending
<1>3. PICK st, h, t : Executes(st, h, t)
  BY <1>2, Executing
<1>4. Classes(program) /\ h = Head(code) /\ Opened(st, built, gone, vptr, h, t)
  BY <1>3 DEF Executes
<1>5. h.op = "ctor body" /\ h = Now
  BY <1>1, <1>4 DEF Pending, Now
<1>6. HeadCtor(h, t, gone)
  BY <1>3, <1>5, HeadOps
<1>7. h.class \in 1 .. Len(program)
  BY <1>6 DEF HeadCtor, CtorSt
<1>8. \A a, v : Need(FinalSets(st), h, a, v) => a \in DOMAIN vptr /\ vptr[a] = v
  <2>1. \A a, v : Settled(<<>>, vptr, a, v) => a \in DOMAIN vptr /\ vptr[a] = v
    BY DEF Settled, Leaves
  <2>2. \A a, v : Need(FinalSets(st), h, a, v) => Settled(<<>>, vptr, a, v)
    BY <1>4 DEF Opened
  <2> QED BY <2>1, <2>2
<1>9. ASSUME program[h.class].vtable PROVE h.at \in DOMAIN vptr /\ vptr[h.at] = h.class
  <2>1. Need(FinalSets(st), h, h.at, h.class)
    BY <1>5, <1>9 DEF Need
  <2> QED BY <1>8, <2>1
<1>10. ASSUME NEW i \in DOMAIN program[h.class].fields, NEW f, f = program[h.class].fields[i],
              Owns(f.shape), program[f.class].vtable, NEW e \in 1 .. Elements(f.shape)
       PROVE  Part(h.at, h.class, i, e) \in DOMAIN vptr /\ vptr[Part(h.at, h.class, i, e)] = f.class
  <2>1. i \in 1 .. Len(program[h.class].fields)
    <3>1. program[h.class].fields \in Seq(FieldsBelow(h.class))
      BY <1>4, <1>7, ClassIs DEF ClassTyped
    <3> QED BY <3>1, LenProperties
  <2>2. e \in 1 .. MemberCount(program[h.class].fields[i])
    BY <1>10 DEF MemberCount
  <2>3. MemberNeed(h, Part(h.at, h.class, i, e), f.class)
    BY <1>10, <2>1, <2>2 DEF MemberNeed
  <2>4. Need(FinalSets(st), h, Part(h.at, h.class, i, e), f.class)
    BY <1>5, <2>3 DEF Need
  <2> QED BY <1>8, <2>4
<1> QED BY <1>5, <1>9, <1>10, ZenonT(40)

-----------------------------------------------------------------------------
(* The invariant holds in every state.                                     *)
LEMMA LifeInvAlways == TreatedAlike /\ LifeSpec => []LifeInv
<1>1. SUFFICES ASSUME TreatedAlike PROVE LifeSpec => []LifeInv
  OBVIOUS
<1>2. LifeInv /\ [LifeNext]_lifeVars => LifeInv'
  BY <1>1, LifeInvNext
<1> QED BY <1>2, LifeInvInit, PTL DEF LifeSpec

(* LivesInOrder, for programs of any size: constructors and destructors    *)
(* run on the parts that C++ has, each once, in its order, and all.        *)
THEOREM LivesInOrderAlways == TreatedAlike /\ LifeSpec => []LivesInOrder
<1>1. LifeInv => LivesInOrder
  BY OrderHolds
<1> QED BY <1>1, LifeInvAlways, PTL

(* CompleteWhenUsed: the program gets an object whose constructors have    *)
(* all run, with the vtable of its complete class in every part.           *)
THEOREM CompleteWhenUsedAlways == TreatedAlike /\ LifeSpec => []CompleteWhenUsed
<1>1. LifeInv => CompleteWhenUsed
  BY CompleteHolds
<1> QED BY <1>1, LifeInvAlways, PTL

(* VtablesInCtor: in a constructor's body the object has the vtable of the *)
(* constructor's class, and its members have theirs.                       *)
THEOREM VtablesInCtorAlways == TreatedAlike /\ LifeSpec => []VtablesInCtor
<1>1. LifeInv => VtablesInCtor
  BY VtablesHold
<1> QED BY <1>1, LifeInvAlways, PTL
=============================================================================
