-------------------------- MODULE Compiler_proofs --------------------------
(***************************************************************************)
(* Three of the compiler's tables, which grow and shrink with the source:  *)
(* the slots of the vtables, the flags of the open #if groups, and the     *)
(* chain of the locals that are alive.                                     *)
(*                                                                         *)
(* Whatever classes a program declares, in whatever order and with         *)
(* whatever specifiers, a call through any base class reaches the method   *)
(* that C++ says, and `override` and `final` are refused exactly when C++  *)
(* refuses them.                                                           *)
(*                                                                         *)
(* The four flags that prescan.c keeps for a group of #if branches are     *)
(* enough: however the directives of a file follow one another and however *)
(* deep its groups nest, a line is compiled exactly when every group       *)
(* around it is in the first of its branches whose condition holds.        *)
(*                                                                         *)
(* Phase 9 of lower.c destroys what is alive and nothing else, for every   *)
(* function body: however many locals it declares and however deep its     *)
(* statements nest.  The bodies are those without the one construct that   *)
(* phase 7 leaves alone, a class with a constructor declared directly in a *)
(* switch.                                                                 *)
(***************************************************************************)
EXTENDS DestructScope, Vtables, CondStack, SequenceTheorems, TLAPS

VtTypeOK ==
  /\ open \in Class \cup {NoClass}
  /\ line \in [Class -> SUBSET Class]
  /\ methods \in [Class -> SUBSET Key]
  /\ written \subseteq Method /\ isVirtual \subseteq Method
  /\ overrides \subseteq Method /\ finals \subseteq Method
  /\ sealed \subseteq Known
  /\ vtable \in [Class -> Seq(Slot)]
  /\ refused \in BOOLEAN

(* The classes above a known class are known and stand in a row; nothing   *)
(* derives from the class that is being gone through.                      *)
Lines ==
  /\ \A c \in Class : line[c] # {} => c \in line[c]
  /\ \A c \in Class : \A p \in line[c] : p \in line[p] /\ line[p] \subseteq line[c]
  /\ \A c \in Class : \A p \in line[c] : c \in line[p] => p = c
  /\ \A c \in Class : \A p, q \in line[c] : p \in line[q] \/ q \in line[p]
  /\ \A c \in Class : open \in line[c] => c = open
  /\ open # NoClass => line[open] # {}

(* What is said of a method is said of one that is declared.               *)
DeclaredIn ==
  /\ \A c \in Class : line[c] = {} => methods[c] = {} /\ vtable[c] = <<>>
  /\ \A m \in written \cup overrides \cup finals : m[2] \in methods[m[1]]

(* A slot holds the nearest method of its key, and a virtual one.          *)
SlotRight(c, s) == Nearest(c, s.key, s.owner) /\ CppVirtual(s.owner, s.key)

SlotsRight ==
  /\ \A c \in Class : \A i \in DOMAIN vtable[c] : SlotRight(c, vtable[c][i])
  /\ \A c \in Class : \A i, j \in DOMAIN vtable[c] : vtable[c][i].key = vtable[c][j].key => i = j

(* The slots of a base are the first of the slots of what derives from it. *)
SlotsAgree ==
  \A c \in Class : \A p \in line[c] : \A i \in DOMAIN vtable[p] :
    i \in DOMAIN vtable[c] /\ vtable[p][i].key = vtable[c][i].key

(* Every virtual method of a class and its bases has a slot.               *)
SlotsComplete ==
  \A c \in Class : \A o \in line[c] : \A k \in methods[o] :
    CppVirtual(o, k) => \E i \in DOMAIN vtable[c] : vtable[c][i].key = k

VirtualIsMarked ==
  \A o \in Class, k \in Key : <<o, k>> \in isVirtual <=> k \in methods[o] /\ CppVirtual(o, k)

VtInv ==
  /\ VtTypeOK /\ Lines /\ DeclaredIn
  /\ SlotsRight /\ SlotsAgree /\ SlotsComplete /\ VirtualIsMarked
  /\ refused <=> IllFormed

(* Of the methods of a key there is one that is nearest.                   *)
LEMMA NearestIsOne ==
  ASSUME VtTypeOK, Lines, NEW c \in Class, NEW k, NEW o, NEW p, Nearest(c, k, o), Nearest(c, k, p)
  PROVE  o = p
BY DEF Nearest, Lines, VtTypeOK

(* What the invariant says of a call.                                      *)
LEMMA CallsArrive ==
  ASSUME VtInv, NEW d \in Known, NEW k \in Key, NEW s \in line[d], NEW o \in line[d], Nearest(s, k, o)
  PROVE  IF CppVirtual(o, k) THEN Nearest(d, k, Called(d, s, o, k)) ELSE Called(d, s, o, k) = o
<1>1. d \in Class /\ s \in Class /\ o \in Class /\ o \in line[s] /\ k \in methods[o]
  BY DEF VtInv, VtTypeOK, Known, Nearest
<1>2. CASE ~CppVirtual(o, k)
  BY <1>1, <1>2 DEF VtInv, VirtualIsMarked, Called
<1>3. CASE CppVirtual(o, k)
  <2>1. <<o, k>> \in isVirtual
    BY <1>1, <1>3 DEF VtInv, VirtualIsMarked
  <2>2. PICK j \in DOMAIN vtable[s] : vtable[s][j].key = k
    BY <1>1, <1>3 DEF VtInv, SlotsComplete
  <2>3. vtable[s][j] \in Slot
    BY <1>1, <2>2 DEF VtInv, VtTypeOK
  <2>4. vtable[s][j].owner = o
    <3>1. Nearest(s, k, vtable[s][j].owner)
      BY <1>1, <2>2 DEF VtInv, SlotsRight, SlotRight
    <3> QED BY <1>1, <3>1, NearestIsOne DEF VtInv
  <2>5. vtable[s][j] = [key |-> k, owner |-> o]
    BY <2>2, <2>3, <2>4 DEF Slot
  <2> DEFINE i == CHOOSE n \in DOMAIN vtable[s] : vtable[s][n] = [key |-> k, owner |-> o]
  <2>6. i \in DOMAIN vtable[s] /\ vtable[s][i] = [key |-> k, owner |-> o]
    BY <2>5
  <2> HIDE DEF i
  <2>7. i \in DOMAIN vtable[d] /\ vtable[d][i].key = k
    BY <1>1, <2>6 DEF VtInv, SlotsAgree
  <2>8. Called(d, s, o, k) = vtable[d][i].owner
    BY <2>1 DEF Called, i
  <2>9. Nearest(d, k, vtable[d][i].owner)
    BY <1>1, <2>7 DEF VtInv, SlotsRight, SlotRight
  <2> QED BY <1>3, <2>8, <2>9
<1> QED BY <1>2, <1>3

LEMMA VtInvHolds == VtInv => VtablesAsC
BY CallsArrive DEF VtablesAsC, VtInv, Known
-----------------------------------------------------------------------------
LEMMA InitInv == ClassInit => VtInv
<1> SUFFICES ASSUME ClassInit PROVE VtInv
  OBVIOUS
<1> USE DEF ClassInit
<1>1. VtTypeOK
  <2>1. vtable \in [Class -> Seq(Slot)]
    BY EmptySeq
  <2>2. line \in [Class -> SUBSET Class] /\ methods \in [Class -> SUBSET Key]
    OBVIOUS
  <2> QED BY <2>1, <2>2 DEF VtTypeOK, Known
<1>2. Lines /\ DeclaredIn
  BY VtablesNoClass DEF Lines, DeclaredIn
<1>3. SlotsRight /\ SlotsAgree /\ SlotsComplete /\ VirtualIsMarked
  BY DEF SlotsRight, SlotsAgree, SlotsComplete, VirtualIsMarked
<1>4. refused <=> IllFormed
  BY DEF IllFormed
<1> QED BY <1>1, <1>2, <1>3, <1>4 DEF VtInv

LEMMA EndKeeps == ASSUME VtInv, EndClass PROVE VtInv'
<1> USE DEF EndClass, VtInv
<1>1. VtTypeOK'
  BY DEF VtTypeOK, Known
<1>2. Lines' /\ DeclaredIn'
  BY VtablesNoClass DEF Lines, DeclaredIn, VtTypeOK
<1>3. SlotsRight'
  BY DEF SlotsRight, SlotRight, Nearest, CppVirtual
<1>4. SlotsAgree'
  BY DEF SlotsAgree
<1>5. SlotsComplete' /\ VirtualIsMarked'
  BY DEF SlotsComplete, VirtualIsMarked, CppVirtual
<1>6. (refused <=> IllFormed)'
  BY DEF IllFormed, CppVirtual
<1> QED BY <1>1, <1>2, <1>3, <1>4, <1>5, <1>6

(* A class that is new: nothing is known of it and it is in nobody's line. *)
LEMMA BeginKeeps ==
  ASSUME VtInv, NEW c \in Class, NEW b \in Known \cup {NoClass}, NEW f \in BOOLEAN, BeginClass(c, b, f)
  PROVE  VtInv'
<1> DEFINE above == IF b = NoClass THEN {} ELSE line[b]
<1>1. /\ open = NoClass /\ open' = c /\ line[c] = {}
      /\ line' = [line EXCEPT ![c] = {c} \cup above]
      /\ vtable' = [vtable EXCEPT ![c] = IF b = NoClass THEN <<>> ELSE vtable[b]]
      /\ methods' = methods /\ written' = written /\ isVirtual' = isVirtual
      /\ overrides' = overrides /\ finals' = finals
      /\ sealed' = (IF f THEN sealed \cup {c} ELSE sealed)
      /\ refused' = (refused \/ (b # NoClass /\ DerivesFrom(b)))
  BY DEF BeginClass
<1>2. b # NoClass => b \in Class /\ line[b] # {} /\ b \in line[b] /\ b # c
  BY <1>1 DEF Known, VtInv, Lines
<1>3. \A x \in Class : c \notin line[x]
  BY <1>1 DEF VtInv, Lines
<1>4. above \subseteq Class /\ (\A p \in above : line[p] \subseteq above /\ p \in line[p])
  BY <1>2 DEF VtInv, Lines, VtTypeOK
<1>5. line'[c] = {c} \cup above /\ \A x \in Class \ {c} : line'[x] = line[x] /\ vtable'[x] = vtable[x]
  BY <1>1 DEF VtInv, VtTypeOK
<1>6. methods[c] = {} /\ vtable'[c] = (IF b = NoClass THEN <<>> ELSE vtable[b])
  BY <1>1 DEF VtInv, DeclaredIn, VtTypeOK
<1>7. c \notin above
  BY <1>2, <1>3
<1> HIDE DEF above
<1>8. VtTypeOK'
  <2>1. line' \in [Class -> SUBSET Class]
    BY <1>1, <1>4 DEF VtInv, VtTypeOK
  <2>2. vtable' \in [Class -> Seq(Slot)]
    BY <1>1, <1>2 DEF VtInv, VtTypeOK
  <2>3. sealed' \subseteq Known'
    BY <1>1, <1>5 DEF VtInv, VtTypeOK, Known
  <2>4. refused' \in BOOLEAN
    BY <1>1 DEF VtInv, VtTypeOK
  <2> QED BY <1>1, <2>1, <2>2, <2>3, <2>4 DEF VtInv, VtTypeOK
<1>9. Lines'
  <2>1. \A x \in Class : line'[x] # {} => x \in line'[x]
    BY <1>5 DEF VtInv, Lines
  <2>2. \A x \in Class : \A p \in line'[x] : p \in line'[p] /\ line'[p] \subseteq line'[x]
    BY <1>3, <1>4, <1>5, <1>7 DEF VtInv, Lines, VtTypeOK
  <2>3. \A x \in Class : \A p \in line'[x] : x \in line'[p] => p = x
    BY <1>3, <1>4, <1>5, <1>7 DEF VtInv, Lines, VtTypeOK
  <2>4. \A x \in Class : \A p, q \in line'[x] : p \in line'[q] \/ q \in line'[p]
    <3>1. \A p, q \in above : p \in line[q] \/ q \in line[p]
      BY <1>2 DEF above, VtInv, Lines
    <3> QED BY <3>1, <1>3, <1>4, <1>5, <1>7 DEF VtInv, Lines, VtTypeOK
  <2>5. \A x \in Class : open' \in line'[x] => x = open'
    BY <1>1, <1>3, <1>5
  <2> QED BY <1>1, <1>5, <2>1, <2>2, <2>3, <2>4, <2>5 DEF Lines
<1>10. DeclaredIn'
  BY <1>1, <1>5 DEF VtInv, DeclaredIn
<1>11. \A x \in Class : \A k : CppVirtual(x, k)' <=> IF x = c THEN \E a \in above : <<a, k>> \in written ELSE CppVirtual(x, k)
  <2>1. \A k : <<c, k>> \notin written
    BY <1>6 DEF VtInv, DeclaredIn
  <2> QED BY <1>1, <1>5, <2>1 DEF CppVirtual
<1>12. \A x \in Class \ {c} : \A k, o : Nearest(x, k, o)' <=> Nearest(x, k, o)
  BY <1>1, <1>3, <1>5 DEF Nearest, VtInv, VtTypeOK
<1>13. b # NoClass => \A k, o : Nearest(c, k, o)' <=> Nearest(b, k, o)
  <2>1. b # NoClass => above = line[b]
    BY DEF above
  <2> QED BY <1>1, <1>2, <1>3, <1>5, <1>6, <2>1 DEF Nearest, VtInv, VtTypeOK
<1>14. SlotsRight'
  <2>1. ASSUME NEW x \in Class, NEW i \in DOMAIN vtable'[x] PROVE SlotRight(x, vtable[x][i])'
    <3>1. CASE x # c
      <4>1. i \in DOMAIN vtable[x] /\ vtable'[x][i] = vtable[x][i] /\ SlotRight(x, vtable[x][i])
        BY <1>5, <2>1, <3>1 DEF VtInv, SlotsRight
      <4>2. vtable[x][i].owner \in Class /\ vtable[x][i].owner # c
        BY <1>3, <4>1 DEF SlotRight, Nearest, VtInv, VtTypeOK
      <4> QED BY <1>11, <1>12, <3>1, <4>1, <4>2 DEF SlotRight
    <3>2. CASE x = c
      <4>1. b # NoClass /\ i \in DOMAIN vtable[b] /\ vtable'[x][i] = vtable[b][i] /\ SlotRight(b, vtable[b][i])
        BY <1>2, <1>6, <2>1, <3>2 DEF VtInv, SlotsRight
      <4>2. vtable[b][i].owner \in Class /\ vtable[b][i].owner # c
        BY <1>2, <1>3, <4>1 DEF SlotRight, Nearest, VtInv, VtTypeOK
      <4> QED BY <1>11, <1>13, <3>2, <4>1, <4>2 DEF SlotRight
    <3> QED BY <3>1, <3>2
  <2>2. \A x \in Class : \A i, j \in DOMAIN vtable'[x] : vtable'[x][i].key = vtable'[x][j].key => i = j
    BY <1>2, <1>5, <1>6 DEF VtInv, SlotsRight
  <2> QED BY <2>1, <2>2 DEF SlotsRight
<1>15. SlotsAgree'
  <2>1. b # NoClass => \A p \in above : \A i \in DOMAIN vtable[p] : i \in DOMAIN vtable[b] /\ vtable[p][i].key = vtable[b][i].key
    BY <1>2 DEF above, VtInv, SlotsAgree
  <2>2. b = NoClass => above = {}
    BY DEF above
  <2>3. ASSUME NEW x \in Class, NEW p \in line'[x], NEW i \in DOMAIN vtable'[p]
        PROVE  i \in DOMAIN vtable'[x] /\ vtable'[p][i].key = vtable'[x][i].key
    <3>1. CASE x # c
      <4>1. p \in line[x] /\ p # c /\ p \in Class
        BY <1>3, <1>5, <2>3, <3>1 DEF VtInv, VtTypeOK
      <4> QED BY <1>5, <2>3, <3>1, <4>1 DEF VtInv, SlotsAgree
    <3>2. CASE x = c /\ p = c
      BY <2>3, <3>2
    <3>3. CASE x = c /\ p # c
      <4>1. p \in above /\ p \in Class /\ b # NoClass
        BY <1>4, <1>5, <2>2, <2>3, <3>3
      <4> QED BY <1>5, <1>6, <2>1, <2>3, <3>3, <4>1
    <3> QED BY <3>1, <3>2, <3>3
  <2> QED BY <2>3 DEF SlotsAgree
<1>16. SlotsComplete'
  <2>1. ASSUME NEW x \in Class, NEW o \in line'[x], NEW k \in methods'[o], CppVirtual(o, k)'
        PROVE  \E i \in DOMAIN vtable'[x] : vtable'[x][i].key = k
    <3>1. o # c /\ o \in Class
      BY <1>1, <1>4, <1>5, <1>6, <2>1 DEF VtInv, VtTypeOK
    <3>2. CppVirtual(o, k)
      BY <1>11, <2>1, <3>1
    <3>3. CASE x # c
      BY <1>1, <1>5, <2>1, <3>2, <3>3 DEF VtInv, SlotsComplete
    <3>4. CASE x = c
      <4>1. b # NoClass /\ o \in line[b]
        BY <1>5, <2>1, <3>1, <3>4 DEF above
      <4> QED BY <1>1, <1>2, <1>6, <2>1, <3>2, <3>4, <4>1 DEF VtInv, SlotsComplete
    <3> QED BY <3>3, <3>4
  <2> QED BY <2>1 DEF SlotsComplete
<1>17. VirtualIsMarked'
  BY <1>1, <1>6, <1>11 DEF VtInv, VirtualIsMarked
<1>18. (refused <=> IllFormed)'
  <2>1. \A m \in overrides \cup finals : m[1] \in Class /\ m[1] # c
    BY <1>6 DEF VtInv, DeclaredIn, VtTypeOK, Method
  <2>2. c \notin sealed
    BY <1>1 DEF VtInv, VtTypeOK, Known
  <2>3. \A m \in overrides : (\E a \in line'[m[1]] \ {m[1]} : m[2] \in methods'[a] /\ CppVirtual(a, m[2])')
                           <=> (\E a \in line[m[1]] \ {m[1]} : m[2] \in methods[a] /\ CppVirtual(a, m[2]))
    BY <1>1, <1>3, <1>5, <1>11, <2>1 DEF VtInv, VtTypeOK
  <2>4. \A m \in finals : CppVirtual(m[1], m[2])' <=> CppVirtual(m[1], m[2])
    BY <1>11, <2>1
  <2>5. \A m \in finals : (\E x \in Class : x # m[1] /\ m[1] \in line'[x] /\ m[2] \in methods'[x])
                        <=> (\E x \in Class : x # m[1] /\ m[1] \in line[x] /\ m[2] \in methods[x])
    BY <1>1, <1>5, <1>6, <2>1
  <2>6. (\E s \in sealed', x \in Class : x # s /\ s \in line'[x])
          <=> (\E s \in sealed, x \in Class : x # s /\ s \in line[x]) \/ (\E s \in sealed : s \in above)
    <3>1. sealed \subseteq Class
      BY DEF VtInv, VtTypeOK, Known
    <3> QED BY <1>1, <1>3, <1>5, <1>7, <2>2, <3>1
  <2>7. (\E s \in sealed : s \in above) <=>
          (b # NoClass /\ b \in sealed) \/ (\E s \in sealed : b # NoClass /\ s # b /\ s \in line[b])
    BY <1>2 DEF above
  <2>8. (\E s \in sealed : b # NoClass /\ s # b /\ s \in line[b]) => IllFormed
    BY <1>2 DEF IllFormed
  <2>9. IllFormed' <=> IllFormed \/ (b # NoClass /\ b \in sealed)
    BY <1>1, <2>3, <2>4, <2>5, <2>6, <2>7, <2>8 DEF IllFormed
  <2> QED BY <1>1, <2>9 DEF VtInv, DerivesFrom
<1> QED BY <1>8, <1>9, <1>10, <1>14, <1>15, <1>16, <1>17, <1>18 DEF VtInv
(* A method of the class that is open.  What it overrides has a slot, if   *)
(* anything it overrides is virtual.                                       *)
LEMMA DeclareKeeps ==
  ASSUME VtInv, NEW k \in Key, NEW v \in BOOLEAN, NEW o \in BOOLEAN, NEW f \in BOOLEAN,
         DeclareMethod(k, v, o, f)
  PROVE  VtInv'
<1> DEFINE c == open
           slots == SlotsFor(c, k)
           me == [key |-> k, owner |-> c]
<1>1. /\ c \in Class /\ k \notin methods[c] /\ c \in line[c]
      /\ open' = open /\ line' = line /\ sealed' = sealed
      /\ methods' = [methods EXCEPT ![c] = @ \cup {k}]
      /\ written' = (IF v THEN written \cup {<<c, k>>} ELSE written)
      /\ overrides' = (IF o THEN overrides \cup {<<c, k>>} ELSE overrides)
      /\ finals' = (IF f THEN finals \cup {<<c, k>>} ELSE finals)
      /\ isVirtual' = (IF v \/ slots # {} THEN isVirtual \cup {<<c, k>>} ELSE isVirtual)
      /\ vtable' = [vtable EXCEPT ![c] = Filled(c, k, v)]
      /\ refused' = (refused \/ Misdeclared(c, k, v, o, f))
  BY DEF DeclareMethod, VtInv, VtTypeOK, Lines
<1>2. slots \subseteq DOMAIN vtable[c] /\ \A i \in DOMAIN vtable[c] : i \in slots <=> vtable[c][i].key = k
  BY DEF SlotsFor
<1>3. slots # {} <=> \E a \in line[c] \ {c} : k \in methods[a] /\ CppVirtual(a, k)
  <2>1. ASSUME NEW i \in slots PROVE \E a \in line[c] \ {c} : k \in methods[a] /\ CppVirtual(a, k)
    BY <1>1, <1>2, <2>1 DEF VtInv, SlotsRight, SlotRight, Nearest
  <2>2. ASSUME NEW a \in line[c] \ {c}, k \in methods[a], CppVirtual(a, k) PROVE slots # {}
    BY <1>1, <1>2, <2>2 DEF VtInv, SlotsComplete
  <2> QED BY <2>1, <2>2
<1>4. \A x \in Class : c \in line[x] => x = c
  BY DEF VtInv, Lines
<1>5. \A x \in Class : methods'[x] = IF x = c THEN methods[c] \cup {k} ELSE methods[x]
  BY <1>1 DEF VtInv, VtTypeOK
<1>6. \A x \in Class : \A q : CppVirtual(x, q)' <=> CppVirtual(x, q) \/ (x = c /\ q = k /\ v)
  BY <1>1, <1>4 DEF CppVirtual
<1>7. CppVirtual(c, k) <=> slots # {}
  <2>1. \A a \in line[c] : <<a, k>> \in written => k \in methods[a] /\ a # c /\ CppVirtual(a, k)
    BY <1>1 DEF VtInv, DeclaredIn, Lines, CppVirtual
  <2>2. \A a \in line[c] : CppVirtual(a, k) => CppVirtual(c, k)
    BY <1>1 DEF VtInv, Lines, CppVirtual
  <2> QED BY <1>3, <2>1, <2>2 DEF CppVirtual
<1> DEFINE filled == Filled(c, k, v)
<1>21. vtable' = [vtable EXCEPT ![c] = filled]
  BY <1>1
<1>8. \A x \in Class : vtable'[x] = IF x = c THEN filled ELSE vtable[x]
  BY <1>1 DEF VtInv, VtTypeOK
<1>9. vtable[c] \in Seq(Slot) /\ me \in Slot
  BY <1>1 DEF VtInv, VtTypeOK, Slot
(* The slots afterwards: the old ones in their places, one of k at most,   *)
(* and one exactly when the method is virtual.                             *)
<1>10. /\ filled \in Seq(Slot)
       /\ \A i \in DOMAIN vtable[c] : i \in DOMAIN filled /\ filled[i].key = vtable[c][i].key
       /\ \A i \in DOMAIN filled : \/ filled[i] = me /\ (v \/ slots # {})
                                   \/ i \in DOMAIN vtable[c] /\ filled[i] = vtable[c][i] /\ vtable[c][i].key # k
       /\ v \/ slots # {} => \E i \in DOMAIN filled : filled[i].key = k
       /\ \A i, j \in DOMAIN filled : filled[i].key = filled[j].key => i = j
  <2>0. \A i, j \in DOMAIN vtable[c] : vtable[c][i].key = vtable[c][j].key => i = j
    BY <1>1 DEF VtInv, SlotsRight
  <2>1. CASE slots # {}
    <3>1. filled = [i \in DOMAIN vtable[c] |-> IF i \in slots THEN me ELSE vtable[c][i]]
      BY <2>1 DEF Filled
    <3>2. filled \in Seq(Slot) /\ DOMAIN filled = DOMAIN vtable[c]
      BY <1>9, <3>1
    <3> HIDE DEF filled
    <3>3. \A i \in DOMAIN filled : filled[i] = IF i \in slots THEN me ELSE vtable[c][i]
      BY <3>1, <3>2
    <3>4. \A i \in DOMAIN filled : filled[i].key = vtable[c][i].key
      BY <1>2, <3>2, <3>3
    <3>5. \E i \in DOMAIN filled : filled[i].key = k
      BY <1>2, <2>1, <3>2, <3>4
    <3>6. \A i \in DOMAIN filled : i \notin slots => vtable[c][i].key # k
      BY <1>2, <3>2
    <3> HIDE DEF me, slots
    <3>7. \A i, j \in DOMAIN filled : filled[i].key = filled[j].key => i = j
      BY <2>0, <3>2, <3>4
    <3>8. \A i \in DOMAIN vtable[c] : i \in DOMAIN filled /\ filled[i].key = vtable[c][i].key
      BY <3>2, <3>4
    <3>9. \A i \in DOMAIN filled : \/ filled[i] = me /\ (v \/ slots # {})
                                   \/ i \in DOMAIN vtable[c] /\ filled[i] = vtable[c][i] /\ vtable[c][i].key # k
      BY <2>1, <3>2, <3>3, <3>6
    <3> QED BY <3>2, <3>5, <3>7, <3>8, <3>9
  <2>2. CASE slots = {} /\ v
    <3>1. filled = Append(vtable[c], me)
      BY <2>2 DEF Filled
    <3>2. filled \in Seq(Slot) /\ DOMAIN filled = DOMAIN vtable[c] \cup {Len(vtable[c]) + 1}
      BY <1>9, <3>1
    <3>3. filled[Len(vtable[c]) + 1] = me /\ Len(vtable[c]) + 1 \notin DOMAIN vtable[c]
      BY <1>9, <3>1
    <3>4. \A i \in DOMAIN vtable[c] : filled[i] = vtable[c][i]
      BY <1>9, <3>1
    <3> HIDE DEF filled
    <3>5. \A i \in DOMAIN vtable[c] : filled[i].key # k /\ vtable[c][i].key # k
      BY <1>2, <2>2, <3>4
    <3>6. \A i \in DOMAIN filled : filled[i] = me \/ (i \in DOMAIN vtable[c] /\ filled[i] = vtable[c][i] /\ vtable[c][i].key # k)
      BY <3>2, <3>3, <3>4, <3>5
    <3>7. \A i, j \in DOMAIN filled : filled[i].key = filled[j].key => i = j
      BY <2>0, <3>2, <3>3, <3>4, <3>5
    <3>8. \A i \in DOMAIN vtable[c] : i \in DOMAIN filled /\ filled[i].key = vtable[c][i].key
      BY <3>2, <3>4
    <3>9. \E i \in DOMAIN filled : filled[i].key = k
      BY <3>2, <3>3
    <3>10. \A i \in DOMAIN filled : \/ filled[i] = me /\ (v \/ slots # {})
                                    \/ i \in DOMAIN vtable[c] /\ filled[i] = vtable[c][i] /\ vtable[c][i].key # k
      BY <2>2, <3>6
    <3> HIDE DEF me, slots
    <3> QED BY <3>2, <3>7, <3>8, <3>9, <3>10
  <2>3. CASE slots = {} /\ ~v
    <3>1. filled = vtable[c]
      BY <2>3 DEF Filled
    <3> QED BY <1>2, <1>9, <2>0, <2>3, <3>1
  <2> QED BY <2>1, <2>2, <2>3
<1> HIDE DEF filled, slots
<1>11. \A x \in Class : \A q, p : (x # c \/ q # k) => (Nearest(x, q, p)' <=> Nearest(x, q, p))
  BY <1>1, <1>4, <1>5 DEF Nearest, VtInv, VtTypeOK
<1>12. Nearest(c, k, c)'
  BY <1>1, <1>5 DEF Nearest
<1>13. VtTypeOK'
  <2>1. methods' \in [Class -> SUBSET Key] /\ vtable' \in [Class -> Seq(Slot)]
    BY <1>1, <1>10, <1>21 DEF VtInv, VtTypeOK
  <2>2. <<c, k>> \in Method
    BY <1>1 DEF Method
  <2> QED BY <1>1, <2>1, <2>2 DEF VtInv, VtTypeOK, Known
<1>14. Lines'
  BY <1>1 DEF VtInv, Lines
<1>15. DeclaredIn'
  BY <1>1, <1>5, <1>8 DEF VtInv, VtTypeOK, DeclaredIn, Method
<1>16. SlotsRight'
  <2>1. ASSUME NEW x \in Class, NEW i \in DOMAIN vtable'[x] PROVE SlotRight(x, vtable[x][i])'
    <3>1. CASE x # c
      <4>1. SlotRight(x, vtable[x][i]) /\ vtable'[x][i] = vtable[x][i] /\ vtable[x][i].owner \in Class
        BY <1>8, <2>1, <3>1 DEF VtInv, VtTypeOK, SlotsRight, SlotRight, Nearest
      <4> QED BY <1>6, <1>11, <3>1, <4>1 DEF SlotRight
    <3>2. CASE x = c /\ vtable'[x][i] = me /\ (v \/ slots # {})
      BY <1>1, <1>6, <1>7, <1>12, <3>2 DEF SlotRight
    <3>3. CASE x = c /\ i \in DOMAIN vtable[c] /\ vtable'[x][i] = vtable[c][i] /\ vtable[c][i].key # k
      <4>1. SlotRight(c, vtable[c][i]) /\ vtable[c][i].owner \in Class
        BY <1>1, <3>3 DEF VtInv, VtTypeOK, SlotsRight, SlotRight, Nearest
      <4> QED BY <1>1, <1>6, <1>11, <3>3, <4>1 DEF SlotRight
    <3> QED BY <1>8, <1>10, <2>1, <3>1, <3>2, <3>3
  <2>2. \A x \in Class : \A i, j \in DOMAIN vtable'[x] : vtable'[x][i].key = vtable'[x][j].key => i = j
    BY <1>8, <1>10 DEF VtInv, SlotsRight
  <2> QED BY <2>1, <2>2 DEF SlotsRight
<1>17. SlotsAgree'
  <2>1. ASSUME NEW x \in Class, NEW p \in line[x], NEW i \in DOMAIN vtable'[p]
        PROVE  i \in DOMAIN vtable'[x] /\ vtable'[p][i].key = vtable'[x][i].key
    <3>1. CASE x # c
      <4>1. p \in Class /\ p # c
        BY <1>4, <2>1, <3>1 DEF VtInv, VtTypeOK
      <4>2. vtable'[p] = vtable[p] /\ vtable'[x] = vtable[x]
        BY <1>8, <3>1, <4>1
      <4> QED BY <2>1, <4>2 DEF VtInv, SlotsAgree
    <3>2. CASE x = c /\ p # c
      BY <1>8, <1>10, <2>1, <3>2 DEF VtInv, VtTypeOK, SlotsAgree
    <3>3. CASE x = c /\ p = c
      BY <2>1, <3>3
    <3> QED BY <3>1, <3>2, <3>3
  <2> QED BY <1>1, <2>1 DEF SlotsAgree
<1>18. SlotsComplete'
  <2>1. ASSUME NEW x \in Class, NEW p \in line[x], NEW q \in methods'[p], CppVirtual(p, q)'
        PROVE  \E i \in DOMAIN vtable'[x] : vtable'[x][i].key = q
    <3>0. p \in Class
      BY <2>1 DEF VtInv, VtTypeOK
    <3>1. CASE p = c /\ q = k
      BY <1>4, <1>6, <1>7, <1>8, <1>10, <2>1, <3>1
    <3>2. CASE ~(p = c /\ q = k)
      <4>1. q \in methods[p] /\ CppVirtual(p, q)
        BY <1>5, <1>6, <2>1, <3>0, <3>2
      <4>2. PICK i \in DOMAIN vtable[x] : vtable[x][i].key = q
        BY <2>1, <4>1 DEF VtInv, SlotsComplete
      <4> QED BY <1>8, <1>10, <4>2
    <3> QED BY <3>1, <3>2
  <2> QED BY <1>1, <2>1 DEF SlotsComplete
<1>19. VirtualIsMarked'
  <2>1. \A p \in Class, q \in Key : <<p, q>> \in isVirtual' <=> <<p, q>> \in isVirtual \/ (p = c /\ q = k /\ (v \/ slots # {}))
    BY <1>1
  <2>2. <<c, k>> \notin isVirtual
    BY <1>1 DEF VtInv, VirtualIsMarked
  <2>3. ASSUME NEW p \in Class, NEW q \in Key
        PROVE  <<p, q>> \in isVirtual' <=> q \in methods'[p] /\ CppVirtual(p, q)'
    <3>1. CASE p = c /\ q = k
      <4>1. k \in methods'[p] /\ (CppVirtual(p, q)' <=> v \/ slots # {})
        BY <1>1, <1>5, <1>6, <1>7, <3>1
      <4>2. <<c, k>> \in isVirtual' <=> v \/ slots # {}
        BY <1>1, <2>1, <2>2
      <4> QED BY <3>1, <4>1, <4>2
    <3>2. CASE ~(p = c /\ q = k)
      BY <1>5, <1>6, <2>1, <3>2 DEF VtInv, VirtualIsMarked
    <3> QED BY <3>1, <3>2
  <2> QED BY <2>3 DEF VirtualIsMarked
<1>20. (refused <=> IllFormed)'
  <2> DEFINE Overriding(m) == \E a \in line[m[1]] \ {m[1]} : m[2] \in methods[a] /\ CppVirtual(a, m[2])
             Overridden(m) == \E x \in Class : x # m[1] /\ m[1] \in line[x] /\ m[2] \in methods[x]
             Derived == \E b \in sealed, x \in Class : x # b /\ b \in line[x]
  <2>1. \A m \in overrides \cup finals : m \in Method /\ m # <<c, k>> /\ m[1] \in Class /\ ~(m[1] = c /\ m[2] = k)
    BY <1>1 DEF VtInv, VtTypeOK, DeclaredIn, Method
  <2>2. IllFormed <=> \/ \E m \in overrides : ~Overriding(m)
                      \/ \E m \in finals : ~CppVirtual(m[1], m[2]) \/ Overridden(m)
                      \/ Derived
    BY DEF IllFormed
  <2>3. IllFormed' <=> \/ \E m \in overrides' : ~Overriding(m)'
                       \/ \E m \in finals' : ~CppVirtual(m[1], m[2])' \/ Overridden(m)'
                       \/ Derived'
    BY DEF IllFormed
  <2>4. Derived' <=> Derived
    BY <1>1
  <2>5. \A m : m[1] \in Class => (Overriding(m)' <=> Overriding(m))
    <3>1. \A x \in Class : \A a \in line[x] \ {x} : a \in Class /\ a # c
      BY <1>4 DEF VtInv, VtTypeOK
    <3> QED BY <1>1, <1>5, <1>6, <3>1
  <2>6. \A m \in finals : Overridden(m)' <=> Overridden(m) \/ (m[1] \in line[c] /\ m[1] # c /\ m[2] = k)
    BY <1>1, <1>5
  <2>7. ~Overridden(<<c, k>>)'
    BY <1>1, <1>4
  <2>8. Overriding(<<c, k>>)' <=> slots # {}
    <3>1. Overriding(<<c, k>>) <=> slots # {}
      BY <1>3
    <3>2. Overriding(<<c, k>>)' <=> Overriding(<<c, k>>)
      BY <1>1, <2>5
    <3> QED BY <3>1, <3>2
  <2>9. CppVirtual(c, k)' <=> v \/ slots # {}
    BY <1>1, <1>6, <1>7
  <2>10. IllFormed' <=> \/ IllFormed
                        \/ o /\ slots = {}
                        \/ f /\ ~v /\ slots = {}
                        \/ \E m \in finals : m[1] \in line[c] /\ m[1] # c /\ m[2] = k
    <3>1. (\E m \in overrides' : ~Overriding(m)') <=> (\E m \in overrides : ~Overriding(m)) \/ (o /\ slots = {})
      BY <1>1, <2>1, <2>5, <2>8
    <3>2. \A m \in finals : CppVirtual(m[1], m[2])' <=> CppVirtual(m[1], m[2])
      BY <1>6, <2>1
    <3>3. (\E m \in finals' : ~CppVirtual(m[1], m[2])' \/ Overridden(m)')
            <=> \/ \E m \in finals : ~CppVirtual(m[1], m[2]) \/ Overridden(m)
                \/ \E m \in finals : m[1] \in line[c] /\ m[1] # c /\ m[2] = k
                \/ f /\ ~v /\ slots = {}
      <4>1. finals' = IF f THEN finals \cup {<<c, k>>} ELSE finals
        BY <1>1
      <4>2. <<c, k>>[1] = c /\ <<c, k>>[2] = k
        OBVIOUS
      <4>3. CppVirtual(<<c, k>>[1], <<c, k>>[2])' <=> v \/ slots # {}
        BY <2>9, <4>2
      <4> DEFINE Wrong(m) == ~CppVirtual(m[1], m[2])' \/ Overridden(m)'
      <4>4. Wrong(<<c, k>>) <=> ~v /\ slots = {}
        BY <2>7, <4>3
      <4>5. \A m \in finals : Wrong(m) <=> \/ ~CppVirtual(m[1], m[2]) \/ Overridden(m)
                                           \/ m[1] \in line[c] /\ m[1] # c /\ m[2] = k
        <5> TAKE m \in finals
        <5>1. CppVirtual(m[1], m[2])' <=> CppVirtual(m[1], m[2])
          BY <3>2
        <5>2. Overridden(m)' <=> Overridden(m) \/ (m[1] \in line[c] /\ m[1] # c /\ m[2] = k)
          BY <2>6
        <5> HIDE DEF Overridden
        <5> QED BY <5>1, <5>2
      <4> HIDE DEF Overridden, Wrong
      <4>6. (\E m \in finals' : Wrong(m)) <=> (\E m \in finals : Wrong(m)) \/ (f /\ Wrong(<<c, k>>))
        BY <4>1
      <4>7. (\E m \in finals' : Wrong(m))
            <=> \/ \E m \in finals : ~CppVirtual(m[1], m[2]) \/ Overridden(m)
                \/ \E m \in finals : m[1] \in line[c] /\ m[1] # c /\ m[2] = k
                \/ f /\ ~v /\ slots = {}
        <5>1. (\E m \in finals : Wrong(m)) <=> \/ \E m \in finals : ~CppVirtual(m[1], m[2]) \/ Overridden(m)
                                               \/ \E m \in finals : m[1] \in line[c] /\ m[1] # c /\ m[2] = k
          BY <4>5
        <5> QED BY <4>4, <4>6, <5>1
      <4> QED BY <4>7 DEF Wrong
    <3> HIDE DEF Overriding, Overridden, Derived
    <3> QED BY <2>2, <2>3, <2>4, <3>1, <3>3
  <2>11. Misdeclared(c, k, v, o, f) <=> \/ \E i \in slots : <<vtable[c][i].owner, k>> \in finals
                                        \/ slots = {} /\ o
                                        \/ slots = {} /\ ~v /\ f
    BY DEF Misdeclared, slots
  (* What the slot's own method does not forbid, a method between forbids. *)
  <2>12. ASSUME NEW m \in finals, m[1] \in line[c], m[1] # c, m[2] = k, ~IllFormed
         PROVE  \E i \in slots : <<vtable[c][i].owner, k>> \in finals
    <3>1. m = <<m[1], k>> /\ k \in methods[m[1]] /\ CppVirtual(m[1], k) /\ ~Overridden(m)
      BY <2>1, <2>2, <2>12 DEF VtInv, DeclaredIn, Method
    <3>2. PICK i \in slots : TRUE
      BY <1>3, <2>12, <3>1
    <3>3. Nearest(c, k, vtable[c][i].owner)
      BY <1>1, <1>2, <3>2 DEF VtInv, SlotsRight, SlotRight
    <3>4. m[1] \in line[vtable[c][i].owner] /\ vtable[c][i].owner \in Class /\ k \in methods[vtable[c][i].owner]
      BY <1>1, <2>12, <3>1, <3>3 DEF Nearest, VtInv, VtTypeOK
    <3>5. vtable[c][i].owner = m[1]
      BY <2>12, <3>1, <3>4
    <3> QED BY <3>1, <3>2, <3>5
  <2>13. ASSUME NEW i \in slots, <<vtable[c][i].owner, k>> \in finals
         PROVE  \E m \in finals : m[1] \in line[c] /\ m[1] # c /\ m[2] = k
    <3>1. Nearest(c, k, vtable[c][i].owner)
      BY <1>1, <1>2, <2>13 DEF VtInv, SlotsRight, SlotRight
    <3> QED BY <1>1, <2>13, <3>1 DEF Nearest
  <2>14. refused' <=> IllFormed \/ Misdeclared(c, k, v, o, f)
    BY <1>1 DEF VtInv, VtTypeOK
  <2> QED BY <2>10, <2>11, <2>12, <2>13, <2>14
<1> QED BY <1>13, <1>14, <1>15, <1>16, <1>17, <1>18, <1>19, <1>20 DEF VtInv

(* Every declaration keeps the slots of base and derived in step.          *)
LEMMA DeclarationKeeps == VtInv /\ [Declaration]_classVars => VtInv'
<1> SUFFICES ASSUME VtInv, [Declaration]_classVars PROVE VtInv'
  OBVIOUS
<1>1. CASE \E c \in Class, b \in Known \cup {NoClass}, f \in BOOLEAN : BeginClass(c, b, f)
  BY <1>1, BeginKeeps
<1>2. CASE \E k \in Key, v, o, f \in BOOLEAN : DeclareMethod(k, v, o, f)
  BY <1>2, DeclareKeeps
<1>3. CASE EndClass
  BY <1>3, EndKeeps
<1>4. CASE UNCHANGED classVars
  <2> USE <1>4 DEF classVars, VtInv
  <2>1. VtTypeOK' /\ Lines' /\ DeclaredIn'
    BY DEF VtTypeOK, Lines, DeclaredIn, Known
  <2>2. SlotsRight' /\ SlotsAgree'
    BY DEF SlotsRight, SlotRight, SlotsAgree, Nearest, CppVirtual
  <2>3. SlotsComplete' /\ VirtualIsMarked'
    BY DEF SlotsComplete, VirtualIsMarked, CppVirtual
  <2>4. (refused <=> IllFormed)'
    BY DEF IllFormed, CppVirtual
  <2> QED BY <2>1, <2>2, <2>3, <2>4
<1> QED BY <1>1, <1>2, <1>3, <1>4 DEF Declaration

-----------------------------------------------------------------------------
(* Whatever is declared, in whatever order: a call through a base class    *)
(* finds the nearest method of the object's class at the index its own     *)
(* vtable gives, and sema reports an error about `override` or `final`     *)
(* exactly when C++ does (build_vtable, compute_layout).                   *)
THEOREM CallsRunTheirOverride == VtablesSpec => []VtablesAsC
<1>1. VtablesSpec => []VtInv
  BY InitInv, DeclarationKeeps, PTL DEF VtablesSpec
<1> QED BY <1>1, VtInvHolds, PTL
-----------------------------------------------------------------------------
(* The flags of the open #if groups.                                       *)

VARIABLES
    conds,      \* the stack the code keeps
    groups      \* the conditions of all branches of the open groups so far

condVars == <<conds, groups>>

(* A condition is evaluated only where the code asks for it; it has the    *)
(* value `v` in the language all the same.                                 *)
OpenIf(v) ==
    /\ conds' = CondPush(conds, CondActive(conds) /\ v)
    /\ groups' = OpenGroup(groups, v)
NextElif(v) ==
    /\ CanBranch(conds)
    /\ conds' = CondElif(conds, ElifAsks(conds) /\ v)
    /\ groups' = NextBranch(groups, v)
LastElse ==
    /\ CanBranch(conds)
    /\ conds' = CondElse(conds)
    /\ groups' = NextBranch(groups, TRUE)
CloseEndif ==
    /\ conds # <<>>
    /\ conds' = CondPop(conds)
    /\ groups' = CloseGroup(groups)

CondInit == conds = <<>> /\ groups = <<>>
CondNext == (\E v \in BOOLEAN : OpenIf(v) \/ NextElif(v)) \/ LastElse \/ CloseEndif
CondSpec == CondInit /\ [][CondNext]_condVars
-----------------------------------------------------------------------------
(* What the flags of the i-th group say, in terms of the conditions.       *)
Flags(cs, gs, i) ==
    /\ cs[i].parent_active <=> \A k \in 1..(i - 1) : FirstTrue(gs[k])
    /\ cs[i].active <=> cs[i].parent_active /\ FirstTrue(gs[i])
    /\ cs[i].taken <=> cs[i].parent_active /\ \E j \in 1..Len(gs[i]) : gs[i][j]

GroupsTyped(cs, gs) ==
    /\ cs \in Seq(Cond)
    /\ gs \in Seq(Seq(BOOLEAN))
    /\ Len(cs) = Len(gs)
    /\ \A k \in 1..Len(gs) : gs[k] # <<>>

FlagsInv == GroupsTyped(conds, groups) /\ \A i \in 1..Len(conds) : Flags(conds, groups, i)

(* The flag of the innermost group answers for all of them.                *)
LEMMA TopAnswers ==
    ASSUME NEW cs, NEW gs, GroupsTyped(cs, gs), \A i \in 1..Len(cs) : Flags(cs, gs, i)
    PROVE  CondActive(cs) <=> AllFirstTrue(gs)
<1>1. CASE cs = <<>>
  BY <1>1 DEF CondActive, AllFirstTrue, GroupsTyped
<1>2. CASE cs # <<>>
  <2> DEFINE n == Len(cs)
  <2>1. n \in Nat /\ n >= 1 /\ n = Len(gs)
    BY <1>2 DEF GroupsTyped
  <2>2. Flags(cs, gs, n)
    BY <2>1
  <2>3. CondActive(cs) <=> (\A k \in 1..(n - 1) : FirstTrue(gs[k])) /\ FirstTrue(gs[n])
    BY <1>2, <2>2 DEF CondActive, Flags
  <2>4. (\A k \in 1..n : FirstTrue(gs[k])) <=> (\A k \in 1..(n - 1) : FirstTrue(gs[k])) /\ FirstTrue(gs[n])
    BY <2>1
  <2> QED BY <2>1, <2>3, <2>4 DEF AllFirstTrue
<1> QED BY <1>1, <1>2

(* #if: the enclosing groups' answer is the new group's parent_active.     *)
LEMMA PushKeeps ==
    ASSUME NEW v \in BOOLEAN, FlagsInv, OpenIf(v)
    PROVE  FlagsInv'
<1> DEFINE n == Len(conds)
           new == [parent_active |-> CondActive(conds), active |-> CondActive(conds) /\ v,
                   taken |-> CondActive(conds) /\ v, seen_else |-> FALSE]
<1>1. CondActive(conds) <=> AllFirstTrue(groups)
  BY TopAnswers DEF FlagsInv
<1>2. conds \in Seq(Cond) /\ groups \in Seq(Seq(BOOLEAN)) /\ n = Len(groups) /\ n \in Nat
  BY DEF FlagsInv, GroupsTyped
<1>3. CondActive(conds) \in BOOLEAN
  BY <1>2 DEF CondActive, Cond
<1>4. conds' = Append(conds, new) /\ groups' = Append(groups, <<v>>) /\ new \in Cond
  BY <1>3 DEF OpenIf, CondPush, OpenGroup, Cond
<1>5. Len(conds') = n + 1 /\ Len(groups') = n + 1
  BY <1>2, <1>4
<1>6. \A i \in 1..n : conds'[i] = conds[i] /\ groups'[i] = groups[i]
  BY <1>2, <1>4
<1>7. conds'[n + 1] = new /\ groups'[n + 1] = <<v>>
  BY <1>2, <1>4
<1>8. GroupsTyped(conds', groups')
  <2>1. conds' \in Seq(Cond) /\ groups' \in Seq(Seq(BOOLEAN))
    BY <1>2, <1>4
  <2>2. \A k \in 1..(n + 1) : groups'[k] # <<>>
    <3>1. ASSUME NEW k \in 1..n PROVE groups'[k] # <<>>
      BY <1>2, <1>6 DEF FlagsInv, GroupsTyped
    <3>2. <<v>> # <<>>
      OBVIOUS
    <3>3. groups'[n + 1] # <<>>
      BY <3>2, <1>7
    <3>4. \A k \in 1..(n + 1) : k \in 1..n \/ k = n + 1
      BY <1>2
    <3> QED BY <3>1, <3>3, <3>4
  <2> QED BY <2>1, <2>2, <1>5 DEF GroupsTyped
<1>9. ASSUME NEW i \in 1..n PROVE Flags(conds', groups', i)
  <2>1. Flags(conds, groups, i)
    BY DEF FlagsInv
  <2>2. \A k \in 1..(i - 1) : groups'[k] = groups[k]
    BY <1>2, <1>6
  <2> QED BY <2>1, <2>2, <1>6 DEF Flags
<1>10. Flags(conds', groups', n + 1)
  <2>1. (\A k \in 1..n : FirstTrue(groups'[k])) <=> AllFirstTrue(groups)
    BY <1>2, <1>6 DEF AllFirstTrue
  <2>2. FirstTrue(<<v>>) <=> v
    BY DEF FirstTrue
  <2>3. (\E j \in 1..Len(<<v>>) : <<v>>[j]) <=> v
    OBVIOUS
  <2>4. new.parent_active <=> AllFirstTrue(groups)
    BY <1>1
  <2>5. (n + 1) - 1 = n
    BY <1>2
  <2>6. conds'[n + 1].parent_active <=> \A k \in 1..((n + 1) - 1) : FirstTrue(groups'[k])
    BY <1>7, <2>1, <2>4, <2>5
  <2>9. (new.active <=> new.parent_active /\ v) /\ (new.taken <=> new.parent_active /\ v)
    OBVIOUS
  <2>10. FirstTrue(groups'[n + 1]) <=> v
    BY ONLY <1>7, <2>2, Zenon
  <2>11. (\E j \in 1..Len(groups'[n + 1]) : groups'[n + 1][j]) <=> v
    BY ONLY <1>7, <2>3, Zenon
  <2> HIDE DEF new
  <2>7. conds'[n + 1].active <=> conds'[n + 1].parent_active /\ FirstTrue(groups'[n + 1])
    BY <1>7, <2>9, <2>10, Zenon
  <2>8. conds'[n + 1].taken
          <=> conds'[n + 1].parent_active /\ \E j \in 1..Len(groups'[n + 1]) : groups'[n + 1][j]
    BY <1>7, <2>9, <2>11, Zenon
  <2> QED BY <2>6, <2>7, <2>8 DEF Flags
<1> QED BY <1>2, <1>5, <1>8, <1>9, <1>10 DEF FlagsInv

(* #elif and #else: `taken` stands for all the earlier branches.           *)
LEMMA BranchKeeps ==
    ASSUME NEW v \in BOOLEAN, NEW w \in BOOLEAN, NEW e \in BOOLEAN, FlagsInv, conds # <<>>,
           w => v, v /\ ElifAsks(conds) => w,
           conds' = Branch(conds, w, e), groups' = NextBranch(groups, v)
    PROVE  FlagsInv'
<1> DEFINE n == Len(conds)
           c == conds[n]
           g == groups[n]
           on == c.parent_active /\ ~c.taken /\ w
           new == [c EXCEPT !.active = on, !.taken = c.taken \/ on, !.seen_else = e]
<1>1. conds \in Seq(Cond) /\ groups \in Seq(Seq(BOOLEAN)) /\ n = Len(groups) /\ n \in Nat /\ n >= 1
  BY DEF FlagsInv, GroupsTyped
<1>2. c \in Cond /\ g \in Seq(BOOLEAN) /\ g # <<>> /\ new \in Cond
  <2>1. n \in 1..n
    BY <1>1
  <2>2. c \in Cond /\ g \in Seq(BOOLEAN)
    BY <1>1, <2>1
  <2>3. g # <<>>
    BY <1>1, <2>1 DEF FlagsInv, GroupsTyped
  <2>4. on \in BOOLEAN /\ (c.taken \/ on) \in BOOLEAN
    OBVIOUS
  <2>5. new \in Cond
    BY <2>2, <2>4 DEF Cond
  <2> QED BY <2>2, <2>3, <2>5
<1>3. conds' = [conds EXCEPT ![n] = new] /\ groups' = [groups EXCEPT ![n] = Append(g, v)]
  BY <1>1 DEF Branch, NextBranch
<1>4. Len(conds') = n /\ Len(groups') = n
  BY <1>1, <1>3
<1>5. \A i \in 1..n : i # n => conds'[i] = conds[i] /\ groups'[i] = groups[i]
  BY <1>1, <1>3
<1>6. conds'[n] = new /\ groups'[n] = Append(g, v)
  <2> HIDE DEF new, g
  <2>1. n \in DOMAIN conds /\ n \in DOMAIN groups
    BY <1>1
  <2> QED BY <1>3, <2>1, Zenon
<1>7. GroupsTyped(conds', groups')
  <2>1. conds' \in Seq(Cond) /\ groups' \in Seq(Seq(BOOLEAN))
    BY <1>1, <1>2, <1>3
  <2>2. Append(g, v) # <<>>
    BY <1>2
  <2>3. \A k \in 1..n : groups'[k] # <<>>
    BY <2>2, <1>1, <1>5, <1>6 DEF FlagsInv, GroupsTyped
  <2> QED BY <2>1, <2>3, <1>4 DEF GroupsTyped
<1>8. ASSUME NEW i \in 1..n, i # n PROVE Flags(conds', groups', i)
  <2>1. Flags(conds, groups, i)
    BY DEF FlagsInv
  <2>2. \A k \in 1..(i - 1) : groups'[k] = groups[k]
    BY <1>1, <1>5
  <2>3. conds'[i] = conds[i] /\ groups'[i] = groups[i]
    BY <1>5, <1>8
  <2> QED BY <2>1, <2>2, <2>3 DEF Flags
<1>9. Flags(conds', groups', n)
  <2>1. Flags(conds, groups, n)
    BY <1>1 DEF FlagsInv
  <2>2. \A k \in 1..(n - 1) : groups'[k] = groups[k]
    BY <1>1, <1>5
  <2>3. Len(Append(g, v)) = Len(g) + 1 /\ Append(g, v)[Len(g) + 1] = v
        /\ \A j \in 1..Len(g) : Append(g, v)[j] = g[j]
    BY <1>2
  <2>4. FirstTrue(Append(g, v)) <=> v /\ ~\E j \in 1..Len(g) : g[j]
    BY <1>2, <2>3 DEF FirstTrue
  <2>5. (\E j \in 1..Len(Append(g, v)) : Append(g, v)[j]) <=> v \/ \E j \in 1..Len(g) : g[j]
    BY <1>2, <2>3
  <2>6. new.parent_active = c.parent_active /\ new.active = on /\ new.taken = (c.taken \/ on)
    BY <1>2 DEF Cond
  <2>7. c.taken <=> c.parent_active /\ \E j \in 1..Len(g) : g[j]
    BY <2>1 DEF Flags
  <2>8. on <=> c.parent_active /\ ~c.taken /\ v
    BY <1>2 DEF ElifAsks, Cond
  <2>9. new.parent_active <=> \A k \in 1..(n - 1) : FirstTrue(groups'[k])
    BY <2>1, <2>2, <2>6 DEF Flags
  <2>10. new.active <=> new.parent_active /\ FirstTrue(Append(g, v))
    BY <2>4, <2>6, <2>7, <2>8
  <2>11. new.taken <=> new.parent_active /\ \E j \in 1..Len(Append(g, v)) : Append(g, v)[j]
    BY <2>5, <2>6, <2>7, <2>8
  <2> QED BY <1>6, <2>9, <2>10, <2>11 DEF Flags
<1> QED BY <1>4, <1>7, <1>8, <1>9 DEF FlagsInv

(* #endif: the groups around it keep theirs.                               *)
LEMMA PopKeeps ==
    ASSUME FlagsInv, CloseEndif
    PROVE  FlagsInv'
<1> DEFINE n == Len(conds)
<1>1. conds \in Seq(Cond) /\ groups \in Seq(Seq(BOOLEAN)) /\ n = Len(groups) /\ n \in Nat /\ n >= 1
  BY DEF FlagsInv, GroupsTyped, CloseEndif
<1>2. conds' = SubSeq(conds, 1, n - 1) /\ groups' = SubSeq(groups, 1, n - 1)
  BY <1>1 DEF CloseEndif, CondPop, CloseGroup
<1>3. /\ conds' \in Seq(Cond) /\ groups' \in Seq(Seq(BOOLEAN))
      /\ Len(conds') = n - 1 /\ Len(groups') = n - 1
  BY <1>1, <1>2
<1>4. \A i \in 1..(n - 1) : conds'[i] = conds[i] /\ groups'[i] = groups[i]
  BY <1>1, <1>2
<1>5. GroupsTyped(conds', groups')
  BY <1>1, <1>3, <1>4 DEF GroupsTyped, FlagsInv
<1>6. ASSUME NEW i \in 1..(n - 1) PROVE Flags(conds', groups', i)
  <2>1. Flags(conds, groups, i)
    BY <1>1 DEF FlagsInv
  <2>2. \A k \in 1..(i - 1) : groups'[k] = groups[k]
    BY <1>1, <1>4
  <2> QED BY <2>1, <2>2, <1>4 DEF Flags
<1> QED BY <1>3, <1>5, <1>6 DEF FlagsInv

(* Of a file's lines exactly those are compiled for which every open group *)
(* is in its first true branch: what cond_active answers after any #if,    *)
(* #elif, #else and #endif that prescan.c accepts.                         *)
THEOREM CompiledLinesAreFirstTrue == CondSpec => []ActiveIsFirstTrue(conds, groups)
<1>1. CondInit => FlagsInv
  BY DEF CondInit, FlagsInv, GroupsTyped
<1>2. FlagsInv /\ [CondNext]_condVars => FlagsInv'
  <2> SUFFICES ASSUME FlagsInv, [CondNext]_condVars PROVE FlagsInv'
    OBVIOUS
  <2>1. ASSUME NEW v \in BOOLEAN, OpenIf(v) PROVE FlagsInv'
    BY <2>1, PushKeeps
  <2>2. ASSUME NEW v \in BOOLEAN, NextElif(v) PROVE FlagsInv'
    <3> DEFINE w == ElifAsks(conds) /\ v
    <3>2. w \in BOOLEAN
      BY DEF ElifAsks
    <3>1. conds # <<>> /\ conds' = Branch(conds, w, FALSE) /\ groups' = NextBranch(groups, v)
      BY <2>2 DEF NextElif, CanBranch, CondElif
    <3> QED BY <3>1, <3>2, BranchKeeps
  <2>3. CASE LastElse
    BY <2>3, BranchKeeps DEF LastElse, CanBranch, CondElse
  <2>4. CASE CloseEndif
    BY <2>4, PopKeeps
  <2>5. CASE UNCHANGED condVars
    BY <2>5 DEF condVars, FlagsInv
  <2> QED BY <2>1, <2>2, <2>3, <2>4, <2>5 DEF CondNext
<1>3. FlagsInv => ActiveIsFirstTrue(conds, groups)
  BY TopAnswers DEF FlagsInv, GroupsTyped, ActiveIsFirstTrue
<1> QED BY <1>1, <1>2, <1>3, PTL DEF CondSpec

-----------------------------------------------------------------------------
(* The inductive invariant.  It is stated of any chain `ls` and any stack  *)
(* of constructs `fs`, so that the lemmas can speak of the next ones.      *)

(* Frame i is the innermost of these kinds that frame j is inside.         *)
InnermostOf(fs, kinds, i, j) ==
  fs[i].kind \in kinds /\ \A k \in i + 1 .. j : fs[k].kind \notin kinds

(* The locals of the chain, oldest first, are split by the marks; a body   *)
(* declares none of its own; and the boundary of a break or a continue is  *)
(* the mark of the construct that it leaves.                               *)
ChainSound(ls, fs) ==
  /\ ls \in Seq(Objects) /\ fs \in Seq(Frame)
  /\ \A j, k \in 1 .. Len(ls) : j < k => ls[j] < ls[k]
  /\ \A i \in 1 .. Len(fs) : fs[i].mark <= Len(ls)
  /\ \A i, j \in 1 .. Len(fs) : i <= j => fs[i].mark <= fs[j].mark
  /\ IF fs = <<>> THEN ls = <<>> ELSE fs[1].mark = 0
  /\ \A i \in 1 .. Len(fs) : fs[i].done => fs[i].kind \in Bodies
  /\ \A i \in 1 .. Len(fs) :
       fs[i].kind \in Bodies =>
         fs[i].mark = IF i = Len(fs) THEN Len(ls) ELSE fs[i + 1].mark
  /\ \A j \in 1 .. Len(fs) : \A i \in 1 .. j :
       /\ InnermostOf(fs, {"loop", "switch"}, i, j) => fs[j].break = fs[i].mark
       /\ InnermostOf(fs, {"loop"}, i, j) => fs[j].loop = fs[i].mark
       /\ fs[j].break <= fs[j].mark /\ fs[j].loop <= fs[j].mark

(* The n oldest locals.                                                    *)
Oldest(ls, n) == {ls[k] : k \in 1 .. n}

(* What is left of an exit's code destroys, the youngest first, the        *)
(* objects alive beyond those of `base`.                                   *)
Destroys(code, base, alive) ==
  /\ alive = base \cup {code[k] : k \in 1 .. Len(code)}
  /\ code \in Seq(Objects) /\ base \subseteq Objects
  /\ \A j, k \in 1 .. Len(code) : j < k => code[k] < code[j]
  /\ \A k \in 1 .. Len(code), o \in base : o < code[k]

(* Where control can be, what is alive there, and what it still executes.  *)
ControlHere == at = Here /\ todo = <<>> /\ live = InChain /\ (Depth > 0 => ~Top.returns)

ControlReturned == at = Returned /\ todo = <<>> /\ live = {}

(* Only the bodies of if, else, loops and switches are waited for; an else *)
(* only by control that came through the then branch.                      *)
ControlWaits ==
  \E i \in 1 .. Depth :
    /\ at \in {Wait(i), Select(i)} /\ todo = <<>>
    /\ live = Oldest(locals, frames[i].mark)
    /\ frames[i].kind \in {"loop", "switch", "then", "else"}
    /\ frames[i].kind = "else" => ~frames[i].both

ControlJumps ==
  \E i \in 1 .. Depth :
    /\ at = Leave(i) /\ frames[i].kind \in {"loop", "switch"}
    /\ Destroys(todo, Oldest(locals, frames[i].mark), live)

ControlReturns ==
  /\ at = Leave(0)
  /\ \/ Destroys(todo, {}, live)
     \/ /\ todo # <<>> /\ Head(todo) = Evaluate
        /\ live = InChain /\ Destroys(Tail(todo), {}, live)

ControlFalls ==
  at = Fall /\ Destroys(todo, InChain, live) /\ (Depth > 0 => ~Top.returns)

ControlSound ==
  \/ ControlHere \/ ControlReturned \/ ControlWaits
  \/ ControlJumps \/ ControlReturns \/ ControlFalls

ScopeIInv ==
  /\ ChainSound(locals, frames)
  /\ live \subseteq Objects /\ todo \in Seq(0 .. MaxLocals)
  /\ ControlSound

-----------------------------------------------------------------------------
(* The operators.                                                          *)

(* The fields of a construct have their ranges.                            *)
LEMMA FrameFields ==
  ASSUME NEW fs \in Seq(Frame), NEW i \in 1 .. Len(fs)
  PROVE  /\ fs[i] \in Frame
         /\ fs[i].mark \in Nat /\ fs[i].loop \in Nat /\ fs[i].break \in Nat
         /\ fs[i].kind \in Scopes \cup Bodies /\ fs[i].returns \in BOOLEAN /\ fs[i].both \in BOOLEAN
<1>1. fs[i] \in Frame
  OBVIOUS
<1> QED BY <1>1 DEF Frame

(* Ending a statement leaves the shape of the constructs around it.        *)
LEMMA OverKeepsShape ==
  ASSUME NEW fs \in Seq(Frame), NEW returns \in BOOLEAN
  PROVE  /\ Over(fs, returns) \in Seq(Frame)
         /\ Len(Over(fs, returns)) = Len(fs)
         /\ \A i \in 1 .. Len(fs) :
              /\ Over(fs, returns)[i].kind = fs[i].kind
              /\ Over(fs, returns)[i].mark = fs[i].mark
              /\ Over(fs, returns)[i].loop = fs[i].loop
              /\ Over(fs, returns)[i].break = fs[i].break
              /\ Over(fs, returns)[i].both = fs[i].both
              /\ Over(fs, returns)[i].done => fs[i].done \/ fs[i].kind \in Bodies
         /\ Len(fs) > 0 => Over(fs, returns)[Len(fs)].returns = returns
<1>1. CASE fs = <<>>
  BY <1>1 DEF Over
<1>2. CASE fs # <<>>
  <2> DEFINE n == Len(fs)
             last == [fs[n] EXCEPT !.done = fs[n].kind \in Bodies, !.returns = returns]
  <2>1. n \in 1 .. Len(fs) /\ fs[n] \in Frame
    BY <1>2
  <2>2. last \in Frame
    <3>1. (fs[n].kind \in Bodies) \in BOOLEAN
      OBVIOUS
    <3>2. \A f \in Frame, d, r \in BOOLEAN : [f EXCEPT !.done = d, !.returns = r] \in Frame
      BY DEF Frame
    <3> QED BY <2>1, <3>1, <3>2
  <2>3. Over(fs, returns) = [fs EXCEPT ![n] = last]
    BY <1>2 DEF Over
  <2>4. Over(fs, returns) \in Seq(Frame) /\ Len(Over(fs, returns)) = Len(fs)
    BY <2>1, <2>2, <2>3
  <2>5. /\ last.kind = fs[n].kind /\ last.mark = fs[n].mark /\ last.loop = fs[n].loop
        /\ last.break = fs[n].break /\ last.both = fs[n].both /\ last.returns = returns
        /\ last.done => fs[n].kind \in Bodies
    BY <2>1 DEF Frame
  <2>6. ASSUME NEW i \in 1 .. Len(fs)
        PROVE  Over(fs, returns)[i] = IF i = n THEN last ELSE fs[i]
    BY <2>3
  <2> HIDE DEF last
  <2> QED BY <2>1, <2>4, <2>5, <2>6
<1> QED BY <1>1, <1>2

(* Constructs with the same marks, boundaries and targets are as sound.    *)
SameShape(fs, gs) ==
  /\ gs \in Seq(Frame) /\ Len(gs) = Len(fs)
  /\ \A i \in 1 .. Len(fs) :
       /\ gs[i].mark = fs[i].mark /\ gs[i].loop = fs[i].loop /\ gs[i].break = fs[i].break
       /\ gs[i].kind \in Bodies <=> fs[i].kind \in Bodies
       /\ gs[i].kind = "loop" <=> fs[i].kind = "loop"
       /\ gs[i].kind = "switch" <=> fs[i].kind = "switch"
       /\ gs[i].done => fs[i].done \/ fs[i].kind \in Bodies

LEMMA ShapeKeepsChain ==
  ASSUME NEW ls, NEW fs, NEW gs, ChainSound(ls, fs), SameShape(fs, gs)
  PROVE  ChainSound(ls, gs)
<1>1. /\ fs \in Seq(Frame) /\ gs \in Seq(Frame) /\ Len(gs) = Len(fs) /\ Len(fs) \in Nat
      /\ \A i \in 1 .. Len(fs) :
           /\ gs[i].mark = fs[i].mark /\ gs[i].loop = fs[i].loop /\ gs[i].break = fs[i].break
           /\ gs[i].kind \in Bodies <=> fs[i].kind \in Bodies
           /\ gs[i].kind = "loop" <=> fs[i].kind = "loop"
           /\ gs[i].kind = "switch" <=> fs[i].kind = "switch"
           /\ gs[i].done => fs[i].done \/ fs[i].kind \in Bodies
  BY DEF ChainSound, SameShape
<1>2. \A j \in 1 .. Len(gs) : \A i \in 1 .. j :
        /\ InnermostOf(gs, {"loop", "switch"}, i, j) <=> InnermostOf(fs, {"loop", "switch"}, i, j)
        /\ InnermostOf(gs, {"loop"}, i, j) <=> InnermostOf(fs, {"loop"}, i, j)
  <2> SUFFICES ASSUME NEW j \in 1 .. Len(gs), NEW i \in 1 .. j
      PROVE /\ InnermostOf(gs, {"loop", "switch"}, i, j) <=> InnermostOf(fs, {"loop", "switch"}, i, j)
            /\ InnermostOf(gs, {"loop"}, i, j) <=> InnermostOf(fs, {"loop"}, i, j)
    OBVIOUS
  <2>1. \A k \in i .. j : k \in 1 .. Len(fs)
    BY <1>1
  <2>2. \A k \in i .. j : /\ gs[k].kind \in {"loop", "switch"} <=> fs[k].kind \in {"loop", "switch"}
                          /\ gs[k].kind \in {"loop"} <=> fs[k].kind \in {"loop"}
    BY <1>1, <2>1
  <2>3. i \in i .. j /\ \A k \in i + 1 .. j : k \in i .. j
    BY <1>1
  <2> QED BY <2>2, <2>3 DEF InnermostOf
<1>3. \A j \in 1 .. Len(gs) : \A i \in 1 .. j :
       /\ InnermostOf(gs, {"loop", "switch"}, i, j) => gs[j].break = gs[i].mark
       /\ InnermostOf(gs, {"loop"}, i, j) => gs[j].loop = gs[i].mark
       /\ gs[j].break <= gs[j].mark /\ gs[j].loop <= gs[j].mark
  BY <1>1, <1>2 DEF ChainSound
<1>4. /\ \A i \in 1 .. Len(gs) : gs[i].mark <= Len(ls)
      /\ \A i, j \in 1 .. Len(gs) : i <= j => gs[i].mark <= gs[j].mark
      /\ IF gs = <<>> THEN ls = <<>> ELSE gs[1].mark = 0
      /\ \A i \in 1 .. Len(gs) : gs[i].done => gs[i].kind \in Bodies
  BY <1>1 DEF ChainSound
<1>5. \A i \in 1 .. Len(gs) :
       gs[i].kind \in Bodies =>
         gs[i].mark = IF i = Len(gs) THEN Len(ls) ELSE gs[i + 1].mark
  BY <1>1 DEF ChainSound
<1> QED BY <1>1, <1>3, <1>4, <1>5 DEF ChainSound

LEMMA OverKeepsChain ==
  ASSUME NEW ls, NEW fs, NEW returns \in BOOLEAN, ChainSound(ls, fs)
  PROVE  ChainSound(ls, Over(fs, returns))
<1>1. fs \in Seq(Frame)
  BY DEF ChainSound
<1>2. SameShape(fs, Over(fs, returns))
  BY <1>1, OverKeepsShape DEF SameShape
<1> QED BY <1>2, ShapeKeepsChain

(* A declaration in a block or a switch.                                   *)
LEMMA DeclareKeepsChain ==
  ASSUME NEW ls, NEW fs, NEW o \in Objects, ChainSound(ls, fs), fs # <<>>,
         fs[Len(fs)].kind \notin Bodies, \A k \in 1 .. Len(ls) : ls[k] < o
  PROVE  ChainSound(Append(ls, o), fs)
<1> DEFINE new == Append(ls, o)
<1>1. /\ ls \in Seq(Objects) /\ fs \in Seq(Frame) /\ Len(ls) \in Nat /\ Len(fs) \in Nat
      /\ new \in Seq(Objects) /\ Len(new) = Len(ls) + 1
      /\ new[Len(ls) + 1] = o /\ \A k \in 1 .. Len(ls) : new[k] = ls[k]
  BY DEF ChainSound
<1>2. \A j, k \in 1 .. Len(new) : j < k => new[j] < new[k]
  BY <1>1 DEF ChainSound
<1>3. \A i \in 1 .. Len(fs) : fs[i].mark \in Nat
  BY <1>1, FrameFields
<1>4. \A i \in 1 .. Len(fs) : fs[i].mark <= Len(new)
  BY <1>1, <1>3 DEF ChainSound
<1>5. \A i \in 1 .. Len(fs) :
       fs[i].kind \in Bodies =>
         fs[i].mark = IF i = Len(fs) THEN Len(new) ELSE fs[i + 1].mark
  BY <1>1 DEF ChainSound
<1> HIDE DEF new
<1> QED BY <1>1, <1>2, <1>4, <1>5 DEF ChainSound

(* A construct is entered: its boundaries are its own mark or the ones of  *)
(* the construct around it.                                                *)
LEMMA EnterKeepsChain ==
  ASSUME NEW ls, NEW fs, ChainSound(ls, fs), fs # <<>>,
         NEW kind \in Scopes \cup Bodies, NEW loop, NEW break,
         loop = IF kind = "loop" THEN Len(ls) ELSE fs[Len(fs)].loop,
         break = IF kind \in {"loop", "switch"} THEN Len(ls) ELSE fs[Len(fs)].break
  PROVE  ChainSound(ls, Append(fs, NewFrame(kind, Len(ls), loop, break)))
<1> DEFINE n == Len(fs)
           new == NewFrame(kind, Len(ls), loop, break)
           gs == Append(fs, new)
<1>1. /\ ls \in Seq(Objects) /\ fs \in Seq(Frame) /\ Len(ls) \in Nat /\ n \in Nat
      /\ n \in 1 .. Len(fs) /\ fs[n] \in Frame
  BY DEF ChainSound
<1>2. loop \in Nat /\ break \in Nat
  BY <1>1 DEF Frame
<1>3. /\ new \in Frame /\ new.kind = kind /\ new.mark = Len(ls) /\ new.loop = loop
      /\ new.break = break /\ ~new.done
  BY <1>1, <1>2 DEF NewFrame, Frame
<1>4. gs \in Seq(Frame) /\ Len(gs) = n + 1 /\ gs[n + 1] = new /\ \A i \in 1 .. n : gs[i] = fs[i]
  BY <1>1, <1>3
<1>5. \A i \in 1 .. n : fs[i].mark \in Nat /\ fs[i].mark <= Len(ls) /\ fs[i].mark <= fs[n].mark
  BY <1>1, FrameFields DEF ChainSound
<1> HIDE DEF new, gs
<1>6. \A i \in 1 .. Len(gs) : gs[i].mark <= Len(ls)
  BY <1>1, <1>3, <1>4, <1>5
<1>7. \A i, j \in 1 .. Len(gs) : i <= j => gs[i].mark <= gs[j].mark
  <2> SUFFICES ASSUME NEW i \in 1 .. Len(gs), NEW j \in 1 .. Len(gs), i <= j
      PROVE gs[i].mark <= gs[j].mark
    OBVIOUS
  <2>1. CASE j \in 1 .. n
    BY <1>1, <1>4, <2>1 DEF ChainSound
  <2>2. CASE j = n + 1
    BY <1>3, <1>4, <1>6, <2>2
  <2> QED BY <1>1, <1>4, <2>1, <2>2
<1>8. gs # <<>> /\ gs[1].mark = 0
  BY <1>1, <1>4 DEF ChainSound
<1>d. \A i \in 1 .. Len(gs) : gs[i].done => gs[i].kind \in Bodies
  BY <1>1, <1>3, <1>4 DEF ChainSound
<1>9. \A i \in 1 .. Len(gs) :
       gs[i].kind \in Bodies =>
         gs[i].mark = IF i = Len(gs) THEN Len(ls) ELSE gs[i + 1].mark
  <2> SUFFICES ASSUME NEW i \in 1 .. Len(gs), gs[i].kind \in Bodies
      PROVE gs[i].mark = IF i = Len(gs) THEN Len(ls) ELSE gs[i + 1].mark
    OBVIOUS
  <2>1. CASE i = n + 1
    BY <1>1, <1>3, <1>4, <2>1
  <2>2. CASE i = n
    BY <1>1, <1>3, <1>4, <2>2 DEF ChainSound
  <2>3. CASE i \in 1 .. n - 1
    BY <1>1, <1>4, <2>3 DEF ChainSound
  <2> QED BY <1>1, <1>4, <2>1, <2>2, <2>3
<1>10. ASSUME NEW j \in 1 .. Len(gs), NEW i \in 1 .. j
       PROVE /\ InnermostOf(gs, {"loop", "switch"}, i, j) => gs[j].break = gs[i].mark
             /\ InnermostOf(gs, {"loop"}, i, j) => gs[j].loop = gs[i].mark
             /\ gs[j].break <= gs[j].mark /\ gs[j].loop <= gs[j].mark
  <2>1. CASE j \in 1 .. n
    <3>1. \A k \in i .. j : gs[k] = fs[k]
      BY <1>1, <1>4, <2>1
    <3>2. /\ InnermostOf(gs, {"loop", "switch"}, i, j) <=> InnermostOf(fs, {"loop", "switch"}, i, j)
          /\ InnermostOf(gs, {"loop"}, i, j) <=> InnermostOf(fs, {"loop"}, i, j)
      BY <3>1, <2>1 DEF InnermostOf
    <3> QED BY <1>1, <2>1, <3>1, <3>2 DEF ChainSound
  <2>2. CASE j = n + 1
    <3>1. gs[j].break <= gs[j].mark /\ gs[j].loop <= gs[j].mark
      <4>1. fs[n].break <= fs[n].mark /\ fs[n].loop <= fs[n].mark /\ fs[n].break \in Nat /\ fs[n].loop \in Nat
        BY <1>1 DEF ChainSound, Frame
      <4> QED BY <1>1, <1>3, <1>4, <1>5, <2>2, <4>1
    <3>2. ASSUME i = n + 1
          PROVE  /\ InnermostOf(gs, {"loop", "switch"}, i, j) => gs[j].break = gs[i].mark
                 /\ InnermostOf(gs, {"loop"}, i, j) => gs[j].loop = gs[i].mark
      BY <1>3, <1>4, <2>2, <3>2 DEF InnermostOf
    <3>3. ASSUME i \in 1 .. n
          PROVE  /\ InnermostOf(gs, {"loop", "switch"}, i, j) => gs[j].break = gs[i].mark
                 /\ InnermostOf(gs, {"loop"}, i, j) => gs[j].loop = gs[i].mark
      <4>1. \A k \in i .. n : gs[k] = fs[k]
        BY <1>1, <1>4, <3>3
      <4>2. n + 1 \in i + 1 .. j /\ \A k \in i + 1 .. n : k \in i + 1 .. j
        BY <1>1, <2>2, <3>3
      <4>3. ASSUME NEW K, InnermostOf(gs, K, i, j)
            PROVE  InnermostOf(fs, K, i, n) /\ kind \notin K
        BY <1>1, <1>3, <1>4, <4>1, <4>2, <4>3, <3>3 DEF InnermostOf
      <4>4. /\ InnermostOf(fs, {"loop", "switch"}, i, n) => fs[n].break = fs[i].mark
            /\ InnermostOf(fs, {"loop"}, i, n) => fs[n].loop = fs[i].mark
        BY <1>1, <3>3 DEF ChainSound
      <4>5. CASE InnermostOf(gs, {"loop", "switch"}, i, j)
        BY <1>1, <1>3, <1>4, <2>2, <3>3, <4>3, <4>4, <4>5
      <4>6. CASE InnermostOf(gs, {"loop"}, i, j)
        BY <1>1, <1>3, <1>4, <2>2, <3>3, <4>3, <4>4, <4>6
      <4>7. InnermostOf(gs, {"loop", "switch"}, i, j) => gs[j].break = gs[i].mark
        BY <1>1, <1>3, <1>4, <2>2, <3>3, <4>3, <4>4
      <4>8. InnermostOf(gs, {"loop"}, i, j) => gs[j].loop = gs[i].mark
        BY <1>1, <1>3, <1>4, <2>2, <3>3, <4>3, <4>4
      <4> QED BY <4>7, <4>8
    <3>4. i = n + 1 \/ i \in 1 .. n
      BY <1>1, <2>2
    <3> QED BY <3>1, <3>2, <3>3, <3>4
  <2> QED BY <1>1, <1>4, <2>1, <2>2
<1>11. ChainSound(ls, gs)
  BY <1>1, <1>4, <1>6, <1>7, <1>8, <1>d, <1>9, <1>10 DEF ChainSound
<1> QED BY <1>11 DEF gs, new

(* A construct is left: the chain is cut at its mark.                      *)
LEMMA LeaveKeepsChain ==
  ASSUME NEW ls, NEW fs, ChainSound(ls, fs), fs # <<>>
  PROVE  LET n == Len(fs)
             m == fs[n].mark
         IN  /\ ChainSound(SubSeq(ls, 1, m), SubSeq(fs, 1, n - 1))
             /\ m \in 0 .. Len(ls) /\ Len(SubSeq(ls, 1, m)) = m
             /\ \A k \in 1 .. m : SubSeq(ls, 1, m)[k] = ls[k]
             /\ SubSeq(fs, 1, n - 1) \in Seq(Frame) /\ Len(SubSeq(fs, 1, n - 1)) = n - 1
             /\ \A i \in 1 .. n - 1 : SubSeq(fs, 1, n - 1)[i] = fs[i]
<1> DEFINE n == Len(fs)
           m == fs[n].mark
           ks == SubSeq(ls, 1, m)
           gs == SubSeq(fs, 1, n - 1)
<1>1. /\ ls \in Seq(Objects) /\ fs \in Seq(Frame) /\ Len(ls) \in Nat /\ n \in Nat
      /\ n \in 1 .. Len(fs) /\ fs[n] \in Frame
  BY DEF ChainSound
<1>2. m \in Nat /\ m \in 0 .. Len(ls)
  BY <1>1 DEF ChainSound, Frame
<1>3. ks \in Seq(Objects) /\ Len(ks) = m /\ \A k \in 1 .. m : ks[k] = ls[k]
  BY <1>1, <1>2
<1>4. gs \in Seq(Frame) /\ Len(gs) = n - 1 /\ \A i \in 1 .. n - 1 : gs[i] = fs[i]
  <2> DEFINE k == n - 1
  <2>1. k \in 0 .. Len(fs)
    BY <1>1
  <2> HIDE DEF k
  <2>2. SubSeq(fs, 1, k) \in Seq(Frame) /\ Len(SubSeq(fs, 1, k)) = k
        /\ \A i \in 1 .. k : SubSeq(fs, 1, k)[i] = fs[i]
    BY <1>1, <2>1
  <2> QED BY <2>2 DEF k
<1>5. \A i \in 1 .. n : fs[i].mark \in Nat /\ fs[i].mark <= m
  BY <1>1, FrameFields DEF ChainSound
<1> HIDE DEF ks, gs, m
<1>6. \A j, k \in 1 .. Len(ks) : j < k => ks[j] < ks[k]
  BY <1>1, <1>2, <1>3 DEF ChainSound
<1>7. /\ \A i \in 1 .. Len(gs) : gs[i].mark <= Len(ks)
      /\ \A i, j \in 1 .. Len(gs) : i <= j => gs[i].mark <= gs[j].mark
      /\ \A i \in 1 .. Len(gs) : gs[i].done => gs[i].kind \in Bodies
  BY <1>1, <1>3, <1>4, <1>5 DEF ChainSound
<1>8. IF gs = <<>> THEN ks = <<>> ELSE gs[1].mark = 0
  <2>1. CASE n = 1
    BY <1>1, <1>3, <1>4, <2>1 DEF ChainSound, m
  <2>2. CASE n # 1
    BY <1>1, <1>4, <2>2 DEF ChainSound
  <2> QED BY <2>1, <2>2
<1>9. \A i \in 1 .. Len(gs) :
       gs[i].kind \in Bodies =>
         gs[i].mark = IF i = Len(gs) THEN Len(ks) ELSE gs[i + 1].mark
  <2> SUFFICES ASSUME NEW i \in 1 .. Len(gs), gs[i].kind \in Bodies
      PROVE gs[i].mark = IF i = Len(gs) THEN Len(ks) ELSE gs[i + 1].mark
    OBVIOUS
  <2>1. fs[i].mark = fs[i + 1].mark
    BY <1>1, <1>4 DEF ChainSound
  <2> QED BY <1>1, <1>3, <1>4, <2>1 DEF m
<1>10. ASSUME NEW j \in 1 .. Len(gs), NEW i \in 1 .. j
       PROVE /\ InnermostOf(gs, {"loop", "switch"}, i, j) => gs[j].break = gs[i].mark
             /\ InnermostOf(gs, {"loop"}, i, j) => gs[j].loop = gs[i].mark
             /\ gs[j].break <= gs[j].mark /\ gs[j].loop <= gs[j].mark
  <2>1. \A k \in i .. j : gs[k] = fs[k]
    BY <1>1, <1>4
  <2>2. /\ InnermostOf(gs, {"loop", "switch"}, i, j) <=> InnermostOf(fs, {"loop", "switch"}, i, j)
        /\ InnermostOf(gs, {"loop"}, i, j) <=> InnermostOf(fs, {"loop"}, i, j)
    BY <2>1 DEF InnermostOf
  <2>3. j \in 1 .. Len(fs)
    BY <1>1, <1>4
  <2> QED BY <1>1, <2>1, <2>2, <2>3 DEF ChainSound
<1>11. ChainSound(ks, gs)
  BY <1>3, <1>4, <1>6, <1>7, <1>8, <1>9, <1>10 DEF ChainSound
<1> QED BY <1>2, <1>3, <1>4, <1>11 DEF ks, gs, m

(* Objects are numbers, and Evaluate is none of them.                      *)
LEMMA ObjectNumbers == Objects \subseteq Int /\ Evaluate \notin Objects
BY DEF Objects, Evaluate

LEMMA ObjectCode == Seq(Objects) \subseteq Seq(0 .. MaxLocals)
<1>1. Objects \subseteq 0 .. MaxLocals
  BY BoundsAssumption DEF Objects, BoundsAssumption
<1> QED BY <1>1, SeqMonotonic

(* The code planted at an exit destroys what the exit leaves behind.       *)
LEMMA UnwindDestroys ==
  ASSUME ChainSound(locals, frames), NEW stop \in 0 .. Len(locals)
  PROVE  Destroys(Unwind(stop), Oldest(locals, stop), InChain)
<1> DEFINE n == Len(locals)
           code == Unwind(stop)
<1>1. locals \in Seq(Objects) /\ n \in Nat /\ \A j, k \in 1 .. n : j < k => locals[j] < locals[k]
  BY DEF ChainSound
<1>2. \A k \in 1 .. n - stop : n + 1 - k \in 1 .. n
  BY <1>1
<1>3. code \in Seq(Objects) /\ Len(code) = n - stop /\ \A k \in 1 .. n - stop : code[k] = locals[n + 1 - k]
  <2>1. n - stop \in Nat
    BY <1>1
  <2>2. \A k \in 1 .. n - stop : locals[n + 1 - k] \in Objects
    BY <1>1, <1>2
  <2> QED BY <2>1, <2>2 DEF Unwind
<1>b. Oldest(locals, stop) \subseteq Objects
  BY <1>1 DEF Oldest
<1> HIDE DEF code
<1>4. \A k \in 1 .. n : locals[k] \in Int
  <2>1. \A k \in 1 .. n : locals[k] \in Objects
    BY <1>1
  <2> QED BY <2>1, ObjectNumbers
<1>5. \A j, k \in 1 .. Len(code) : j < k => code[k] < code[j]
  <2> SUFFICES ASSUME NEW j \in 1 .. n - stop, NEW k \in 1 .. n - stop, j < k
      PROVE locals[n + 1 - k] < locals[n + 1 - j]
    BY <1>3
  <2> QED BY <1>1, <1>2
<1>6. \A k \in 1 .. Len(code), o \in Oldest(locals, stop) : o < code[k]
  <2> SUFFICES ASSUME NEW k \in 1 .. n - stop, NEW i \in 1 .. stop
      PROVE locals[i] < locals[n + 1 - k]
    BY <1>3 DEF Oldest
  <2> QED BY <1>1
<1>7. InChain = Oldest(locals, stop) \cup {code[k] : k \in 1 .. Len(code)}
  <2>1. ASSUME NEW k \in 1 .. n
        PROVE  \/ k \in 1 .. stop
               \/ n + 1 - k \in 1 .. n - stop /\ locals[k] = code[n + 1 - k]
    BY <1>1, <1>3
  <2>2. \A k \in 1 .. n : locals[k] \in Oldest(locals, stop) \cup {code[j] : j \in 1 .. Len(code)}
    BY <1>3, <2>1 DEF Oldest
  <2>3. \A k \in 1 .. stop : locals[k] \in InChain
    BY <1>1 DEF InChain
  <2>4. \A k \in 1 .. Len(code) : code[k] \in InChain
    BY <1>2, <1>3 DEF InChain
  <2> QED BY <2>2, <2>3, <2>4 DEF Oldest, InChain
<1> QED BY <1>b, <1>3, <1>5, <1>6, <1>7 DEF Destroys, code

(* Code that has been executed leaves what an exit keeps.                  *)
LEMMA NothingLeft ==
  ASSUME NEW base, NEW alive, Destroys(<<>>, base, alive)
  PROVE  alive = base
BY DEF Destroys

(* A destructor call finds its object alive, and the youngest.             *)
LEMMA NextCall ==
  ASSUME NEW code, NEW base, NEW alive, Destroys(code, base, alive), code # <<>>
  PROVE  /\ Head(code) \in alive /\ Head(code) \in Objects
         /\ \A o \in alive : o <= Head(code)
         /\ Destroys(Tail(code), base, alive \ {Head(code)})
<1>1. code \in Seq(Objects) /\ Len(code) \in Nat /\ Len(code) >= 1 /\ Head(code) = code[1]
  BY DEF Destroys
<1>2. \A k \in 1 .. Len(code) : code[k] \in Objects /\ code[k] \in Int
  <2>1. \A k \in 1 .. Len(code) : code[k] \in Objects
    BY <1>1
  <2> QED BY <2>1, ObjectNumbers
<1>3. \A k \in 2 .. Len(code) : code[k] < code[1]
  BY <1>1 DEF Destroys
<1>4. \A o \in alive : o <= code[1]
  <2> SUFFICES ASSUME NEW o \in alive PROVE o <= code[1]
    OBVIOUS
  <2>1. CASE o \in base
    BY <1>1, <1>2, <2>1, ObjectNumbers DEF Destroys
  <2>2. CASE \E k \in 1 .. Len(code) : o = code[k]
    BY <1>1, <1>2, <1>3, <2>2
  <2> QED BY <2>1, <2>2 DEF Destroys
<1>5. code[1] \in alive
  BY <1>1 DEF Destroys
<1> DEFINE rest == Tail(code)
<1>6. rest \in Seq(Objects) /\ Len(rest) = Len(code) - 1 /\ \A k \in 1 .. Len(code) - 1 : rest[k] = code[k + 1]
  BY <1>1
<1> HIDE DEF rest
<1>7. \A j, k \in 1 .. Len(rest) : j < k => rest[k] < rest[j]
  BY <1>1, <1>6 DEF Destroys
<1>8. \A k \in 1 .. Len(rest), o \in base : o < rest[k]
  BY <1>1, <1>6 DEF Destroys
<1>9. alive \ {code[1]} = base \cup {rest[k] : k \in 1 .. Len(rest)}
  <2>1. \A o \in base : o \in alive /\ o # code[1]
    BY <1>1, <1>2 DEF Destroys
  <2>2. \A k \in 1 .. Len(rest) : rest[k] \in alive /\ rest[k] # code[1]
    <3> SUFFICES ASSUME NEW k \in 1 .. Len(rest) PROVE rest[k] \in alive /\ rest[k] # code[1]
      OBVIOUS
    <3>1. k + 1 \in 2 .. Len(code) /\ k + 1 \in 1 .. Len(code) /\ rest[k] = code[k + 1]
      BY <1>1, <1>6
    <3> QED BY <1>1, <1>2, <1>3, <3>1 DEF Destroys
  <2>3. \A o \in alive \ {code[1]} : o \in base \/ \E k \in 1 .. Len(rest) : o = rest[k]
    <3> SUFFICES ASSUME NEW o \in alive, o # code[1], o \notin base
        PROVE \E k \in 1 .. Len(rest) : o = rest[k]
      OBVIOUS
    <3>1. PICK k \in 1 .. Len(code) : o = code[k]
      BY DEF Destroys
    <3>2. k # 1
      BY <3>1
    <3>3. k - 1 \in 1 .. Len(rest) /\ rest[k - 1] = code[k]
      BY <1>1, <1>6, <3>1, <3>2
    <3> QED BY <3>1, <3>3
  <2> QED BY <2>1, <2>2, <2>3
<1> QED BY <1>1, <1>2, <1>4, <1>5, <1>6, <1>7, <1>8, <1>9 DEF Destroys, rest

-----------------------------------------------------------------------------
(* The walk.                                                               *)

(* The innermost construct.                                                *)
LEMMA TopFacts ==
  ASSUME ScopeIInv, Depth > 0
  PROVE  /\ frames \in Seq(Frame) /\ locals \in Seq(Objects) /\ frames # <<>>
         /\ Depth \in 1 .. Len(frames) /\ Top \in Frame
         /\ Top.mark \in 0 .. Len(locals) /\ Top.loop \in 0 .. Top.mark /\ Top.break \in 0 .. Top.mark
         /\ Top.kind \in Scopes \cup Bodies /\ Top.returns \in BOOLEAN /\ Top.both \in BOOLEAN
         /\ Top.kind \in Bodies => Top.mark = Len(locals)
         /\ Top.done => Top.kind \in Bodies
<1>1. /\ frames \in Seq(Frame) /\ locals \in Seq(Objects) /\ frames # <<>>
      /\ Depth \in 1 .. Len(frames)
  BY DEF ScopeIInv, ChainSound, Depth
<1>2. /\ Top \in Frame /\ Top.mark \in Nat /\ Top.loop \in Nat /\ Top.break \in Nat
      /\ Top.kind \in Scopes \cup Bodies /\ Top.returns \in BOOLEAN /\ Top.both \in BOOLEAN
  BY <1>1, FrameFields DEF Top
<1>3. /\ Top.mark <= Len(locals) /\ (Top.kind \in Bodies => Top.mark = Len(locals))
      /\ Top.done => Top.kind \in Bodies
  BY <1>1 DEF ScopeIInv, ChainSound, Top, Depth
<1>4. Top.break <= Top.mark /\ Top.loop <= Top.mark
  BY <1>1 DEF ScopeIInv, ChainSound, Top, Depth
<1> QED BY <1>1, <1>2, <1>3, <1>4

(* While the walk goes on, control is at it, gone or waiting.              *)
LEMMA WalkingControl ==
  ASSUME ScopeIInv, Walking
  PROVE  Depth > 0 /\ (ControlHere \/ ControlReturned \/ ControlWaits)
BY DEF ScopeIInv, ControlSound, Walking, ControlJumps, ControlReturns, ControlFalls, Leave, Fall

(* Nothing happens to control that is elsewhere while what it waits for is *)
(* still ahead.                                                            *)
LEMMA ElsewhereKeeps ==
  ASSUME ScopeIInv, Walking, at # Here, UNCHANGED <<live, todo, at>>,
         \A i \in 1 .. Depth :
           at \in {Wait(i), Select(i)} =>
             /\ i \in 1 .. Len(frames')
             /\ frames'[i].mark = frames[i].mark /\ frames'[i].kind = frames[i].kind
             /\ frames'[i].both = frames[i].both
             /\ Oldest(locals', frames[i].mark) = Oldest(locals, frames[i].mark)
  PROVE  ControlSound'
<1>1. ControlReturned \/ ControlWaits
  BY WalkingControl DEF ControlHere
<1>2. CASE ControlReturned
  BY <1>2 DEF ControlReturned, ControlSound
<1>3. CASE ControlWaits
  <2>1. PICK i \in 1 .. Depth :
          /\ at \in {Wait(i), Select(i)} /\ todo = <<>>
          /\ live = Oldest(locals, frames[i].mark)
          /\ frames[i].kind \in {"loop", "switch", "then", "else"}
          /\ frames[i].kind = "else" => ~frames[i].both
    BY <1>3 DEF ControlWaits
  <2>2. /\ i \in 1 .. Depth'
        /\ at' \in {Wait(i), Select(i)} /\ todo' = <<>>
        /\ live' = Oldest(locals', frames'[i].mark)
        /\ frames'[i].kind \in {"loop", "switch", "then", "else"}
        /\ frames'[i].kind = "else" => ~frames'[i].both
    BY <2>1 DEF Depth
  <2>3. ControlWaits'
    BY <2>2 DEF ControlWaits
  <2> QED BY <2>3 DEF ControlSound
<1> QED BY <1>1, <1>2, <1>3

(* A statement is over where it stands.                                    *)
LEMMA OverFrames ==
  ASSUME ScopeIInv, Depth > 0, NEW returns \in BOOLEAN, frames' = Over(frames, returns), locals' = locals
  PROVE  /\ ChainSound(locals, frames)' /\ Depth' = Depth /\ Top'.returns = returns
         /\ Top'.mark = Top.mark /\ Top'.kind = Top.kind
         /\ \A i \in 1 .. Depth : /\ frames'[i].mark = frames[i].mark /\ frames'[i].kind = frames[i].kind
                                  /\ frames'[i].both = frames[i].both
<1>1. ChainSound(locals, Over(frames, returns)) /\ frames \in Seq(Frame) /\ Len(frames) \in Nat
  <2>1. ChainSound(locals, frames)
    BY DEF ScopeIInv
  <2>2. ChainSound(locals, Over(frames, returns))
    BY <2>1, OverKeepsChain
  <2>3. frames \in Seq(Frame)
    BY <2>1 DEF ChainSound
  <2> QED BY <2>2, <2>3
<1>2. /\ Len(frames') = Len(frames) /\ frames'[Len(frames)].returns = returns
      /\ \A i \in 1 .. Depth : /\ frames'[i].mark = frames[i].mark /\ frames'[i].kind = frames[i].kind
                               /\ frames'[i].both = frames[i].both
  BY <1>1, OverKeepsShape DEF Depth
<1> QED BY <1>1, <1>2 DEF Depth, Top

(* ... with control elsewhere.                                             *)
LEMMA OverElsewhere ==
  ASSUME ScopeIInv, Walking, at # Here, UNCHANGED <<locals, live, todo, at>>,
         NEW returns \in BOOLEAN, frames' = Over(frames, returns)
  PROVE  ScopeIInv'
<1>1. Depth > 0
  BY WalkingControl
<1>2. /\ ChainSound(locals, frames)' /\ Depth' = Depth
      /\ \A i \in 1 .. Depth : /\ frames'[i].mark = frames[i].mark /\ frames'[i].kind = frames[i].kind
                               /\ frames'[i].both = frames[i].both
  BY <1>1, OverFrames
<1>3. ControlSound'
  BY <1>2, ElsewhereKeeps DEF Depth
<1> QED BY <1>2, <1>3 DEF ScopeIInv

LEMMA ExpressionKeeps == ASSUME ScopeIInv, Expression PROVE ScopeIInv'
<1> USE DEF Expression, Statement
<1>1. Walking /\ Depth > 0
  BY WalkingControl
<1>2. CASE at # Here
  BY <1>1, <1>2, OverElsewhere
<1>3. CASE at = Here
  <2>1. /\ ChainSound(locals, frames)' /\ Depth' = Depth /\ Top'.returns = FALSE
    BY <1>1, OverFrames
  <2>2. ControlHere
    BY <1>1, <1>3, WalkingControl DEF ControlReturned, ControlWaits, Here, Returned, Wait, Select
  <2>3. ControlHere'
    BY <2>1, <2>2 DEF ControlHere, InChain
  <2> QED BY <2>1, <2>3 DEF ScopeIInv, ControlSound
<1> QED BY <1>2, <1>3

LEMMA SameOldest ==
  ASSUME NEW ls, NEW ks, NEW n, \A k \in 1 .. n : ks[k] = ls[k]
  PROVE  Oldest(ks, n) = Oldest(ls, n)
BY DEF Oldest

(* Control that has come here.                                             *)
LEMMA AtHere ==
  ASSUME ScopeIInv, Walking, at = Here
  PROVE  ControlHere
BY WalkingControl DEF ControlReturned, ControlWaits, Here, Returned, Wait, Select

(* Control that arrives at the end of the construct it waited for.         *)
LEMMA ArrivesWith ==
  ASSUME ScopeIInv, Walking, at \in {Wait(Depth), Select(Depth)}
  PROVE  /\ todo = <<>> /\ live = Oldest(locals, Top.mark)
         /\ Top.kind \in {"loop", "switch", "then", "else"}
         /\ Top.kind = "else" => ~Top.both
<1>1. ControlWaits
  BY WalkingControl DEF ControlHere, ControlReturned, Wait, Select, Here, Returned
<1>2. PICK i \in 1 .. Depth :
        /\ at \in {Wait(i), Select(i)} /\ todo = <<>>
        /\ live = Oldest(locals, frames[i].mark)
        /\ frames[i].kind \in {"loop", "switch", "then", "else"}
        /\ frames[i].kind = "else" => ~frames[i].both
  BY <1>1 DEF ControlWaits
<1>3. i = Depth
  BY <1>2 DEF Wait, Select
<1> QED BY <1>2, <1>3 DEF Top

(* A declaration: the object is the youngest, in the chain and alive.      *)
LEMMA LocalDeclareKeeps == ASSUME ScopeIInv, ~SwitchCtors, Declare PROVE ScopeIInv'
<1>1. Walking /\ Depth > 0 /\ Top.kind \in Scopes
  BY WalkingControl DEF Declare, Statement
<1>2. PICK o \in Objects :
        /\ \A k \in 1 .. Len(locals) : locals[k] < o
        /\ locals' = Append(locals, o)
        /\ live' = IF at = Here THEN live \cup {o} ELSE live
  BY <1>1 DEF Declare, Scopes
<1>3. frames' = Over(frames, FALSE) /\ todo' = todo /\ at' = at
  BY DEF Declare
<1>4. /\ frames \in Seq(Frame) /\ locals \in Seq(Objects) /\ frames # <<>> /\ Len(locals) \in Nat
      /\ Depth \in 1 .. Len(frames)
  BY <1>1, TopFacts
<1>5. ChainSound(locals', frames)
  <2>1. ChainSound(locals, frames) /\ frames[Len(frames)].kind \notin Bodies
    BY <1>1 DEF ScopeIInv, Top, Depth, Scopes, Bodies
  <2> QED BY <1>2, <1>4, <2>1, DeclareKeepsChain
<1>6. ChainSound(locals', frames')
  BY <1>3, <1>5, OverKeepsChain
<1>7. /\ Len(frames') = Len(frames) /\ frames'[Len(frames)].returns = FALSE
      /\ \A i \in 1 .. Len(frames) :
           /\ frames'[i].mark = frames[i].mark /\ frames'[i].kind = frames[i].kind
           /\ frames'[i].both = frames[i].both
  <2>1. Len(frames) > 0
    BY <1>4
  <2> QED BY <1>3, <1>4, <2>1, OverKeepsShape
<1>8. Len(locals') = Len(locals) + 1 /\ locals'[Len(locals) + 1] = o
      /\ \A k \in 1 .. Len(locals) : locals'[k] = locals[k]
  BY <1>2, <1>4
<1>9. ControlSound'
  <2>1. CASE at = Here
    <3>1. ControlHere
      BY <1>1, <2>1, AtHere
    <3>2. InChain' = InChain \cup {o}
      BY <1>4, <1>8 DEF InChain
    <3>3. ControlHere'
      BY <1>2, <1>3, <1>7, <2>1, <3>1, <3>2 DEF ControlHere, Depth, Top
    <3> QED BY <3>3 DEF ControlSound
  <2>2. CASE at # Here
    <3>1. \A i \in 1 .. Len(frames) : frames[i].mark \in 0 .. Len(locals)
      BY <1>4, FrameFields DEF ScopeIInv, ChainSound
    <3>2. \A i \in 1 .. Len(frames) : Oldest(locals', frames[i].mark) = Oldest(locals, frames[i].mark)
      <4> SUFFICES ASSUME NEW i \in 1 .. Len(frames)
          PROVE Oldest(locals', frames[i].mark) = Oldest(locals, frames[i].mark)
        OBVIOUS
      <4>1. \A k \in 1 .. frames[i].mark : locals'[k] = locals[k]
        BY <1>4, <1>8, <3>1
      <4> QED BY <4>1, SameOldest
    <3> QED BY <1>1, <1>2, <1>3, <1>4, <1>7, <2>2, <3>2, ElsewhereKeeps DEF Depth
  <2> QED BY <2>1, <2>2
<1>10. live' \subseteq Objects /\ todo' \in Seq(0 .. MaxLocals)
  BY <1>2, <1>3 DEF ScopeIInv
<1> QED BY <1>6, <1>9, <1>10 DEF ScopeIInv

(* A break or a continue destroys what lies beyond its boundary, which is  *)
(* the mark of the construct it leaves.                                    *)
LEMMA JumpKeeps ==
  ASSUME ScopeIInv, Statement, NEW kinds \in {{"loop"}, {"loop", "switch"}}, NEW stop,
         stop = IF kinds = {"loop"} THEN Top.loop ELSE Top.break,
         NEW i \in Innermost(kinds), Execute(Unwind(stop), Leave(i)),
         frames' = Over(frames, FALSE), UNCHANGED <<locals, live>>
  PROVE  ScopeIInv'
<1>1. Walking /\ Depth > 0
  BY WalkingControl DEF Statement
<1>2. CASE at # Here
  BY <1>1, <1>2, OverElsewhere DEF Execute
<1>3. CASE at = Here
  <2>1. todo' = Unwind(stop) /\ at' = Leave(i)
    BY <1>3 DEF Execute
  <2>2. ChainSound(locals, frames)
    BY DEF ScopeIInv
  <2>3. i \in 1 .. Depth /\ Depth \in 1 .. Len(frames) /\ InnermostOf(frames, kinds, i, Depth)
        /\ frames[i].kind \in kinds
    BY <1>1, TopFacts DEF Innermost, InnermostOf
  <2>4. stop = frames[i].mark
    BY <2>2, <2>3 DEF ChainSound, Top
  <2>5. frames[i].mark \in 0 .. Len(locals)
    <3>1. frames[i].mark \in Nat /\ Len(locals) \in Nat
      BY <2>2, <2>3, FrameFields DEF ChainSound, Depth
    <3>2. frames[i].mark <= Len(locals)
      BY <2>2, <2>3 DEF ChainSound, Depth
    <3> QED BY <3>1, <3>2
  <2>6. Destroys(Unwind(stop), Oldest(locals, frames[i].mark), InChain)
    BY <2>2, <2>4, <2>5, UnwindDestroys
  <2>7. live = InChain
    BY <1>1, <1>3, AtHere DEF ControlHere
  <2>8. /\ ChainSound(locals, frames)' /\ Depth' = Depth
        /\ \A k \in 1 .. Depth : frames'[k].mark = frames[k].mark /\ frames'[k].kind = frames[k].kind
    BY <1>1, OverFrames
  <2>9. ControlJumps'
    BY <2>1, <2>3, <2>6, <2>7, <2>8 DEF ControlJumps
  <2>10. todo' \in Seq(0 .. MaxLocals)
    BY <2>1, <2>6, ObjectCode DEF Destroys
  <2> QED BY <2>8, <2>9, <2>10 DEF ScopeIInv, ControlSound
<1> QED BY <1>2, <1>3

LEMMA BreakKeeps == ASSUME ScopeIInv, Break PROVE ScopeIInv'
<1>1. PICK i \in Innermost({"loop", "switch"}) : Execute(Unwind(Top.break), Leave(i))
  BY DEF Break
<1>2. {"loop", "switch"} # {"loop"}
  OBVIOUS
<1> QED BY <1>1, <1>2, JumpKeeps DEF Break

LEMMA ContinueKeeps == ASSUME ScopeIInv, Continue PROVE ScopeIInv'
<1>1. PICK i \in Innermost({"loop"}) : Execute(Unwind(Top.loop), Leave(i))
  BY DEF Continue
<1> QED BY <1>1, JumpKeeps DEF Continue

(* A return destroys the whole chain.                                      *)
LEMMA UnwindAll == ASSUME ScopeIInv PROVE Destroys(Unwind(0), {}, InChain)
<1>1. ChainSound(locals, frames)
  BY DEF ScopeIInv
<1>2. 0 \in 0 .. Len(locals) /\ Oldest(locals, 0) = {}
  BY <1>1 DEF ChainSound, Oldest
<1> QED BY <1>1, <1>2, UnwindDestroys

LEMMA ReturnKeeps == ASSUME ScopeIInv, Return \/ ReturnValue PROVE ScopeIInv'
<1> USE DEF Return, ReturnValue, Statement
<1>1. /\ Walking /\ Depth > 0 /\ frames' = Over(frames, TRUE) /\ UNCHANGED <<locals, live>>
      /\ \/ Execute(Unwind(0), Leave(0))
         \/ Execute(<<Evaluate>> \o Unwind(0), Leave(0))
  BY WalkingControl
<1>2. CASE at # Here
  BY <1>1, <1>2, OverElsewhere DEF Execute
<1>3. CASE at = Here
  <2> DEFINE code == Unwind(0)
  <2>1. Destroys(code, {}, InChain) /\ code \in Seq(Objects) /\ code \in Seq(0 .. MaxLocals)
    BY UnwindAll, ObjectCode DEF Destroys
  <2> HIDE DEF code
  <2>2. live = InChain /\ InChain' = InChain
    BY <1>1, <1>3, AtHere DEF ControlHere, InChain
  <2>3. at' = Leave(0) /\ todo' \in {code, <<Evaluate>> \o code}
    BY <1>1, <1>3 DEF Execute, code
  <2>4. ControlReturns' /\ todo' \in Seq(0 .. MaxLocals)
    <3>1. CASE todo' = code
      BY <1>1, <2>1, <2>2, <2>3, <3>1 DEF ControlReturns
    <3>2. CASE todo' = <<Evaluate>> \o code
      <4>1. 0 \in 0 .. MaxLocals
        BY BoundsAssumption DEF BoundsAssumption
      <4>2. /\ todo' # <<>> /\ Head(todo') = Evaluate /\ Tail(todo') = code
            /\ todo' \in Seq(0 .. MaxLocals)
        BY <2>1, <3>2, <4>1 DEF Evaluate
      <4> QED BY <1>1, <2>1, <2>2, <2>3, <4>2 DEF ControlReturns
    <3> QED BY <2>3, <3>1, <3>2
  <2>5. ChainSound(locals, frames)'
    BY <1>1, OverFrames
  <2> QED BY <1>1, <2>4, <2>5 DEF ScopeIInv, ControlSound
<1> QED BY <1>2, <1>3

(* A case label: nothing was declared before it.                           *)
LEMMA CaseKeeps == ASSUME ScopeIInv, Case PROVE ScopeIInv'
<1>1. /\ Walking /\ Depth > 0 /\ Len(locals) = Top.mark /\ frames' = Over(frames, FALSE)
      /\ UNCHANGED <<locals, live, todo>>
  BY WalkingControl DEF Case, Statement
<1>2. /\ ChainSound(locals, frames)' /\ Depth' = Depth /\ Top'.returns = FALSE
  BY <1>1, OverFrames
<1>3. CASE at' = at /\ at # Here
  BY <1>1, <1>3, OverElsewhere
<1>4. CASE at' = at /\ at = Here
  <2>1. ControlHere'
    BY <1>1, <1>2, <1>4, AtHere DEF ControlHere, InChain
  <2> QED BY <1>1, <1>2, <2>1 DEF ScopeIInv, ControlSound
<1>5. CASE at = Select(Depth) /\ at' = Here
  <2>1. todo = <<>> /\ live = Oldest(locals, Top.mark)
    BY <1>1, <1>5, ArrivesWith
  <2>2. live = InChain
    BY <1>1, <2>1 DEF Oldest, InChain
  <2>3. ControlHere'
    BY <1>1, <1>2, <1>5, <2>1, <2>2 DEF ControlHere, InChain
  <2> QED BY <1>1, <1>2, <2>3 DEF ScopeIInv, ControlSound
<1>6. (at' = at) \/ (at = Select(Depth) /\ at' = Here)
  BY DEF Case
<1> QED BY <1>3, <1>4, <1>5, <1>6

(* A construct is entered: control goes in, or past its body, or waits for *)
(* a case of the switch.                                                   *)
LEMMA EnterKeeps ==
  ASSUME ScopeIInv, NEW kind \in Scopes \cup Bodies, NEW loop, NEW break,
         loop = IF kind = "loop" THEN Len(locals) ELSE Top.loop,
         break = IF kind \in {"loop", "switch"} THEN Len(locals) ELSE Top.break,
         NEW places \in SUBSET {Here, Wait(Within), Select(Within)},
         kind \notin {"loop", "switch", "then"} => places \subseteq {Here},
         Enter(kind, loop, break, places)
  PROVE  ScopeIInv'
<1> DEFINE new == NewFrame(kind, Len(locals), loop, break)
<1>1. /\ Walking /\ Depth > 0 /\ frames' = Append(frames, new)
      /\ UNCHANGED <<locals, live, todo>>
      /\ at' \in IF at = Here THEN places ELSE {at}
  BY WalkingControl DEF Enter, Statement
<1>2. frames \in Seq(Frame) /\ frames # <<>> /\ Depth \in 1 .. Len(frames)
      /\ ChainSound(locals, frames) /\ Len(frames) \in Nat /\ Len(locals) \in Nat
  BY <1>1, TopFacts DEF ScopeIInv
<1>3. new.kind = kind /\ new.mark = Len(locals) /\ new.returns = FALSE
  BY DEF NewFrame
<1>4. ChainSound(locals', frames')
  BY <1>1, <1>2, EnterKeepsChain DEF Top, Depth
<1>5. /\ Len(frames') = Len(frames) + 1 /\ frames'[Len(frames) + 1] = new
      /\ \A i \in 1 .. Len(frames) : frames'[i] = frames[i]
  BY <1>1, <1>2
<1> HIDE DEF new
<1>6. ControlSound'
  <2>1. CASE at # Here
    <3>1. \A i \in 1 .. Depth : i \in 1 .. Len(frames') /\ frames'[i] = frames[i]
      BY <1>2, <1>5 DEF Depth
    <3> QED BY <1>1, <2>1, <3>1, ElsewhereKeeps
  <2>2. CASE at = Here /\ at' = Here
    <3>1. ControlHere
      BY <1>1, <2>2, AtHere
    <3>2. ControlHere'
      BY <1>1, <1>2, <1>3, <1>5, <2>2, <3>1 DEF ControlHere, InChain, Depth, Top
    <3> QED BY <3>2 DEF ControlSound
  <2>3. CASE at = Here /\ at' \in {Wait(Within), Select(Within)} /\ kind \in {"loop", "switch", "then"}
    <3>1. ControlHere
      BY <1>1, <2>3, AtHere
    <3>2. Within \in 1 .. Depth' /\ frames'[Within] = new
      BY <1>2, <1>5 DEF Depth, Within
    <3>3. live' = Oldest(locals', frames'[Within].mark) /\ todo' = <<>>
      BY <1>1, <1>3, <3>1, <3>2 DEF ControlHere, InChain, Oldest
    <3>4. /\ frames'[Within].kind \in {"loop", "switch", "then", "else"}
          /\ frames'[Within].kind # "else"
      BY <1>3, <2>3, <3>2
    <3>5. ControlWaits'
      BY <2>3, <3>2, <3>3, <3>4 DEF ControlWaits
    <3> QED BY <3>5 DEF ControlSound
  <2>4. at = Here => \/ at' = Here
                     \/ at' \in {Wait(Within), Select(Within)} /\ kind \in {"loop", "switch", "then"}
    <3>1. at = Here => at' \in places
      BY <1>1
    <3> QED BY <3>1
  <2> QED BY <2>1, <2>2, <2>3, <2>4
<1> QED BY <1>1, <1>4, <1>6 DEF ScopeIInv

LEMMA EntersKeep ==
  ASSUME ScopeIInv, EnterBlock \/ EnterSwitch \/ EnterIf \/ EnterLabel \/ EnterLoop
  PROVE  ScopeIInv'
<1> USE DEF Scopes, Bodies
<1>1. CASE EnterBlock
  BY <1>1, EnterKeeps DEF EnterBlock
<1>2. CASE EnterSwitch
  BY <1>2, EnterKeeps DEF EnterSwitch
<1>3. CASE EnterIf
  BY <1>3, EnterKeeps DEF EnterIf
<1>4. CASE EnterLabel
  BY <1>4, EnterKeeps DEF EnterLabel
<1>5. CASE EnterLoop
  BY <1>5, EnterKeeps DEF EnterLoop
<1> QED BY <1>1, <1>2, <1>3, <1>4, <1>5

(* The else: control that came through the then branch waits for its end.  *)
LEMMA EnterElseKeeps == ASSUME ScopeIInv, EnterElse PROVE ScopeIInv'
<1> DEFINE new == [NewFrame("else", Top.mark, Top.loop, Top.break) EXCEPT !.both = Top.returns]
<1>1. /\ Walking /\ Depth > 0 /\ Top.kind = "then" /\ frames' = [frames EXCEPT ![Depth] = new]
      /\ at' = IF at = Here THEN Wait(Depth) ELSE Arrive
      /\ UNCHANGED <<locals, live, todo>>
  BY WalkingControl DEF EnterElse
<1>2. /\ frames \in Seq(Frame) /\ frames # <<>> /\ Depth \in 1 .. Len(frames) /\ Len(frames) \in Nat
      /\ Top.mark = Len(locals) /\ Top \in Frame /\ Top.mark \in Nat /\ Top.loop \in Nat /\ Top.break \in Nat
      /\ Top.returns \in BOOLEAN
  BY <1>1, TopFacts DEF Bodies, Frame
<1>3. /\ new.kind = "else" /\ new.mark = Top.mark /\ new.loop = Top.loop /\ new.break = Top.break
      /\ new.returns = FALSE /\ new.both = Top.returns /\ new \in Frame
  BY <1>2 DEF NewFrame, Frame, Bodies
<1> HIDE DEF new
<1>4. /\ frames' \in Seq(Frame) /\ Len(frames') = Len(frames) /\ frames'[Depth] = new
      /\ \A i \in 1 .. Len(frames) : i # Depth => frames'[i] = frames[i]
  BY <1>1, <1>2, <1>3
<1>5. SameShape(frames, frames')
  <2> SUFFICES ASSUME NEW i \in 1 .. Len(frames)
      PROVE /\ frames'[i].mark = frames[i].mark /\ frames'[i].loop = frames[i].loop
            /\ frames'[i].break = frames[i].break
            /\ frames'[i].kind \in Bodies <=> frames[i].kind \in Bodies
            /\ frames'[i].kind = "loop" <=> frames[i].kind = "loop"
            /\ frames'[i].kind = "switch" <=> frames[i].kind = "switch"
            /\ frames'[i].done => frames[i].done \/ frames[i].kind \in Bodies
    BY <1>4 DEF SameShape
  <2>1. CASE i = Depth
    BY <1>1, <1>3, <1>4, <2>1 DEF Top, Bodies
  <2>2. CASE i # Depth
    BY <1>4, <2>2
  <2> QED BY <2>1, <2>2
<1>6. ChainSound(locals', frames')
  BY <1>1, <1>5, ShapeKeepsChain DEF ScopeIInv
<1>7. Depth' = Depth /\ Top' = new /\ InChain' = InChain /\ InChain = Oldest(locals, Top.mark)
  BY <1>1, <1>2, <1>4 DEF Depth, Top, InChain, Oldest
<1>8. ControlSound'
  <2>1. CASE at = Here
    <3>1. ControlHere
      BY <1>1, <2>1, AtHere
    <3>2. /\ Depth \in 1 .. Depth' /\ at' = Wait(Depth) /\ todo' = <<>>
          /\ live' = Oldest(locals', frames'[Depth].mark)
          /\ frames'[Depth].kind \in {"loop", "switch", "then", "else"}
          /\ ~frames'[Depth].both
      BY <1>1, <1>2, <1>3, <1>4, <1>7, <2>1, <3>1 DEF ControlHere
    <3>3. ControlWaits'
      BY <3>2 DEF ControlWaits
    <3> QED BY <3>3 DEF ControlSound
  <2>2. CASE at # Here /\ at \in {Wait(Depth), Select(Depth)}
    <3>1. todo = <<>> /\ live = InChain
      BY <1>1, <1>2, <1>7, <2>2, ArrivesWith DEF Top
    <3>2. ControlHere'
      BY <1>1, <1>3, <1>7, <2>2, <3>1 DEF ControlHere, Arrive
    <3> QED BY <3>2 DEF ControlSound
  <2>3. CASE at # Here /\ at \notin {Wait(Depth), Select(Depth)}
    <3>1. UNCHANGED <<live, todo, at>>
      BY <1>1, <2>3 DEF Arrive
    <3>2. \A i \in 1 .. Depth : at \in {Wait(i), Select(i)} => i # Depth
      BY <2>3
    <3>3. \A i \in 1 .. Depth : i # Depth => i \in 1 .. Len(frames') /\ frames'[i] = frames[i]
      BY <1>2, <1>4 DEF Depth
    <3> QED BY <1>1, <2>3, <3>1, <3>2, <3>3, ElsewhereKeeps
  <2> QED BY <2>1, <2>2, <2>3
<1> QED BY <1>1, <1>6, <1>8 DEF ScopeIInv

(* A construct is left: the chain is cut at its mark.                      *)
LEMMA LeaveFrame ==
  ASSUME ScopeIInv, Depth > 0, NEW returns \in BOOLEAN,
         frames' = Over(Outer, returns), locals' = SubSeq(locals, 1, Top.mark)
  PROVE  /\ ChainSound(locals, frames)' /\ Depth' = Depth - 1
         /\ Depth' > 0 => Top'.returns = returns
         /\ InChain' = Oldest(locals, Top.mark)
         /\ \A i \in 1 .. Depth : i # Depth =>
              /\ i \in 1 .. Len(frames')
              /\ frames'[i].mark = frames[i].mark /\ frames'[i].kind = frames[i].kind
              /\ frames'[i].both = frames[i].both
              /\ Oldest(locals', frames[i].mark) = Oldest(locals, frames[i].mark)
<1>1. /\ frames \in Seq(Frame) /\ frames # <<>> /\ Len(frames) \in Nat /\ ChainSound(locals, frames)
      /\ Top = frames[Len(frames)] /\ Top.mark \in Nat
  BY TopFacts DEF ScopeIInv, Top, Depth
<1>2. /\ ChainSound(locals', Outer) /\ Len(locals') = Top.mark
      /\ \A k \in 1 .. Top.mark : locals'[k] = locals[k]
      /\ Outer \in Seq(Frame) /\ Len(Outer) = Len(frames) - 1
      /\ \A i \in 1 .. Len(frames) - 1 : Outer[i] = frames[i]
  BY <1>1, LeaveKeepsChain DEF Outer, Top, Depth
<1>3. ChainSound(locals', frames')
  BY <1>2, OverKeepsChain
<1>4. /\ Len(frames') = Len(frames) - 1
      /\ Len(frames') > 0 => frames'[Len(frames')].returns = returns
      /\ \A i \in 1 .. Len(frames) - 1 :
           /\ frames'[i].mark = frames[i].mark /\ frames'[i].kind = frames[i].kind
           /\ frames'[i].both = frames[i].both
  <2>1. /\ Len(frames') = Len(Outer)
        /\ Len(Outer) > 0 => frames'[Len(Outer)].returns = returns
        /\ \A i \in 1 .. Len(Outer) :
             /\ frames'[i].mark = Outer[i].mark /\ frames'[i].kind = Outer[i].kind
             /\ frames'[i].both = Outer[i].both
    BY <1>2, OverKeepsShape
  <2> QED BY <1>2, <2>1
<1>5. InChain' = Oldest(locals, Top.mark)
  <2>1. InChain' = Oldest(locals', Top.mark)
    BY <1>2 DEF InChain, Oldest
  <2> QED BY <1>2, <2>1, SameOldest
<1>6. ASSUME NEW i \in 1 .. Len(frames) - 1
      PROVE  Oldest(locals', frames[i].mark) = Oldest(locals, frames[i].mark)
  <2>1. i \in 1 .. Len(frames) /\ Len(frames) \in 1 .. Len(frames) /\ i <= Len(frames)
    BY <1>1
  <2>2. frames[i].mark \in Nat
    BY <1>1, <2>1, FrameFields
  <2>3. frames[i].mark <= Top.mark
    BY <1>1, <2>1 DEF ChainSound
  <2>k. \A k \in 1 .. frames[i].mark : k \in 1 .. Top.mark
    BY <1>1, <2>2, <2>3
  <2>4. \A k \in 1 .. frames[i].mark : locals'[k] = locals[k]
    BY <1>2, <2>k
  <2> QED BY <2>4, SameOldest
<1>7. \A i \in 1 .. Depth : i # Depth => i \in 1 .. Len(frames) - 1
  BY <1>1 DEF Depth
<1> QED BY <1>3, <1>4, <1>5, <1>6, <1>7 DEF Depth, Top

LEMMA LeaveBodyKeeps == ASSUME ScopeIInv, LeaveBody PROVE ScopeIInv'
<1> DEFINE r == Top.kind = "else" /\ Top.returns /\ Top.both
<1>1. /\ Walking /\ Depth > 0 /\ frames' = Over(Outer, r) /\ at' = Arrive
      /\ UNCHANGED <<locals, live, todo>> /\ Top.done
  BY WalkingControl DEF LeaveBody
<1>2. /\ locals \in Seq(Objects) /\ Top.mark = Len(locals) /\ r \in BOOLEAN
  BY <1>1, TopFacts
<1>3. locals' = SubSeq(locals, 1, Top.mark)
  BY <1>1, <1>2
<1>4. /\ ChainSound(locals, frames)' /\ Depth' = Depth - 1
      /\ Depth' > 0 => Top'.returns = r
      /\ InChain' = Oldest(locals, Top.mark)
      /\ \A i \in 1 .. Depth : i # Depth =>
           /\ i \in 1 .. Len(frames')
           /\ frames'[i].mark = frames[i].mark /\ frames'[i].kind = frames[i].kind
           /\ frames'[i].both = frames[i].both
           /\ Oldest(locals', frames[i].mark) = Oldest(locals, frames[i].mark)
  BY <1>1, <1>2, <1>3, LeaveFrame
<1>5. ControlSound'
  <2>1. CASE at = Here
    <3>1. ControlHere /\ at' = Here
      BY <1>1, <2>1, AtHere DEF Arrive, Here, Wait, Select
    <3>2. ControlHere'
      BY <1>1, <1>2, <1>4, <3>1 DEF ControlHere, InChain, Oldest
    <3> QED BY <3>2 DEF ControlSound
  <2>2. CASE at \in {Wait(Depth), Select(Depth)}
    <3>1. todo = <<>> /\ live = Oldest(locals, Top.mark) /\ (Top.kind = "else" => ~Top.both)
      BY <1>1, <2>2, ArrivesWith
    <3>2. ControlHere'
      BY <1>1, <1>4, <2>2, <3>1 DEF ControlHere, Arrive
    <3> QED BY <3>2 DEF ControlSound
  <2>3. CASE at # Here /\ at \notin {Wait(Depth), Select(Depth)}
    <3>1. UNCHANGED <<live, todo, at>>
      BY <1>1, <2>3 DEF Arrive
    <3>2. \A i \in 1 .. Depth : at \in {Wait(i), Select(i)} => i # Depth
      BY <2>3
    <3> QED BY <1>1, <1>4, <2>3, <3>1, <3>2, ElsewhereKeeps
  <2> QED BY <2>1, <2>2, <2>3
<1> QED BY <1>1, <1>4, <1>5 DEF ScopeIInv

(* The end of a scope: the code planted there destroys the scope's own     *)
(* locals.  Control that is here did not come over a return.               *)
LEMMA LeaveScopeKeeps == ASSUME ScopeIInv, LeaveScope PROVE ScopeIInv'
<1> DEFINE r == Top.kind = "block" /\ Top.returns
<1>1. /\ Walking /\ Depth > 0 /\ Top.kind \in Scopes /\ frames' = Over(Outer, r)
      /\ locals' = SubSeq(locals, 1, Top.mark) /\ live' = live
      /\ IF at = Here
           THEN /\ todo' = IF Top.returns THEN <<>> ELSE Unwind(Top.mark)
                /\ at' = Fall
           ELSE at' = Arrive /\ UNCHANGED todo
  BY WalkingControl DEF LeaveScope
<1>2. Top.mark \in 0 .. Len(locals) /\ r \in BOOLEAN /\ ChainSound(locals, frames)
  BY <1>1, TopFacts DEF ScopeIInv
<1>4. /\ ChainSound(locals, frames)' /\ Depth' = Depth - 1
      /\ Depth' > 0 => Top'.returns = r
      /\ InChain' = Oldest(locals, Top.mark)
      /\ \A i \in 1 .. Depth : i # Depth =>
           /\ i \in 1 .. Len(frames')
           /\ frames'[i].mark = frames[i].mark /\ frames'[i].kind = frames[i].kind
           /\ frames'[i].both = frames[i].both
           /\ Oldest(locals', frames[i].mark) = Oldest(locals, frames[i].mark)
  BY <1>1, <1>2, LeaveFrame
<1>5. ControlSound' /\ todo' \in Seq(0 .. MaxLocals)
  <2>1. CASE at = Here
    <3>1. ControlHere
      BY <1>1, <2>1, AtHere
    <3>2. todo' = Unwind(Top.mark) /\ at' = Fall /\ live = InChain /\ ~r
      BY <1>1, <2>1, <3>1 DEF ControlHere
    <3>3. Destroys(todo', InChain', live')
      BY <1>1, <1>2, <1>4, <3>2, UnwindDestroys
    <3>4. ControlFalls'
      BY <1>4, <3>2, <3>3 DEF ControlFalls
    <3>5. todo' \in Seq(Objects)
      BY <3>3 DEF Destroys
    <3> QED BY <3>4, <3>5, ObjectCode DEF ControlSound
  <2>2. CASE at # Here /\ at \in {Wait(Depth), Select(Depth)}
    <3>1. /\ todo = <<>> /\ live = Oldest(locals, Top.mark)
          /\ Top.kind \in {"loop", "switch", "then", "else"}
      BY <1>1, <2>2, ArrivesWith
    <3>2. ~r
      BY <3>1
    <3>3. ControlHere'
      BY <1>1, <1>4, <2>2, <3>1, <3>2 DEF ControlHere, Arrive
    <3> QED BY <1>1, <2>2, <3>3 DEF ControlSound, ScopeIInv
  <2>3. CASE at # Here /\ at \notin {Wait(Depth), Select(Depth)}
    <3>1. UNCHANGED <<live, todo, at>>
      BY <1>1, <2>3 DEF Arrive
    <3>2. \A i \in 1 .. Depth : at \in {Wait(i), Select(i)} => i # Depth
      BY <2>3
    <3>3. ControlSound'
      BY <1>1, <1>4, <2>3, <3>1, <3>2, ElsewhereKeeps
    <3> QED BY <3>1, <3>3 DEF ScopeIInv
  <2> QED BY <2>1, <2>2, <2>3
<1> QED BY <1>1, <1>4, <1>5 DEF ScopeIInv

-----------------------------------------------------------------------------
(* The execution.                                                          *)

(* One call of an exit's code.                                             *)
LEMMA StepKeeps == ASSUME ScopeIInv, Step PROVE ScopeIInv'
<1>1. /\ todo # <<>> /\ todo' = Tail(todo) /\ live' = live \ {Head(todo)}
      /\ UNCHANGED <<locals, frames, at>>
  BY DEF Step
<1>2. /\ ChainSound(locals, frames)' /\ live' \subseteq Objects /\ todo' \in Seq(0 .. MaxLocals)
      /\ Depth' = Depth /\ Top' = Top /\ InChain' = InChain
  BY <1>1 DEF ScopeIInv, Depth, Top, InChain
<1>3. ControlJumps \/ ControlReturns \/ ControlFalls
  BY <1>1 DEF ScopeIInv, ControlSound, ControlHere, ControlReturned, ControlWaits
<1>4. CASE ControlJumps
  <2>1. ControlJumps'
    BY <1>1, <1>2, <1>4, NextCall DEF ControlJumps
  <2> QED BY <1>2, <2>1 DEF ScopeIInv, ControlSound
<1>5. CASE ControlReturns
  <2>1. CASE Destroys(todo, {}, live)
    <3>1. ControlReturns'
      BY <1>1, <1>5, <2>1, NextCall DEF ControlReturns
    <3> QED BY <1>2, <3>1 DEF ScopeIInv, ControlSound
  <2>2. CASE Head(todo) = Evaluate /\ live = InChain /\ Destroys(Tail(todo), {}, live)
    <3>1. live' = live
      BY <1>1, <2>2, ObjectNumbers DEF ScopeIInv
    <3>2. ControlReturns'
      BY <1>1, <1>5, <2>2, <3>1 DEF ControlReturns
    <3> QED BY <1>2, <3>2 DEF ScopeIInv, ControlSound
  <2> QED BY <1>5, <2>1, <2>2 DEF ControlReturns
<1>6. CASE ControlFalls
  <2>1. ControlFalls'
    BY <1>1, <1>2, <1>6, NextCall DEF ControlFalls
  <2> QED BY <1>2, <2>1 DEF ScopeIInv, ControlSound
<1> QED BY <1>3, <1>4, <1>5, <1>6

(* The jump behind it.                                                     *)
LEMMA JumpsKeep == ASSUME ScopeIInv, Jump PROVE ScopeIInv'
<1>1. /\ todo = <<>> /\ UNCHANGED <<locals, frames, live, todo>>
      /\ \/ at.mode = "leave" /\ at' = IF at.frame = 0 THEN Returned ELSE Wait(at.frame)
         \/ at.mode = "fall" /\ at' = IF Depth = 0 THEN Returned ELSE Here
  BY DEF Jump
<1>2. /\ ChainSound(locals, frames)' /\ live' \subseteq Objects /\ todo' \in Seq(0 .. MaxLocals)
      /\ Depth' = Depth /\ Top' = Top /\ InChain' = InChain /\ Depth \in Nat
  BY <1>1 DEF ScopeIInv, Depth, Top, InChain, ChainSound
<1>3. ControlJumps \/ ControlReturns \/ ControlFalls
  BY <1>1 DEF ScopeIInv, ControlSound, ControlHere, ControlReturned, ControlWaits,
              Here, Returned, Wait, Select
<1>4. CASE ControlJumps
  <2>1. PICK i \in 1 .. Depth :
          /\ at = Leave(i) /\ frames[i].kind \in {"loop", "switch"}
          /\ Destroys(todo, Oldest(locals, frames[i].mark), live)
    BY <1>4 DEF ControlJumps
  <2>2. at' = Wait(i)
    BY <1>1, <1>2, <2>1 DEF Leave
  <2>3. live = Oldest(locals, frames[i].mark)
    BY <1>1, <2>1, NothingLeft
  <2>4. ControlWaits'
    BY <1>1, <1>2, <2>1, <2>2, <2>3 DEF ControlWaits
  <2> QED BY <1>2, <2>4 DEF ScopeIInv, ControlSound
<1>5. CASE ControlReturns
  <2>1. at' = Returned /\ live = {}
    BY <1>1, <1>5, NothingLeft DEF ControlReturns, Leave
  <2>2. ControlReturned'
    BY <1>1, <2>1 DEF ControlReturned
  <2> QED BY <1>2, <2>2 DEF ScopeIInv, ControlSound
<1>6. CASE ControlFalls
  <2>1. live = InChain /\ at' = IF Depth = 0 THEN Returned ELSE Here
    BY <1>1, <1>6, NothingLeft DEF ControlFalls, Fall
  <2>2. CASE Depth = 0
    <3>1. locals = <<>>
      BY <2>2 DEF ScopeIInv, ChainSound, Depth
    <3>2. InChain = {}
      BY <3>1 DEF InChain
    <3>3. ControlReturned'
      BY <1>1, <2>1, <2>2, <3>2 DEF ControlReturned
    <3> QED BY <1>2, <3>3 DEF ScopeIInv, ControlSound
  <2>3. CASE Depth # 0
    <3>1. ControlHere'
      BY <1>1, <1>2, <1>6, <2>1, <2>3 DEF ControlHere, ControlFalls
    <3> QED BY <1>2, <3>1 DEF ScopeIInv, ControlSound
  <2> QED BY <2>2, <2>3
<1> QED BY <1>3, <1>4, <1>5, <1>6

-----------------------------------------------------------------------------
LEMMA ScopeInitIInv == ScopeInit => ScopeIInv
<1> SUFFICES ASSUME ScopeInit PROVE ScopeIInv
  OBVIOUS
<1>1. /\ locals = <<>> /\ frames = <<NewFrame("block", 0, 0, 0)>>
      /\ live = {} /\ todo = <<>> /\ at = Here
  BY DEF ScopeInit
<1> DEFINE new == NewFrame("block", 0, 0, 0)
<1>2. /\ new \in Frame /\ new.kind = "block" /\ new.mark = 0 /\ new.loop = 0 /\ new.break = 0
      /\ ~new.returns /\ ~new.done
  BY DEF NewFrame, Frame, Scopes
<1> HIDE DEF new
<1>3. frames \in Seq(Frame) /\ Len(frames) = 1 /\ frames[1] = new /\ frames # <<>>
  BY <1>1, <1>2 DEF new
<1>4. locals \in Seq(Objects) /\ Len(locals) = 0 /\ todo \in Seq(0 .. MaxLocals)
  BY <1>1
<1>5. ChainSound(locals, frames)
  BY <1>1, <1>2, <1>3, <1>4 DEF ChainSound, InnermostOf, Bodies
<1>6. ControlHere
  BY <1>1, <1>2, <1>3, <1>4 DEF ControlHere, InChain, Depth, Top
<1> QED BY <1>1, <1>4, <1>5, <1>6 DEF ScopeIInv, ControlSound

LEMMA ScopeNextIInv == ASSUME ~SwitchCtors, ScopeIInv, [ScopeNext]_scopeVars PROVE ScopeIInv'
<1>1. CASE Expression
  BY <1>1, ExpressionKeeps
<1>2. CASE Declare
  BY <1>2, LocalDeclareKeeps
<1>3. CASE Break
  BY <1>3, BreakKeeps
<1>4. CASE Continue
  BY <1>4, ContinueKeeps
<1>5. CASE Return \/ ReturnValue
  BY <1>5, ReturnKeeps
<1>6. CASE Case
  BY <1>6, CaseKeeps
<1>7. CASE EnterBlock \/ EnterSwitch \/ EnterIf \/ EnterLabel \/ EnterLoop
  BY <1>7, EntersKeep
<1>8. CASE EnterElse
  BY <1>8, EnterElseKeeps
<1>9. CASE LeaveBody
  BY <1>9, LeaveBodyKeeps
<1>10. CASE LeaveScope
  BY <1>10, LeaveScopeKeeps
<1>11. CASE Step
  BY <1>11, StepKeeps
<1>12. CASE Jump
  BY <1>12, JumpsKeep
<1>13. CASE UNCHANGED scopeVars
  BY <1>13 DEF scopeVars, ScopeIInv, ControlSound, ControlHere, ControlReturned, ControlWaits,
       ControlJumps, ControlReturns, ControlFalls, InChain, Depth, Top
<1> QED
  BY <1>1, <1>2, <1>3, <1>4, <1>5, <1>6, <1>7, <1>8, <1>9, <1>10, <1>11, <1>12, <1>13
  DEF ScopeNext

LEMMA ScopeIInvHolds == ASSUME ~SwitchCtors PROVE ScopeSpec => []ScopeIInv
BY ScopeInitIInv, ScopeNextIInv, PTL DEF ScopeSpec

(* At every statement of every body that control reaches, over whatever    *)
(* path, what is alive is what the compiler has in its chain; what waits   *)
(* behind a construct has lost that construct's locals and no others; and  *)
(* a function that is left has destroyed everything.                       *)
THEOREM ScopesDestroyTheirLocals ==
  ASSUME ~SwitchCtors PROVE ScopeSpec => []ChainIsLive
<1>1. ScopeIInv => ChainIsLive
  <2> SUFFICES ASSUME ScopeIInv PROVE ChainIsLive
    OBVIOUS
  <2> USE DEF Here, Returned, Wait, Select, Leave, Fall
  <2>1. CASE ControlHere \/ ControlReturned
    BY <2>1 DEF ControlHere, ControlReturned, ChainIsLive
  <2>2. CASE ControlWaits
    BY <2>2 DEF ControlWaits, ChainIsLive, Oldest
  <2>3. CASE ControlJumps \/ ControlReturns \/ ControlFalls
    BY <2>3 DEF ControlJumps, ControlReturns, ControlFalls, ChainIsLive
  <2> QED BY <2>1, <2>2, <2>3 DEF ScopeIInv, ControlSound
<1> QED BY <1>1, ScopeIInvHolds, PTL

(* Every destructor call of every exit finds its object alive and the      *)
(* youngest; the value of a return is computed before the first of them.   *)
THEOREM ExitsDestroyTheYoungest ==
  ASSUME ~SwitchCtors PROVE ScopeSpec => []DestroysYoungest
<1>1. ScopeIInv => DestroysYoungest
  <2> SUFFICES ASSUME ScopeIInv, todo # <<>> PROVE
        /\ Head(todo) # Evaluate => Head(todo) \in live /\ \A o \in live : o <= Head(todo)
        /\ Head(todo) = Evaluate => live = InChain
    BY DEF DestroysYoungest
  <2>1. ASSUME NEW base, Destroys(todo, base, live)
        PROVE  /\ Head(todo) \in live /\ (\A o \in live : o <= Head(todo)) /\ Head(todo) # Evaluate
    BY <2>1, NextCall, ObjectNumbers
  <2>2. \/ \E base : Destroys(todo, base, live)
        \/ Head(todo) = Evaluate /\ live = InChain
    BY DEF ScopeIInv, ControlSound, ControlHere, ControlReturned, ControlWaits,
           ControlJumps, ControlReturns, ControlFalls
  <2> QED BY <2>1, <2>2
<1> QED BY <1>1, ScopeIInvHolds, PTL

(* Control never gets past a statement that the compiler takes to return   *)
(* always: the calls it leaves out there would never have run.             *)
THEOREM ReturnsAreFinal ==
  ASSUME ~SwitchCtors PROVE ScopeSpec => []ReturnsDoNotFall
<1>1. ScopeIInv => ReturnsDoNotFall
  BY AtHere DEF ReturnsDoNotFall, ControlHere, Walking
<1> QED BY <1>1, ScopeIInvHolds, PTL
=============================================================================
