------------------------------ MODULE Vtables -------------------------------
(* Classes, what they inherit and the layout of their vtables (sema.c,     *)
(* pass 3), and where lower.c and codegen.c make a call arrive with them.  *)
(* A behaviour is a program: its classes, one after the other, and in each *)
(* its methods in the order of the source.  A key is a method's name with  *)
(* the types of its parameters, "~" for a destructor; a method is the      *)
(* class that declares it and its key, and its const is not part of it.    *)
EXTENDS Naturals, Sequences

CONSTANTS
  Class,    \* the names of classes
  Key,      \* name and parameter types of methods
  NoClass   \* no base; no class is being laid out

ASSUME VtablesNoClass == NoClass \notin Class

VARIABLES
  open,       \* the class whose body is being gone through
  line,       \* for each class that is known: it and its bases, to the root
  methods,    \* the keys each class declares
  written,    \* the methods declared with the word virtual
  isVirtual,  \* the methods whose `ival` is set
  overrides,  \* the methods declared `override`
  finals,     \* the methods declared `final`
  sealed,     \* the classes declared `final`
  vtable,     \* each class's slots: a key and the class whose method fills it
  refused     \* whether sema has reported an error

classVars ==
  <<open, line, methods, written, isVirtual, overrides, finals, sealed, vtable, refused>>

Method == Class \X Key
Slot == [key : Key, owner : Class]
Known == {c \in Class : line[c] # {}}

ClassInit ==
  /\ open = NoClass
  /\ line = [c \in Class |-> {}]
  /\ methods = [c \in Class |-> {}]
  /\ written = {} /\ isVirtual = {} /\ overrides = {} /\ finals = {} /\ sealed = {}
  /\ vtable = [c \in Class |-> <<>>]
  /\ refused = FALSE

(* The error of compute_layout. *)
DerivesFrom(b) == b \in sealed

(* compute_layout(c), up to build_vtable's copy of the base's slots.  The  *)
(* base is laid out first, wherever it stands in the source.               *)
BeginClass(c, b, isFinal) ==
  /\ open = NoClass /\ line[c] = {}
  /\ open' = c
  /\ line' = [line EXCEPT ![c] = {c} \cup IF b = NoClass THEN {} ELSE line[b]]
  /\ vtable' = [vtable EXCEPT ![c] = IF b = NoClass THEN <<>> ELSE vtable[b]]
  /\ sealed' = IF isFinal THEN sealed \cup {c} ELSE sealed
  /\ refused' = (refused \/ (b # NoClass /\ DerivesFrom(b)))
  /\ UNCHANGED <<methods, written, isVirtual, overrides, finals>>

(* vtable_find_slot: the slots of class c with that key, of which there is *)
(* at most one.                                                            *)
SlotsFor(c, k) == {i \in DOMAIN vtable[c] : vtable[c][i].key = k}

(* Mutant: the word virtual decides alone. *)
Filled_IfVirtual(c, k, virtual) ==
  IF SlotsFor(c, k) # {}
  THEN [i \in DOMAIN vtable[c] |->
          IF i \in SlotsFor(c, k) /\ virtual THEN [key |-> k, owner |-> c] ELSE vtable[c][i]]
  ELSE IF virtual THEN Append(vtable[c], [key |-> k, owner |-> c])
  ELSE vtable[c]

(* The slots after method k of class c: an override keeps the slot of what *)
(* it overrides, and is virtual whether it says so or not.                 *)
Filled(c, k, virtual) ==
  IF SlotsFor(c, k) # {}
  THEN [i \in DOMAIN vtable[c] |->
          IF i \in SlotsFor(c, k) THEN [key |-> k, owner |-> c] ELSE vtable[c][i]]
  ELSE IF virtual THEN Append(vtable[c], [key |-> k, owner |-> c])
  ELSE vtable[c]

(* The three errors of build_vtable about `override` and `final`.          *)
Misdeclared(c, k, virtual, over, isFinal) ==
  \/ \E i \in SlotsFor(c, k) : <<vtable[c][i].owner, k>> \in finals
  \/ SlotsFor(c, k) = {} /\ over
  \/ SlotsFor(c, k) = {} /\ ~virtual /\ isFinal

(* build_vtable's loop: one method of the class.                           *)
DeclareMethod(k, virtual, over, isFinal) ==
  /\ open # NoClass /\ k \notin methods[open]
  /\ methods' = [methods EXCEPT ![open] = @ \cup {k}]
  /\ written' = IF virtual THEN written \cup {<<open, k>>} ELSE written
  /\ overrides' = IF over THEN overrides \cup {<<open, k>>} ELSE overrides
  /\ finals' = IF isFinal THEN finals \cup {<<open, k>>} ELSE finals
  /\ isVirtual' = IF virtual \/ SlotsFor(open, k) # {}
                  THEN isVirtual \cup {<<open, k>>} ELSE isVirtual
  /\ vtable' = [vtable EXCEPT ![open] = Filled(open, k, virtual)]
  /\ refused' = (refused \/ Misdeclared(open, k, virtual, over, isFinal))
  /\ UNCHANGED <<open, line, sealed>>

EndClass ==
  /\ open # NoClass
  /\ open' = NoClass
  /\ UNCHANGED <<line, methods, written, isVirtual, overrides, finals, sealed, vtable, refused>>

(* A program's next declaration.                                           *)
Declaration ==
  \/ \E c \in Class, b \in Known \cup {NoClass}, f \in BOOLEAN : BeginClass(c, b, f)
  \/ \E k \in Key, v, o, f \in BOOLEAN : DeclareMethod(k, v, o, f)
  \/ EndClass

-----------------------------------------------------------------------------
(* C++: of class c and its bases, o is the nearest that declares k.        *)
Nearest(c, k, o) ==
  /\ o \in line[c] /\ k \in methods[o]
  /\ \A p \in line[c] : k \in methods[p] => p \in line[o]

(* C++: a method is virtual when it, or what it overrides, is declared so. *)
CppVirtual(o, k) == \E a \in line[o] : <<a, k>> \in written

(* The method that runs when o's method k is called on an object of class  *)
(* d through an expression of class s: lower.c takes the slot that holds   *)
(* the method in s's vtable (find_vtable_slot_for_method), and the object  *)
(* brings the instance of d's vtable.                                      *)
Called(d, s, o, k) ==
  LET i == CHOOSE n \in DOMAIN vtable[s] : vtable[s][n] = [key |-> k, owner |-> o]
  IN  IF <<o, k>> \in isVirtual THEN vtable[d][i].owner ELSE o

(* C++: a program that declares `override`, `final` or its bases wrongly.  *)
IllFormed ==
  \/ \E m \in overrides : ~\E a \in line[m[1]] \ {m[1]} : m[2] \in methods[a] /\ CppVirtual(a, m[2])
  \/ \E m \in finals : ~CppVirtual(m[1], m[2])
  \/ \E m \in finals, c \in Class : c # m[1] /\ m[1] \in line[c] /\ m[2] \in methods[c]
  \/ \E b \in sealed, c \in Class : c # b /\ b \in line[c]

(* A call through any base class runs the method C++ says, whatever was    *)
(* declared virtual where, hidden, overridden without saying so or added   *)
(* to the vtable between the two classes: the slots of base and derived    *)
(* agree (build_vtable).  And an error about `override` and `final` is     *)
(* reported exactly when C++ has one.                                      *)
VtablesAsC ==
  /\ \A d \in Known, k \in Key : \A s \in line[d], o \in line[d] :
       Nearest(s, k, o) =>
         IF CppVirtual(o, k) THEN Nearest(d, k, Called(d, s, o, k)) ELSE Called(d, s, o, k) = o
  /\ refused <=> IllFormed

VtablesSpec == ClassInit /\ [][Declaration]_classVars
=============================================================================
