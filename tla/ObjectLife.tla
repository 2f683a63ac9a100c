----------------------------- MODULE ObjectLife -----------------------------
(***************************************************************************)
(* The life of one object: the constructor, destructor and vtable code     *)
(* that ast.c (synthesize_implicit_members), lower.c (phases 6 to 9a) and  *)
(* codegen.c (the new/delete functions) write, and its execution.          *)
(*                                                                         *)
(* A behaviour writes a program, class by class: a base, members, a        *)
(* constructor, a destructor and virtual methods or not.  It then creates  *)
(* one object of one class, and executes the compiled code of that         *)
(* object's life, a statement at a time.                                   *)
(* The reference is C++: an object's base, then its members, then itself,  *)
(* and the reverse to destroy it.                                          *)
(***************************************************************************)
EXTENDS Integers, Sequences, SequencesExt

CONSTANTS
  ArrayLen,   \* bound: elements of an array
  Families    \* bounds: the kinds of programs that are considered, records of
              \*   classes   how many a program has
              \*   fields    the most class-typed members of a class
              \*   shapes    the ways a member is declared
              \*   storages  the ways the object is declared or allocated

NoClass == 0

(* Foo a; const Foo a; Foo a[2]; const Foo a[2]; FooT a; Foo *a; FooPtr a; *)
AllShapes == {"value", "const", "array", "const array", "typedef", "pointer", "typedef pointer"}

ASSUME ProgramAssumption ==
  /\ ArrayLen \in Nat \ {0}
  /\ \A f \in Families :
       /\ f.classes \in Nat \ {0} /\ f.fields \in Nat
       /\ f.shapes \subseteq AllShapes
       /\ f.storages \subseteq AllShapes \cup {"new", "new array", "global"}

VARIABLES
  family,   \* the kind of program this one is
  program,  \* the classes compiled so far, in the order of the source
  object,   \* the object that is followed, a set of at most one
  code,     \* the statements not yet executed, callees expanded
  built,    \* the user's constructor bodies run so far: <<address, class>>
  gone,     \* the user's destructor bodies run so far
  vptr      \* the vtable pointers that are set, by address of the object

lifeVars == <<family, program, object, code, built, gone, vptr>>

(* A class of the source.  args: its constructor needs arguments.          *)
Declarations(c) ==
  [base : {NoClass} \cup 1 .. c - 1,
   fields : UNION {[1 .. n -> [shape : family.shapes, class : 1 .. c - 1]] : n \in 0 .. family.fields},
   ctor : {"none", "default", "args"}, dtor : {"none", "user"}, virtual : BOOLEAN]

(* An address: the way from the object to a part of it, a field (its class *)
(* and number) and an element at a time.  A base has the address of the    *)
(* object it is part of.                                                   *)
Elements(shape) == IF shape \in {"array", "const array"} THEN ArrayLen ELSE 1

Part(at, class, field, element) == at \o <<class, field, element>>

Perform(op, at, class) == [op |-> op, at |-> at, class |-> class]

----------------------------------------------------------------------------
(* ast.c: implicit constructors and destructors                            *)

(* The class of a by-value member, as the parser's tree shows it.          *)
MemberValueClass(f) ==
  IF f.shape \in {"value", "const", "array", "const array"} THEN f.class ELSE NoClass

MemberClasses(d) == {MemberValueClass(d.fields[i]) : i \in DOMAIN d.fields} \ {NoClass}

Bases(d) == {d.base} \ {NoClass}

HasDefaultCtor(c) == program[c].ctor \in {"implicit", "default"}

(* Mutant: only the members are looked at. *)
WantsCtor_NoBase(d) == \E m \in MemberClasses(d) : HasDefaultCtor(m)

WantsCtor(d) ==
  \/ \E b \in Bases(d) : HasDefaultCtor(b)
  \/ \E m \in MemberClasses(d) :
       HasDefaultCtor(m) \/ (program[m].ctor = "none" /\ program[m].vtable)

(* Mutant: only the base is looked at. *)
WantsDtor_NoMembers(d) == \E b \in Bases(d) : program[b].dtor # "none"

WantsDtor(d) == \E c \in Bases(d) \cup MemberClasses(d) : program[c].dtor # "none"

(* The class with its implicit members and what build_vtable finds.  An    *)
(* implicit destructor is virtual if the base's is, and an overriding one  *)
(* takes the slot of the base's.  parts: what C++ has in its objects.      *)
Compiled(d, parts) ==
  [base |-> d.base, fields |-> d.fields, parts |-> parts,
   ctor |-> IF d.ctor = "none" /\ WantsCtor(d) THEN "implicit" ELSE d.ctor,
   dtor |-> IF d.dtor = "none" /\ WantsDtor(d) THEN "implicit" ELSE d.dtor,
   vtable |-> d.virtual \/ \E b \in Bases(d) : program[b].vtable,
   virtualDtor |-> \/ d.virtual /\ d.dtor = "user"
                   \/ \E b \in Bases(d) : program[b].virtualDtor]

----------------------------------------------------------------------------
(* lower.c: what is written into constructors and destructors              *)

(* Construction of one object: its constructor, found or chosen by sema    *)
(* for the arguments given; a class without one has its vtable set.        *)
Initialise(at, c) ==
  IF program[c].ctor # "none" THEN <<Perform("ctor", at, c)>>
  ELSE IF program[c].vtable THEN <<Perform("vtable", at, c)>>
  ELSE <<>>

(* Phase 8-pre, and 9a: every member that is not a pointer.                *)
Injected(f) == f.shape # "pointer"

MemberCtors(at, c) ==
  LET fs == program[c].fields
      Calls(i) == [e \in 1 .. (IF Injected(fs[i]) THEN Elements(fs[i].shape) ELSE 0) |->
                     Initialise(Part(at, c, i, e), fs[i].class)]
  IN  FlattenSeq([i \in 1 .. Len(fs) |-> FlattenSeq(Calls(i))])

BaseCtor(at, c) ==
  IF program[c].base # NoClass /\ program[program[c].base].ctor # "none"
    THEN <<Perform("ctor", at, program[c].base)>>
    ELSE <<>>

VtableInit(at, c) == IF program[c].vtable THEN <<Perform("vtable", at, c)>> ELSE <<>>

(* Mutant: the vtable phase prepends last. *)
CtorCode_VtableFirst(at, c) ==
  VtableInit(at, c) \o BaseCtor(at, c) \o MemberCtors(at, c)
    \o <<Perform("ctor body", at, c)>>

(* Phases 8-pre, 8 and 8b each prepend to the body, in this order.         *)
CtorCode(at, c) ==
  BaseCtor(at, c) \o VtableInit(at, c) \o MemberCtors(at, c)
    \o <<Perform("ctor body", at, c)>>

(* Phase 9a: the members in reverse, an array's last element first.        *)
MemberDtors(at, c) ==
  LET fs == program[c].fields
      Calls(i) ==
        LET n == IF Injected(fs[i]) /\ program[fs[i].class].dtor # "none" THEN Elements(fs[i].shape) ELSE 0
        IN  [j \in 1 .. n |-> Perform("dtor", Part(at, c, i, n + 1 - j), fs[i].class)]
  IN  FlattenSeq([k \in 1 .. Len(fs) |-> Calls(Len(fs) + 1 - k)])

BaseDtor(at, c) ==
  IF program[c].base # NoClass /\ program[program[c].base].dtor # "none"
    THEN <<Perform("dtor", at, program[c].base)>>
    ELSE <<>>

(* Mutant: the base before the members. *)
DtorCode_BaseFirst(at, c) ==
  <<Perform("dtor body", at, c)>> \o BaseDtor(at, c) \o MemberDtors(at, c)

(* A return in the body becomes a jump to the calls behind it.             *)
DtorCode(at, c) ==
  <<Perform("dtor body", at, c)>> \o MemberDtors(at, c) \o BaseDtor(at, c)

(* Phases 7 and 9: a local variable, by the shape of its declaration.      *)
LocalCtors(shape, c) ==
  FlattenSeq([e \in 1 .. (IF shape # "pointer" THEN Elements(shape) ELSE 0) |->
                Initialise(Part(<<>>, NoClass, 1, e), c)])

LocalDtors(shape, c) ==
  LET n == IF shape \in {"value", "array", "typedef", "typedef pointer"} /\ program[c].dtor # "none"
             THEN Elements(shape) ELSE 0
  IN  [j \in 1 .. n |-> Perform("dtor", Part(<<>>, NoClass, 1, n + 1 - j), c)]

TheObject == Part(<<>>, NoClass, 1, 1)

(* The function that creates the object, uses it and ends its life:        *)
(* v32_new_ and v32_delete_ for the heap, main() for a global.             *)
MainCode(o) ==
  LET begin ==
        CASE o.storage \in AllShapes -> LocalCtors(o.storage, o.class)
          [] o.storage \in {"new", "global"} -> Initialise(TheObject, o.class)
          [] o.storage = "new array" -> <<>>
      end ==
        CASE o.storage \in AllShapes -> LocalDtors(o.storage, o.class)
          [] o.storage \in {"new", "new array"} -> <<Perform("delete", TheObject, o.static)>>
          [] o.storage = "global" -> <<>>
  IN  begin \o <<Perform("use", TheObject, o.class)>> \o end

----------------------------------------------------------------------------
(* C++                                                                     *)

Owns(shape) == shape \notin {"pointer", "typedef pointer"}

(* What the rules of C++ ask of a class: what is constructed without       *)
(* arguments can be, and what is const is initialised.                     *)
LegalMember(d, f) ==
  Owns(f.shape) =>
    /\ program[f.class].ctor = "args" => f.shape = "value" /\ d.ctor # "none"
    /\ f.shape \in {"const", "const array"} => program[f.class].ctor = "default"

LegalClass(d) ==
  /\ d.ctor = "none" => \A b \in Bases(d) : program[b].ctor # "args"
  /\ \A i \in DOMAIN d.fields : LegalMember(d, d.fields[i])

Ancestors[c \in DOMAIN program] ==
  {c} \cup (IF program[c].base = NoClass THEN {} ELSE Ancestors[program[c].base])

(* delete through a pointer to a base needs a virtual destructor there.    *)
LegalObject(o) ==
  /\ o.storage \in {"array", "const array"} => program[o.class].ctor # "args"
  /\ o.storage \in {"const", "const array"} => program[o.class].ctor = "default"
  /\ IF o.storage = "new"
       THEN o.static \in Ancestors[o.class] /\ (o.static = o.class \/ program[o.static].virtualDtor)
       ELSE o.static = o.class

(* The objects at the places of sequence ps inside the object at.          *)
Inside(at, ps) == [k \in DOMAIN ps |-> <<at \o ps[k][1], ps[k][2]>>]

(* Every part of an object of class c = d, in the order of construction.   *)
PartsOf(d, c) ==
  LET fs == d.fields
      Member(i) == [e \in 1 .. (IF Owns(fs[i].shape) THEN Elements(fs[i].shape) ELSE 0) |->
                      Inside(Part(<<>>, c, i, e), program[fs[i].class].parts)]
  IN  (IF d.base = NoClass THEN <<>> ELSE program[d.base].parts)
        \o FlattenSeq([i \in 1 .. Len(fs) |-> FlattenSeq(Member(i))])
        \o <<<<<<>>, c>>>>

Parts(o) ==
  FlattenSeq([e \in 1 .. (IF o.storage = "new array" \/ ~Owns(o.storage) THEN 0 ELSE Elements(o.storage)) |->
                Inside(Part(<<>>, NoClass, 1, e), program[o.class].parts)])

(* Those of a sequence of parts whose class is in cs.                      *)
OfClasses(ps, cs) == FlattenSeq([k \in DOMAIN ps |-> IF ps[k][2] \in cs THEN <<ps[k]>> ELSE <<>>])

(* The constructors the user wrote, in the order they must run.            *)
UserCtors == {c \in DOMAIN program : program[c].ctor \in {"default", "args"}}
CtorOrder(o) == OfClasses(o.parts, UserCtors)

(* And the destructors.  Those of a global do not run, nor those of the    *)
(* elements of a new array: both are documented.                           *)
UserDtors == {c \in DOMAIN program : program[c].dtor = "user"}
DtorOrder(o) == IF o.storage = "global" THEN <<>> ELSE Reverse(OfClasses(o.parts, UserDtors))

----------------------------------------------------------------------------
LifeInit ==
  /\ family \in Families
  /\ program = <<>> /\ object = {} /\ code = <<>>
  /\ built = <<>> /\ gone = <<>> /\ vptr = <<>>

DeclareClass ==
  /\ Len(program) < family.classes
  /\ \E d \in Declarations(Len(program) + 1) :
       /\ LegalClass(d)
       /\ program' = Append(program, Compiled(d, PartsOf(d, Len(program) + 1)))
  /\ UNCHANGED <<family, object, code, built, gone, vptr>>

CreateObject ==
  /\ Len(program) = family.classes /\ object = {}
  /\ \E storage \in family.storages, static \in DOMAIN program :
       LET o == [storage |-> storage, class |-> family.classes, static |-> static] IN
       /\ LegalObject(o)
       /\ object' = {[storage |-> storage, parts |-> Parts(o)]}
       /\ code' = MainCode(o)
  /\ UNCHANGED <<family, program, built, gone, vptr>>

Pending(op) == code # <<>> /\ Head(code).op = op

Now == Head(code)

CallCtor ==
  /\ Pending("ctor")
  /\ code' = CtorCode(Now.at, Now.class) \o Tail(code)
  /\ UNCHANGED <<family, program, object, built, gone, vptr>>

RunCtorBody ==
  /\ Pending("ctor body")
  /\ built' = IF program[Now.class].ctor = "implicit" THEN built
              ELSE Append(built, <<Now.at, Now.class>>)
  /\ code' = Tail(code)
  /\ UNCHANGED <<family, program, object, gone, vptr>>

SetVtable ==
  /\ Pending("vtable")
  /\ vptr' = [a \in {Now.at} \cup DOMAIN vptr |-> IF a = Now.at THEN Now.class ELSE vptr[a]]
  /\ code' = Tail(code)
  /\ UNCHANGED <<family, program, object, built, gone>>

Use ==
  /\ Pending("use")
  /\ code' = Tail(code)
  /\ UNCHANGED <<family, program, object, built, gone, vptr>>

CallDtor ==
  /\ Pending("dtor")
  /\ code' = DtorCode(Now.at, Now.class) \o Tail(code)
  /\ UNCHANGED <<family, program, object, built, gone, vptr>>

RunDtorBody ==
  /\ Pending("dtor body")
  /\ gone' = IF program[Now.class].dtor = "user" THEN Append(gone, <<Now.at, Now.class>>) ELSE gone
  /\ code' = Tail(code)
  /\ UNCHANGED <<family, program, object, built, vptr>>

(* v32_delete_ of the pointer's class: a virtual destructor is the one in  *)
(* the vtable the object points to.                                        *)
Delete ==
  /\ Pending("delete")
  /\ code' =
       (IF program[Now.class].virtualDtor THEN
          IF Now.at \in DOMAIN vptr THEN <<Perform("dtor", Now.at, vptr[Now.at])>> ELSE <<>>
        ELSE IF program[Now.class].dtor # "none" THEN <<Perform("dtor", Now.at, Now.class)>>
        ELSE <<>>) \o Tail(code)
  /\ UNCHANGED <<family, program, object, built, gone, vptr>>

LifeNext ==
  \/ DeclareClass \/ CreateObject
  \/ CallCtor \/ RunCtorBody \/ SetVtable \/ Use \/ CallDtor \/ RunDtorBody \/ Delete

LifeSpec == LifeInit /\ [][LifeNext]_lifeVars

----------------------------------------------------------------------------
(* The declarations of members and objects that all phases take for the    *)
(* same, those that construct as those that destroy.  Members of a type    *)
(* that is named by a typedef, const locals and locals of a pointer's      *)
(* typedef they do not.                                                    *)
AlikeShapes == {"value", "const", "array", "const array", "pointer"}
Storages == {"value", "array", "typedef", "pointer", "new", "global"}
TreatedAlike == \A f \in Families : f.shapes \subseteq AlikeShapes /\ f.storages \subseteq Storages

(* The user's constructors run on the parts of the object that C++ has,    *)
(* each once, in the order of C++, whatever the compiler had to add, and   *)
(* the user's destructors, each once, in the reverse of that order, and    *)
(* all of them when the code has ended.                                    *)
LivesInOrder ==
  \A o \in object :
    /\ IsPrefix(built, CtorOrder(o)) /\ IsPrefix(gone, DtorOrder(o))
    /\ code = <<>> => gone = DtorOrder(o)

(* When the program gets the object, every constructor has run, none of    *)
(* the destructors, and every polymorphic part has the vtable of its own   *)
(* complete class.                                                         *)
CompleteWhenUsed ==
  \A o \in object : Pending("use") /\ o.storage # "new array" =>
    /\ built = CtorOrder(o) /\ gone = <<>>
    /\ \A x \in Range(o.parts) : program[x[2]].vtable =>
         /\ x[1] \in DOMAIN vptr /\ x[2] \in Ancestors[vptr[x[1]]]
         /\ <<x[1], vptr[x[1]]>> \in Range(o.parts)

(* In the body of a constructor, a virtual call on the object reaches its  *)
(* own class, and its members have their vtables.                          *)
VtablesInCtor ==
  Pending("ctor body") =>
    /\ program[Now.class].vtable => Now.at \in DOMAIN vptr /\ vptr[Now.at] = Now.class
    /\ \A i \in DOMAIN program[Now.class].fields :
         LET f == program[Now.class].fields[i] IN
         Owns(f.shape) /\ program[f.class].vtable =>
           \A e \in 1 .. Elements(f.shape) :
             Part(Now.at, Now.class, i, e) \in DOMAIN vptr /\ vptr[Part(Now.at, Now.class, i, e)] = f.class
=============================================================================
