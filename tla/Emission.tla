------------------------------ MODULE Emission ------------------------------
(* The order in which codegen_run writes the declarations of a program as  *)
(* C, and what a C compiler, which reads them once from top to bottom,     *)
(* must have seen before each.                                             *)
EXTENDS Naturals, Sequences, FiniteSets, SequencesExt

CONSTANTS
  Primitive,  \* the types that are declared nowhere
  NoOwner     \* the owner of a function that is no method

VARIABLES
  program,  \* top-level declarations in source order, namespaces opened up
  cInput,   \* g_c_mode: the source is C
  text      \* what codegen_run has written: <<>> before it

emitVars == <<program, cInput, text>>

(* What a declaration or an item of C text refers to: a name that must be  *)
(* known (as a pointer to a class needs it), or known in full; a name of   *)
(* the source, or one made from it.                                        *)
Tag(n) == <<"tag", "", n>>
Whole(n) == <<"whole", "", n>>
Made(op, n) == <<"whole", op, n>>

(* What a body or an initializer does: <<"call", function>>, <<"see",      *)
(* name>>, <<"new", class>>, <<"newarray", type>>, <<"delete", class>>.    *)
(* The source must have the name in full; in C, new and delete have become *)
(* calls of functions named after the constructor or the type.             *)
InSource(uses) == {Whole(u[2]) : u \in uses}

DeclsOf(kind) == {d \in Range(program) : d.kind = kind}
CtorOf(c) ==
  LET ctors == {m \in Range((CHOOSE d \in DeclsOf("class") : d.name = c).methods) : m.role = "ctor"}
  IN  IF ctors = {} THEN c ELSE (CHOOSE m \in ctors : TRUE).name
InC(uses) ==
  {CASE u[1] = "new" -> Made("new", CtorOf(u[2]))
     [] u[1] \in {"newarray", "delete"} -> Made(u[1], u[2])
     [] OTHER -> Whole(u[2]) : u \in uses}

(* A definition outside the class becomes the body of its method there.    *)
Attached(c, m) ==
  LET defs == {d \in DeclsOf("function") : d.owner = c.name /\ d.name = m.name}
  IN  IF defs = {} THEN m ELSE [m EXCEPT !.body = TRUE, !.uses = (CHOOSE d \in defs : TRUE).uses]
Methods(c) == [i \in DOMAIN c.methods |-> Attached(c, c.methods[i])]

-----------------------------------------------------------------------------
(* The parts of the text, one operator for each walk over the declarations.*)
MadeItem(part, op, name, needs) == <<[part |-> part, op |-> op, name |-> name, needs |-> needs]>>
Item(part, name, needs) == MadeItem(part, "", name, needs)

Walk(Emit(_)) == FlattenSeq([i \in DOMAIN program |-> Emit(program[i])])
WalkOf(kind, Emit(_)) == Walk(LAMBDA d : IF d.kind = kind THEN Emit(d) ELSE <<>>)
WalkMethods(Emit(_, _)) ==
  WalkOf("class", LAMBDA c : FlattenSeq([i \in DOMAIN c.methods |-> Emit(c, Methods(c)[i])]))

emit_forward_declarations ==
  Walk(LAMBDA d : IF d.kind = "class" \/ (d.kind = "union" /\ cInput) THEN Item("forward", d.name, {}) ELSE <<>>)
emit_typedefs == WalkOf("typedef", LAMBDA d : Item("typedef", d.name, d.needs))
emit_enums == WalkOf("enum", LAMBDA d : Item("enum", d.name, d.needs))
emit_union(d) == Item("union", d.name, d.needs)
emit_unions == IF cInput THEN <<>> ELSE WalkOf("union", emit_union)

(* A slot of a vtable: what its type mentions, and the method in it.       *)
emit_vtable_struct(c) ==
  IF c.vtable = <<>> THEN <<>>
  ELSE MadeItem("struct", "vtable", c.name, UNION {s.needs : s \in Range(c.vtable)})
emit_struct(c) ==
  Item("struct", c.name, c.needs \cup IF c.vtable = <<>> THEN {} ELSE {Made("vtable", c.name)})
emit_classes ==
  Walk(LAMBDA d : CASE d.kind = "class" -> emit_vtable_struct(d) \o emit_struct(d)
                    [] d.kind = "union" /\ cInput -> emit_union(d)
                    [] OTHER -> <<>>)

emit_globals == WalkOf("variable", LAMBDA d : Item("variable", d.name, d.needs \cup InC(d.uses)))

emit_method_prototypes == WalkMethods(LAMBDA c, m : Item("prototype", m.name, m.needs \cup {Tag(c.name)}))

(* A function that is declared and then defined gets one prototype.        *)
IsFree(d) == d.kind = "function" /\ d.owner = NoOwner
SeenBefore(i) == \E j \in 1..(i - 1) : IsFree(program[j]) /\ program[j].name = program[i].name
emit_free_prototypes ==
  FlattenSeq([i \in DOMAIN program |->
    IF IsFree(program[i]) /\ ~SeenBefore(i) THEN Item("prototype", program[i].name, program[i].needs) ELSE <<>>])

(* A slot whose method has no body holds 0.                                *)
BodyNamed(n) ==
  \E c \in DeclsOf("class") : \E m \in Range(Methods(c)) : m.name = n /\ m.body
emit_vtable_instances ==
  WalkOf("class", LAMBDA c :
    IF c.vtable = <<>> THEN <<>>
    ELSE MadeItem("variable", "instance", c.name,
           {Made("vtable", c.name)} \cup {Whole(s.impl) : s \in {t \in Range(c.vtable) : BodyNamed(t.impl)}}))

(* An allocator for each constructor; for a class without one, an          *)
(* allocator that sets the vtable itself.                                  *)
emit_new ==
  WalkOf("class", LAMBDA c :
    LET ctors == SelectSeq(Methods(c), LAMBDA m : m.role = "ctor")
    IN  IF ctors = <<>>
        THEN MadeItem("function", "new", c.name,
               {Whole("misc"), Whole(c.name)} \cup IF c.vtable = <<>> THEN {} ELSE {Made("instance", c.name)})
        ELSE FlattenSeq([i \in DOMAIN ctors |->
               MadeItem("function", "new", ctors[i].name,
                 {Whole("misc"), Whole(c.name)} \cup ctors[i].needs
                   \cup IF ctors[i].body THEN {Whole(ctors[i].name)} ELSE {})]))

emit_array_new ==
  WalkOf("class", LAMBDA c : MadeItem("function", "newarray", c.name, {Whole("misc"), Whole(c.name)}))
  \o FlattenSeq([i \in DOMAIN Primitive |-> MadeItem("function", "newarray", Primitive[i], {Whole("misc")})])

(* delete runs the destructor through the vtable if it has a slot there.   *)
emit_delete ==
  MadeItem("function", "delete", "any", {Whole("misc")})
  \o WalkOf("class", LAMBDA c :
       LET dtors == {m \in Range(Methods(c)) : m.role = "dtor" /\ m.body}
           virtual == \E s \in Range(c.vtable) : s.dtor
       IN  MadeItem("function", "delete", c.name,
             {Whole("misc"), Whole(c.name)}
               \cup IF virtual THEN {Made("vtable", c.name)} ELSE {Whole(m.name) : m \in dtors}))

emit_method_definitions ==
  WalkMethods(LAMBDA c, m :
    IF m.body THEN Item("function", m.name, m.needs \cup {Whole(c.name)} \cup InC(m.uses)) ELSE <<>>)

(* Mutant: definitions outside a class count as functions of their own.    *)
emit_free_definitions_All ==
  WalkOf("function", LAMBDA d : IF d.body THEN Item("function", d.name, d.needs \cup InC(d.uses)) ELSE <<>>)
emit_free_definitions ==
  WalkOf("function", LAMBDA d :
    IF IsFree(d) /\ d.body THEN Item("function", d.name, d.needs \cup InC(d.uses)) ELSE <<>>)

(* misc.h has malloc and free.                                             *)
AllUses ==
  UNION {d.uses : d \in DeclsOf("function") \cup DeclsOf("variable")}
  \cup UNION {m.uses : m \in UNION {Range(c.methods) : c \in DeclsOf("class")}}
UsesNewOrDelete == \E u \in AllUses : u[1] \in {"new", "newarray", "delete"}
NeedsMisc == UsesNewOrDelete \/ (DeclsOf("class") # {} /\ ~cInput)
Misc == IF NeedsMisc THEN Item("include", "misc", {}) ELSE <<>>
NewAndDelete == IF NeedsMisc THEN emit_new \o emit_array_new \o emit_delete ELSE <<>>

(* Mutant: file-scope variables before the classes they may be of.         *)
Written_VariablesEarly ==
  Misc \o emit_forward_declarations \o emit_typedefs \o emit_enums \o emit_unions \o emit_globals \o emit_classes
    \o emit_method_prototypes \o emit_free_prototypes \o emit_vtable_instances \o NewAndDelete
    \o emit_method_definitions \o emit_free_definitions

Written ==
  Misc \o emit_forward_declarations \o emit_typedefs \o emit_enums \o emit_unions \o emit_classes
    \o (IF cInput THEN <<>> ELSE emit_globals)
    \o emit_method_prototypes \o emit_free_prototypes
    \o (IF cInput THEN emit_globals ELSE <<>>)
    \o emit_vtable_instances \o NewAndDelete
    \o emit_method_definitions \o emit_free_definitions

-----------------------------------------------------------------------------
(* The source: a declaration may use what stands before it; the body of a  *)
(* method in its class also all of the class.                              *)
Introduces(d) ==
  CASE d.kind = "forward" -> {Tag(d.name)}
    [] d.kind = "class" -> {Tag(d.name), Whole(d.name)} \cup {Whole(m.name) : m \in Range(d.methods)}
    [] OTHER -> {Tag(d.name), Whole(d.name)}
Requires(d) ==
  CASE d.kind = "class" ->
         d.needs \cup UNION {m.needs \cup InSource(m.uses) : m \in Range(d.methods)}
           \cup UNION {{Whole(s.impl)} \cup s.needs : s \in Range(d.vtable)}
    [] d.kind = "function" -> d.needs \cup InSource(d.uses) \cup IF IsFree(d) THEN {} ELSE {Whole(d.name)}
    [] d.kind = "variable" -> d.needs \cup InSource(d.uses)
    [] d.kind = "forward" -> {}
    [] OTHER -> d.needs
Own(d) ==
  CASE d.kind = "class" \/ IsFree(d) -> Introduces(d)
    [] d.kind = "union" -> {Tag(d.name)}
    [] OTHER -> {}
Introduced == UNION {Introduces(d) : d \in Range(program)} \cup {Whole(Primitive[i]) : i \in DOMAIN Primitive}
Again(d) ==
  \E e \in Range(program) :
    /\ e.name = d.name /\ e.kind = d.kind
    /\ d.kind = "function" => e.body \/ ~d.body

Prototyped(c, n) == \E e \in DeclsOf("class") : e.name = c /\ \E m \in Range(e.methods) : m.name = n /\ ~m.body

EmitInit == program = <<>> /\ cInput \in BOOLEAN /\ text = <<>>

Parse(d) ==
  /\ text = <<>>
  /\ Requires(d) \subseteq Introduced \cup Own(d)
  /\ ~Again(d) /\ (d.kind = "function" /\ ~IsFree(d) => Prototyped(d.owner, d.name))
  /\ program' = Append(program, d)
  /\ UNCHANGED <<cInput, text>>

codegen_run ==
  /\ text = <<>> /\ program # <<>>
  /\ text' = Written
  /\ UNCHANGED <<program, cInput>>

-----------------------------------------------------------------------------
(* What the C compiler knows after an item.                                *)
Gives(item) ==
  {<<"tag", item.op, item.name>>} \cup IF item.part = "forward" THEN {} ELSE {<<"whole", item.op, item.name>>}

(* Though declarations of one kind are gathered, away from where the       *)
(* source has them, and new, delete and vtables refer to functions of the  *)
(* generator's own, no item of the C text uses what has not been declared  *)
(* yet, or holds what has not been defined yet.                            *)
DeclaredBeforeUse ==
  \A i \in DOMAIN text :
    text[i].needs \subseteq {Tag(text[i].name)} \cup UNION {Gives(text[j]) : j \in 1..(i - 1)}

(* Whatever the source declares more than once, and wherever it defines    *)
(* it, the C text has it: no item twice, a prototype of every function,    *)
(* and the definition of each that has a body anywhere.                    *)
Items(part, name) == Cardinality({i \in DOMAIN text : text[i].part = part /\ text[i].op = "" /\ text[i].name = name})
DefinedIn(owner, name) ==
  \/ \E d \in DeclsOf("function") : d.owner = owner /\ d.name = name /\ d.body
  \/ \E c \in DeclsOf("class") : \E m \in Range(c.methods) : c.name = owner /\ m.name = name /\ m.body
AsDeclared(owner, name) ==
  Items("prototype", name) = 1 /\ Items("function", name) = IF DefinedIn(owner, name) THEN 1 ELSE 0
DefinedOnce ==
  text # <<>> =>
    /\ \A i, j \in DOMAIN text :
         text[i].part = text[j].part /\ text[i].op = text[j].op /\ text[i].name = text[j].name => i = j
    /\ \A d \in DeclsOf("function") : AsDeclared(d.owner, d.name)
    /\ \A c \in DeclsOf("class") :
         Items("struct", c.name) = 1 /\ \A m \in Range(c.methods) : AsDeclared(c.name, m.name)
    /\ \A d \in UNION {DeclsOf(kind) : kind \in {"typedef", "enum", "union", "variable"}} : Items(d.kind, d.name) = 1

(* The C text can be compiled as it stands, read once from the top: what   *)
(* it uses has been declared by then, and what the source declares and     *)
(* defines is in it, once.                                                 *)
ReadsThrough == DeclaredBeforeUse /\ DefinedOnce
=============================================================================
