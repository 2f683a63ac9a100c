------------------------------- MODULE MCSema -------------------------------
(***************************************************************************)
(* Programs for sema.c, the middle phases of lower.c and codegen.c.        *)
(* In theme "classes" three classes with two methods are declared: A       *)
(* first, B may derive from it, C from either, and a method has one of the *)
(* combinations of specifiers that matter there.  In theme "text" a        *)
(* program is written as C, in theme "bodies" one function is lowered.     *)
(* The other themes are two to four functions and a call: overloads of     *)
(* one parameter and of two, `...` and defaults, namespaces and using,     *)
(* methods, redeclarations, and arguments that are expressions.            *)
(***************************************************************************)
EXTENDS Vtables, Emission, Bodies

CONSTANTS MaxDecls

VARIABLES theme, step

MCClass == {"A", "B", "C"}
MCKey == {"f", "g"}

Plain == <<FALSE, FALSE, FALSE>>
Virtual == <<TRUE, FALSE, FALSE>>

(* virtual, override, final: of f, and of g, in each class.                *)
Specifiers(c, k) ==
  CASE c = "A" /\ k = "f" -> {Plain, Virtual, <<TRUE, FALSE, TRUE>>, <<FALSE, FALSE, TRUE>>}
    [] c = "A" /\ k = "g" -> {Virtual}
    [] c \in {"B", "C"} /\ k = "f" -> BOOLEAN \X BOOLEAN \X BOOLEAN
    [] c = "B" /\ k = "g" -> {Plain, Virtual, <<FALSE, TRUE, TRUE>>}
    [] OTHER -> {Plain}

Turn == IF Known = {} THEN "A" ELSE IF "B" \notin Known THEN "B" ELSE "C"

ClassStep ==
  \/ \E b \in Known \cup {NoClass}, f \in BOOLEAN : (Turn = "C" => ~f) /\ BeginClass(Turn, b, f)
  \/ \E k \in Key : \E s \in Specifiers(open, k) : DeclareMethod(k, s[1], s[2], s[3])
  \/ EndClass

-----------------------------------------------------------------------------
IntType == Named("int")
Char == Named("char")
Float == Named("float")
Base == Named("Base")
Derived == Named("Derived")
ObjType == Named("Obj")
SubType == Named("Sub")

Fn(name, ns, cls, params) ==
  [id |-> 0, name |-> name, ns |-> ns, cls |-> cls, params |-> params, need |-> Len(params),
   va |-> FALSE, body |-> TRUE, result |-> IntType]
F(params) == Fn("f", <<>>, NoBase, params)
Prototype(f) == [f EXCEPT !.body = FALSE]
Defaults(f, n) == [f EXCEPT !.need = n]
Variadic(f) == [f EXCEPT !.va = TRUE]
Returning(f, t) == [f EXCEPT !.result = t]

MCTypedefs == [word |-> IntType, cint |-> ConstOf(IntType), handle |-> Pointer(Derived),
               Handler |-> <<"callback", IntType>>, SubP |-> Pointer(Named("Sub"))]
MCEnums == {"E"}
MCBaseOf == [Obj |-> NoBase, Sub |-> "Obj", Base |-> NoBase, Derived |-> "Base", S |-> NoBase, T |-> NoBase]
MCCtors == [Obj |-> {}, Sub |-> {}, Base |-> {}, Derived |-> {}, T |-> {},
            S |-> {Fn("S", <<>>, "S", <<IntType>>), Fn("S", <<>>, "S", <<Pointer(IntType)>>)}]
MCConvOps == [Obj |-> {}, Sub |-> {}, Base |-> {}, Derived |-> {}, S |-> {}, T |-> {IntType}]
MCLocals == [i |-> IntType, v |-> Named("T")]
MCGlobals == [i |-> Float, c |-> Char, b |-> Named("bool"), x |-> Float, e |-> Named("E"),
              d |-> Derived, base |-> Base, s |-> Named("S"), p |-> Pointer(IntType), q |-> Pointer(Char),
              arr |-> ArrayOf(IntType), pd |-> Named("handle"), pb |-> Pointer(Base), ci |-> ConstOf(IntType),
              w |-> Named("word"), cd |-> ConstOf(Derived), m |-> IntType]
MCFields ==
  [Base |-> [x |-> Char, n |-> IntType], Derived |-> [y |-> Float, c |-> IntType],
   S |-> [n |-> IntType], T |-> [k |-> IntType],
   Obj |-> [m |-> IntType, q |-> Reference(IntType), next |-> Pointer(ObjType)],
   Sub |-> [k |-> IntType, in |-> ObjType]]
MCEnumConsts == [red |-> "E"]

Name(n) == <<"name", n>>
Call(name, args) == <<"call", name, args>>
At(e, ns, cls) == [e |-> e, ns |-> ns, cls |-> cls]
Top(e) == At(e, <<>>, NoBase)

Names == {Name(n) : n \in (DOMAIN MCGlobals) \cup {"v", "red"}}
Literals == {<<l>> : l \in {"int", "float", "char", "bool", "null", "string"}}
One == {IntType, Char, Named("bool"), Float, Named("E"), Named("word"), Named("cint"), Pointer(IntType), Pointer(Char),
        Base, Derived, Reference(Base), Reference(Derived), Reference(IntType), Reference(ConstOf(Float)),
        Reference(ConstOf(Named("S"))), Named("S"), Named("T"), Pointer(Base), Named("handle")}
Two == {IntType, Char, Named("E"), Float, Reference(Base), Reference(Derived), Named("S")}

(* Expressions that are read from sema's types: of each kind, and with a   *)
(* call and a name that another hides.  Not among them: a comparison, which *)
(* sema gives the type of its operands, and `this`, which it gives the type *)
(* of the object.                                                          *)
Expressions ==
  {<<"plus", Name("i"), <<"int">>>>, <<"comma", Name("d"), Name("c")>>, <<"cond", Name("i"), <<"int">>>>,
   <<"cond", <<"null">>, Name("p")>>, <<"not", Name("i")>>, <<"neg", Name("c")>>, <<"neg", Name("x")>>,
   <<"incr", Name("c")>>, <<"addr", Name("d")>>, <<"addr", Name("c")>>, <<"new", Derived>>,
   <<"deref", Name("pd")>>, <<"deref", Name("p")>>, <<"index", Name("arr"), <<"int">>>>,
   <<"member", Name("d"), "x">>, <<"member", Name("pd"), "y">>, <<"member", <<"deref", Name("pb")>>, "n">>,
   <<"deref", <<"addr", Name("d")>>>>, Call("g", <<Name("c")>>), Call("g", <<Name("p")>>),
   Name("x"), Name("c")}

Themes ==
  [one |->
     [decls |-> <<{F(<<t>>) : t \in One}, {F(<<t>>) : t \in One}, {F(<<t>>) : t \in {IntType, Char, Float, Reference(Base)}}>>,
      calls |-> {Top(Call("f", <<a>>)) : a \in Names \cup Literals}],
   two |->
     [decls |-> <<{F(<<t, u>>) : t \in Two, u \in Two}, {F(<<t, u>>) : t \in Two, u \in Two}>>,
      calls |-> {Top(Call("f", <<a, b>>)) : a, b \in {Name(n) : n \in {"i", "e", "x", "d", "base"}} \cup {<<"null">>}}],
   count |->
     [decls |-> <<{Variadic(F(<<t>>)) : t \in {IntType, Char, Float, Pointer(IntType), Reference(Base)}}
                    \cup {Defaults(F(<<t, u>>), n) : t \in {IntType, Char}, u \in {IntType, Float}, n \in 0..2},
                  {F(<<>>), Variadic(F(<<>>)), Variadic(F(<<IntType, Float>>))}
                    \cup {F(<<t>>) : t \in {IntType, Char, Float}} \cup {Defaults(F(<<Float, t>>), 1) : t \in {IntType, Float}},
                  {F(<<Char, IntType>>), Variadic(F(<<Float>>)), F(<<IntType, IntType, IntType>>)}>>,
      calls |-> {Top(Call("f", args)) : args \in UNION {[1..n -> {<<"int">>, <<"float">>, Name("c")}] : n \in 0..3}}
                 \cup {Top(Call("f", <<a>>)) : a \in {<<"string">>, Name("d"), <<"null">>}}
                 \cup {Top(Call("f", <<<<"null">>, <<"int">>>>))}],
   scope |->
     [decls |-> <<{Fn("f", ns, NoBase, <<t>>) : ns \in {<<>>, <<"n">>, <<"m">>}, t \in {IntType, Char}},
                  {Fn("f", ns, NoBase, <<t>>) : ns \in {<<"n">>, <<"n", "m">>}, t \in {Char, Float}},
                  {Fn("f", ns, NoBase, <<t>>) : ns \in {<<>>, <<"m">>, <<"n">>}, t \in {IntType, Float}}>>,
      calls |-> {At(e, ns, NoBase) :
                   e \in {Call("f", <<a>>) : a \in {Name("i"), Name("c"), <<"float">>}}
                         \cup {<<"qcall", q, "f", <<a>>>> : q \in {<<"n">>, <<"m">>, <<"n", "m">>}, a \in {<<"int">>, Name("c")}},
                   ns \in {<<>>, <<"n">>, <<"n", "m">>}}],
   method |->
     [decls |-> <<{Fn("f", <<>>, "Base", <<t>>) : t \in {IntType, Char, Reference(Base)}}
                    \cup {Prototype(F(<<t>>)) : t \in {IntType, Named("word"), Named("cint")}},
                  {Fn("f", <<>>, c, <<t>>) : c \in {"Base", "Derived"}, t \in {IntType, Char, Float, Reference(Derived)}}
                    \cup {Fn("g", <<>>, "Derived", <<Char>>)},
                  {Prototype(Defaults(F(<<IntType>>), 0)), F(<<IntType>>), F(<<Char>>), F(<<Float>>), Prototype(F(<<Named("cint")>>))},
                  {F(<<Named("word")>>), F(<<Reference(Base)>>), Defaults(F(<<Named("cint")>>), 0)}>>,
      calls |-> {At(Call(name, args), <<>>, c) :
                   name \in {"f", "g"}, c \in {NoBase, "Base", "Derived"},
                   args \in {<<a>> : a \in {<<"int">>, Name("c"), Name("x"), Name("d"), <<"null">>}} \cup {<<>>}}
                 \cup {Top(<<"mcall", o, name, <<a>>>>) :
                         name \in {"f", "g"}, o \in {Name("d"), Name("pd"), Name("base"), Name("i")},
                         a \in {<<"int">>, Name("c"), Name("d")}}],
   typed |->
     [decls |-> <<{Returning(Fn("g", <<>>, NoBase, <<t>>), Char) : t \in {IntType, Char}},
                  {Returning(Fn("g", <<>>, NoBase, <<Pointer(IntType)>>), t) : t \in {Reference(Derived), Pointer(Char)}},
                  {F(<<t>>) : t \in One}, {F(<<t>>) : t \in One}>>,
      calls |-> {At(Call("f", <<a>>), <<>>, c) : a \in Expressions, c \in {NoBase, "Derived"}}
                 \cup {At(Call("f", <<Name("n")>>), <<>>, "Derived")}]]

(* Functions that differ in a const only get one name in C, which the C    *)
(* compiler refuses (mangle); a function has one definition.               *)
ToldApart(f) ==
  \A g \in declared : /\ Redeclares(f, g) => SameFunction(f, g)
                      /\ SameFunction(f, g) => ~(f.body /\ g.body)

CallStep ==
  LET t == Themes[theme]
      n == Len(t.decls)
  IN  \/ /\ step < n /\ step' = step + 1
         /\ \E f \in t.decls[step + 1] : ToldApart(f) /\ Declare([f EXCEPT !.id = step + 1])
      \/ /\ theme = "scope" /\ step = n /\ step' = n + 1
         /\ \E ns \in {<<"n">>, <<"m">>}, name \in {"f", "h", AnyName} : NoteUsing(ns, name)
      \/ /\ step \in {n, n + 1} /\ step' = n + 2
         /\ \E c \in t.calls : ResolveCall(c.e, c.ns, c.cls)

-----------------------------------------------------------------------------
(* Programs of up to MaxDecls declarations for codegen.c: two classes      *)
(* that point at, hold or derive from each other, an enumeration, a union, *)
(* a typedef, functions, out-of-line methods and file-scope variables.     *)
Plain0(kind, name, needs) == [kind |-> kind, name |-> name, needs |-> needs]
Function(name, hasBody, needs, uses) ==
  [kind |-> "function", name |-> name, owner |-> NoOwner, body |-> hasBody, needs |-> needs, uses |-> uses]
OutOfLine(c, name, uses) ==
  [kind |-> "function", name |-> name, owner |-> c, body |-> TRUE, needs |-> {}, uses |-> uses]
Variable(name, needs, uses) == [kind |-> "variable", name |-> name, needs |-> needs, uses |-> uses]
Member(role, name, hasBody, uses) ==
  [role |-> role, name |-> name, body |-> hasBody, needs |-> {}, uses |-> uses]
SlotOf(impl, dtor, c) == [impl |-> impl, dtor |-> dtor, needs |-> {Tag(c)}]
ClassOf0(name, needs, ms, slots) ==
  [kind |-> "class", name |-> name, needs |-> needs, methods |-> ms, vtable |-> slots]

FieldsOfA == {{}, {Tag("B"), Whole("U")}, {Whole("E")}, {Whole("T"), Whole("B")}}
ClassesA ==
  {ClassOf0("A", n, <<>>, <<>>) : n \in FieldsOfA}
  \cup {ClassOf0("A", n, <<Member("ctor", "A.A", b, {}), Member("plain", "A.f", FALSE, {}),
                          Member("dtor", "A.~A", b, {<<"call", "f">>})>>,
                <<SlotOf("A.f", FALSE, "A"), SlotOf("A.~A", TRUE, "A")>>) : n \in {{}, {Whole("E")}}, b \in {TRUE}}
ClassesB ==
  {ClassOf0("B", n, <<Member("dtor", "B.~B", TRUE, u)>>, <<>>) :
     n \in {{}, {Tag("A")}, {Whole("A")}}, u \in {{}, {<<"delete", "A">>}, {<<"new", "B">>}}}
  \cup {ClassOf0("B", {Whole("A")}, <<Member("ctor", "B.B", FALSE, {}), Member("plain", "B.f", TRUE, {<<"call", "A.f">>})>>,
                <<SlotOf("B.f", FALSE, "A"), SlotOf("A.~A", TRUE, "A")>>)}
FunctionsF ==
  {Function("f", FALSE, n, {}) : n \in {{}, {Tag("A")}, {Tag("B"), Tag("T")}}}
  \cup {Function("f", TRUE, {Tag("A")}, u) : u \in {{<<"new", "A">>}, {<<"newarray", "int">>, <<"see", "v">>}, {<<"call", "g">>}}}
Others ==
  {Plain0("forward", c, {}) : c \in {"A", "B"}}
  \cup {Plain0("typedef", "T", n) : n \in {{Tag("A")}, {Tag("A"), Tag("B")}}}
  \cup {Plain0("enum", "E", {})}
  \cup {Plain0("union", "U", n) : n \in {{}, {Tag("A")}, {Whole("E"), Tag("T")}}}
  \cup {Function("g", TRUE, {}, u) : u \in {{<<"call", "f">>}, {<<"newarray", "A">>, <<"delete", "B">>}}}
  \cup {OutOfLine("A", "A.f", u) : u \in {{}, {<<"new", "B">>}}}
  \cup {Variable("v", n, u) : n \in {{Whole("A")}, {Tag("B")}, {Whole("U")}}, u \in {{}, {<<"see", "E">>}}}
CppDecls == ClassesA \cup ClassesB \cup FunctionsF \cup Others

(* C: classes are structs, unions hold them, and a variable may be         *)
(* initialized with a function.                                            *)
CDecls ==
  {ClassOf0("A", n, <<>>, <<>>) : n \in FieldsOfA} \cup {ClassOf0("B", n, <<>>, <<>>) : n \in {{}, {Tag("A")}, {Whole("A"), Whole("U")}}}
  \cup {d \in FunctionsF \cup Others : d.kind # "function" \/ d.owner = NoOwner}
  \cup {Plain0("union", "U", n) : n \in {{Whole("A")}, {Whole("B"), Tag("A")}}}
  \cup {Plain0("typedef", "T", {Tag("U")}), Variable("v", {Tag("A")}, {<<"call", "f">>})}

EmitStep ==
  \/ \E d \in IF cInput THEN CDecls ELSE CppDecls : Len(program) < MaxDecls /\ Parse(d)
  \/ /\ \A d \in DeclsOf("forward") : \E c \in DeclsOf("class") : c.name = d.name
     /\ codegen_run

-----------------------------------------------------------------------------
(* Functions for Bodies: one statement of each kind with every name, and   *)
(* with every way to write an int, an object, a pointer and a function, in *)
(* a free function, a method and a const method; and blocks, loops and     *)
(* switches in which one declaration hides another, or a static one.       *)
ConstObj == Reference(ConstOf(ObjType))

Makes(cls, params, result) == [cls |-> cls, slot |-> NoBase, const |-> FALSE, params |-> params, result |-> result]
BodyCallables ==
  [val |-> Makes(NoBase, <<IntType>>, IntType), dbl |-> Makes(NoBase, <<IntType>>, IntType),
   first |-> Makes(NoBase, <<Reference(IntType)>>, Reference(IntType)), cnt |-> Makes(NoBase, <<Reference(ConstOf(IntType))>>, IntType),
   mod |-> Makes(NoBase, <<Reference(ObjType)>>, IntType), see |-> Makes(NoBase, <<ConstObj>>, IntType),
   take |-> Makes(NoBase, <<Pointer(ObjType)>>, IntType), push |-> Makes(NoBase, <<Reference(ConstOf(Pointer(ObjType)))>>, IntType),
   use |-> Makes(NoBase, <<Named("Handler")>>, IntType), make |-> Makes(NoBase, <<>>, Pointer(SubType)),
   equals |-> Makes(NoBase, <<ConstObj, ConstObj>>, IntType),
   Sub |-> Makes("Sub", <<ConstObj, Pointer(ObjType)>>, IntType),
   get |-> Makes("Obj", <<>>, IntType), peek |-> [Makes("Obj", <<>>, IntType) EXCEPT !.const = TRUE],
   area |-> [Makes("Sub", <<>>, IntType) EXCEPT !.slot = "Obj"],
   me |-> Makes("Obj", <<>>, Reference(ObjType)), ptr |-> Makes("Obj", <<>>, Pointer(ObjType)),
   plus |-> Makes("Obj", <<ConstObj>>, IntType), at |-> Makes("Obj", <<IntType>>, Reference(IntType)),
   star |-> Makes("Obj", <<>>, Reference(IntType)), minus |-> Makes("Obj", <<>>, IntType)]


(* The functions; all have the same parameters.                            *)
ParamNames == <<"a", "x", "o", "po", "pd", "rd", "co", "cb", "h">>
ParamTypes == <<Reference(IntType), IntType, ObjType, Pointer(ObjType), Pointer(SubType), Reference(SubType), ConstObj, Named("Handler"), Named("SubP")>>
In(cls, const, result) ==
  [name |-> "fn", cls |-> cls, const |-> const, names |-> ParamNames, params |-> ParamTypes, result |-> result]
Functions(result) == {In(NoBase, FALSE, result), In("Sub", FALSE, result)}
InMethod(result) == {In("Sub", FALSE, result)}

(* Source text.                                                            *)
Dot(e, m) == Tree(".", m, <<e>>)
CallOf(f, args) == Tree("call", f, <<Id(f)>> \o args)
MethodOf(access, f, args) == Tree("call", f, <<access>> \o args)
Op(k, f, args) == Tree(k, f, args)
Assign(l, e) == Op("=", "", <<l, e>>)
This == Tree("this", "", <<>>)
Run(e) == Tree("expr", "", <<e>>)
Return(e) == Tree("return", "", <<e>>)
Decl(x, d, t, init) == [k |-> "decl", s |-> x, c |-> init, t |-> t, d |-> d, static |-> FALSE]
Block(c) == Tree("block", "", c)

Places ==
  {Id("a"), Id("x"), Dot(Id("o"), "m"), Dot(Id("o"), "q"), Arrow(Id("pd"), "m"), Dot(Id("rd"), "m"),
   Dot(Dot(Id("rd"), "in"), "m"), Dot(Id("rd"), "q"), Arrow(Dot(Id("rd"), "next"), "m"), Dot(Deref(Id("po")), "m"),
   Deref(Address(Id("a"))), CallOf("first", <<Id("a")>>), CallOf("first", <<Dot(Id("rd"), "q")>>),
   Op("index", "at", <<Id("rd"), Id("a")>>), Op("deref", "star", <<Id("o")>>), Arrow(Id("h"), "k")}
OwnPlaces ==
  {Id("m"), Id("k"), Id("q"), Dot(Id("in"), "m"), Arrow(Id("next"), "m"), Arrow(This, "m"), Arrow(This, "q"),
   Dot(Deref(This), "m"), CallOf("first", <<Id("q")>>), Op("index", "at", <<Id("in"), Id("m")>>)}
Values ==
  {Number("5"), CallOf("val", <<Id("a")>>), Op("+", "", <<Id("a"), Dot(Id("co"), "m")>>), Op("neg", "", <<Id("a")>>),
   Op("neg", "minus", <<Id("rd")>>), Dot(Id("co"), "m"), Dot(Id("co"), "q"),
   Tree("?:", "", <<Id("a"), Id("x"), Dot(Id("rd"), "q")>>)}
CallBack == Tree("call", "", <<Id("cb"), Id("a")>>)
Objects == {Id("o"), Id("rd"), Deref(Id("pd")), Deref(Id("po")), Dot(Id("rd"), "in"),
            MethodOf(Dot(Id("rd"), "me"), "me", <<>>)}
OwnObjects == {Id("in"), Deref(This), Deref(Id("next")), CallOf("me", <<>>), MethodOf(Arrow(This, "me"), "me", <<>>)}
Pointers ==
  {Id("po"), Id("pd"), Address(Id("o")), Address(Id("rd")), Address(Dot(Id("rd"), "in")), Null,
   MethodOf(Dot(Id("rd"), "ptr"), "ptr", <<>>), CallOf("make", <<>>), Tree("new", "Sub", <<Id("rd"), Id("pd")>>)}
OwnPointers == {This, Id("next"), CallOf("ptr", <<>>), Address(Deref(This)), Address(Id("in"))}
Callbacks == {Id("dbl"), Address(Id("dbl")), Id("cb")}

IntUses(places, values) ==
  {Run(Assign(p, v)) : p \in places, v \in places \cup values}
  \cup {Run(CallOf(f, <<v>>)) : f \in {"val", "cnt"}, v \in places \cup values}
  \cup {Decl("z", "z", IntType, <<v>>) : v \in places \cup values}
References(places) ==
  {Block(<<Decl("r", "r", Reference(IntType), <<p>>), Run(Assign(Id("r"), Id("x"))), Run(Assign(Id("x"), CallOf("first", <<Id("r")>>)))>>) : p \in places}
ObjectUses(objects) ==
  {Run(CallOf(f, <<b>>)) : f \in {"mod", "see"}, b \in objects}
  \cup {Run(MethodOf(Dot(b, f), f, <<>>)) : f \in {"get", "peek", "me"}, b \in objects}
  \cup {Block(<<Decl("w", "w", Reference(ObjType), <<b>>), Run(Assign(Dot(Id("w"), "m"), Id("a"))), Run(MethodOf(Dot(Id("w"), "get"), "get", <<>>)),
                Run(Assign(Dot(Id("w"), "q"), CallOf("mod", <<Id("w")>>)))>>) : b \in objects}
  \cup {Run(Op("==", "equals", <<b, c>>)) : b, c \in objects}
OperatorUses(objects) ==
  {Run(Assign(Id("a"), Op("+", "plus", <<b, c>>))) : b \in objects \ {Deref(This)}, c \in objects \cup {Id("co")}}
  \cup {Run(Assign(Op("index", "at", <<b, Id("a")>>), Id("x"))) : b \in objects \ {Deref(This)}}
PointerUses(pointers) ==
  {Run(CallOf(f, <<p>>)) : f \in {"take"}, p \in pointers}
  \cup {Run(CallOf("push", <<p>>)) : p \in pointers \ {Id("pd"), This}}
  \cup {Run(Assign(l, p)) : l \in {Id("po"), Dot(Id("rd"), "next")}, p \in pointers \cup {Number("0")}}
  \cup {Decl("z", "z", Pointer(ObjType), <<p>>) : p \in pointers \cup {Number("0")}}
  \cup {Run(MethodOf(Arrow(p, f), f, <<>>)) : f \in {"get", "me"}, p \in pointers \ {Null}}
  \cup {Run(Op("==", "", <<l, p>>)) : l \in {Id("po")}, p \in {Null, Number("0"), Address(Id("o"))}}
  \cup {Run(Op("==", "", <<Number("0"), p>>)) : p \in {Id("po"), Id("h"), Id("cb")}}
CallbackUses ==
  {Run(Assign(Id("a"), CallBack)), Run(CallOf("val", <<CallBack>>)), Decl("z", "z", IntType, <<CallBack>>)}
  \cup {Run(CallOf("use", <<f>>)) : f \in Callbacks} \cup {Run(Assign(Id("cb"), f)) : f \in Callbacks \cup {Number("0")}}
  \cup {Decl("z", "z", Named("Handler"), <<f>>) : f \in Callbacks \cup {Number("0")}}
  \cup {Run(MethodOf(Dot(Id("rd"), "area"), "area", <<>>)), Run(MethodOf(Arrow(Id("pd"), "area"), "area", <<>>)),
        Run(MethodOf(Arrow(Id("h"), "area"), "area", <<>>)), Run(CallOf("mod", <<Deref(Id("h"))>>)), Run(Assign(Id("h"), Number("0"))),
        Run(MethodOf(Dot(Id("co"), "peek"), "peek", <<>>)), Run(MethodOf(Dot(Id("co"), "get"), "get", <<>>)),
        Run(CallOf("see", <<Id("co")>>)), Decl("z", "z", Pointer(ObjType), <<Dot(Id("co"), "next")>>)}

(* Names that hide others: at every use of the three of them it matters    *)
(* which one is meant.                                                     *)
Use == Assign(Id("x"), Op("+", "", <<Id("a"), Id("m")>>))
Other(x) == IF x = "a" THEN "x" ELSE "a"
Hiding(x, d) ==
  {Decl(x, d, IntType, <<Id(Other(x))>>), Decl(x, d, Reference(IntType), <<Id(Other(x))>>),
   [Decl(x, d, IntType, <<Number("1")>>) EXCEPT !.static = TRUE]}
Hidings(d) == UNION {Hiding(x, d) : x \in {"a", "x", "m"}}
Nested(s, t) ==
  {Block(<<s, Run(Use), t, Run(Use)>>),
   Tree("for", "", <<s, Use, Use, Block(<<t, Run(Use)>>)>>),
   Tree("for", "", <<[s EXCEPT !.static = FALSE], Use, Use, Tree("while", "", <<Use, Block(<<t, Run(Use)>>)>>)>>),
   Tree("switch", "", <<Use, s, Run(Use), t, Tree("label", "", <<Run(Use)>>)>>),
   Tree("if", "", <<Use, Block(<<s, Run(Use)>>), Block(<<t, Run(Use)>>)>>),
   Tree("label", "", <<Block(<<s, Block(<<t, Run(Use)>>), Run(Use)>>)>>)}
Shadowed ==
  UNION {Nested(s, t) : s \in Hidings("d1"), t \in Hidings("d2") \cup {Run(Use)}}
Legal(s) == \A i, j \in DOMAIN s.c : i # j /\ s.c[i].k = "decl" /\ s.c[j].k = "decl" => s.c[i].s # s.c[j].s

(* A reference to what the function returns, or a pointer to it.           *)
Programs ==
  [ints |-> [functions |-> Functions(IntType), bodies |-> IntUses(Places, Values) \cup References(Places) \cup {Return(v) : v \in Places \cup Values}],
   own |-> [functions |-> InMethod(IntType), bodies |-> IntUses(OwnPlaces, {Id("a")}) \cup References(OwnPlaces) \cup {Return(v) : v \in OwnPlaces}],
   const |-> [functions |-> {In("Sub", TRUE, IntType)},
              bodies |-> {Return(v) : v \in {Id("m"), Id("k"), Id("q"), Dot(Id("in"), "m"), Arrow(This, "m")}}
                         \cup {Run(Assign(Id("a"), v)) : v \in {Id("m"), Id("q"), CallOf("peek", <<>>), Op("+", "", <<Id("m"), Id("k")>>)}}
                         \cup {Run(CallOf("val", <<Id("m")>>)), Run(CallOf("see", <<Deref(This)>>)), Run(CallOf("get", <<>>))}],
   refs |-> [functions |-> Functions(Reference(IntType)), bodies |-> {Return(p) : p \in Places}],
   objects |-> [functions |-> Functions(IntType), bodies |-> ObjectUses(Objects) \cup OperatorUses(Objects)],
   pointers |-> [functions |-> Functions(Pointer(ObjType)), bodies |-> PointerUses(Pointers) \cup CallbackUses \cup {Return(p) : p \in Pointers}],
   ownObjects |-> [functions |-> InMethod(Reference(ObjType)), bodies |-> ObjectUses(OwnObjects) \cup OperatorUses(OwnObjects) \cup {Return(p) : p \in OwnObjects}],
   ownPointers |-> [functions |-> InMethod(Pointer(ObjType)), bodies |-> PointerUses(OwnPointers) \cup {Return(p) : p \in OwnPointers}],
   names |-> [functions |-> Functions(IntType), bodies |-> {Block(<<Run(Use), s, Run(Use)>>) : s \in {t \in Shadowed : Legal(t)}}]]

BodiesStep ==
  \/ \E p \in DOMAIN Programs : \E f \in Programs[p].functions, b \in Programs[p].bodies : ParseBody(f, b)
  \/ LowerStep

-----------------------------------------------------------------------------
MCPrimitive == <<"int", "float">>

MCInit ==
  /\ ClassInit /\ CallInit /\ step = 0
  /\ theme \in DOMAIN Themes \cup {"classes", "text", "bodies"}
  /\ BodyInit /\ EmitInit /\ (theme # "text" => ~cInput)
MCNext ==
  /\ UNCHANGED theme
  /\ \/ theme = "classes" /\ ClassStep /\ UNCHANGED <<callVars, emitVars, bodyVars, step>>
     \/ theme = "text" /\ EmitStep /\ UNCHANGED <<classVars, callVars, bodyVars, step>>
     \/ theme \in DOMAIN Themes /\ CallStep /\ UNCHANGED <<classVars, emitVars, bodyVars>>
     \/ theme = "bodies" /\ BodiesStep /\ UNCHANGED <<classVars, callVars, emitVars, step>>
MCSpec == MCInit /\ [][MCNext]_<<classVars, callVars, emitVars, bodyVars, theme, step>>
=============================================================================
