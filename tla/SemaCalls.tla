----------------------------- MODULE SemaCalls ------------------------------
(* Calls in sema.c: types as it compares them, its choice between          *)
(* functions of one name (resolve_overload_generic_impl), the functions a  *)
(* program declares, what a name in a call can mean, the types of the      *)
(* arguments, and the function the call is given (resolve_call).  A        *)
(* behaviour is a program: its declarations, then one expression.          *)
(*                                                                         *)
(* A type is a tuple: its kind and what the kind is of.                    *)
EXTENDS Naturals, Sequences, FiniteSets

CONSTANTS
  Typedefs,  \* [name -> type]
  Enums,     \* the names of enumerations
  BaseOf,    \* [class -> class or NoBase]
  NoBase,
  Ctors,     \* [class -> set of constructors]
  ConvOps,   \* [class -> set of the types it has conversion operators to]
  Locals, Globals,  \* [name -> type]
  Fields,           \* [class -> [name -> type]]
  EnumConsts,       \* [name -> enumeration]
  AnyName           \* `using namespace`: every name of it

Named(n) == <<"named", n>>
Pointer(t) == <<"pointer", t>>
Reference(t) == <<"reference", t>>
ConstOf(t) == <<"const", t>>
ArrayOf(t) == <<"array", t>>
NoType == <<"unknown">>
Kind(t) == t[1]
Of(t) == t[2]

RECURSIVE ResolveTypedefChain(_), NoConst(_), TypesEqual(_, _), TypeToClass(_), LineOf(_)
ResolveTypedefChain(t) ==
  IF Kind(t) = "named" /\ Of(t) \in DOMAIN Typedefs THEN ResolveTypedefChain(Typedefs[Of(t)]) ELSE t

NoConst(t) == IF Kind(t) = "const" THEN NoConst(Of(t)) ELSE t

(* const never tells two types apart; a const that a typedef brings is an  *)
(* unknown kind.                                                           *)
TypesEqual(t, u) ==
  LET a == ResolveTypedefChain(NoConst(t))
      b == ResolveTypedefChain(NoConst(u))
  IN  /\ Kind(a) = Kind(b)
      /\ \/ Kind(a) = "named" /\ Of(a) = Of(b)
         \/ Kind(a) \in {"pointer", "reference"} /\ TypesEqual(Of(a), Of(b))

TypeToClass(t) ==
  LET r == ResolveTypedefChain(t)
  IN  CASE Kind(r) \in {"pointer", "reference", "const"} -> TypeToClass(Of(r))
        [] Kind(r) = "named" /\ Of(r) \in DOMAIN BaseOf -> Of(r)
        [] OTHER -> NoBase

(* A class and what it is derived from (is_same_or_descendant).            *)
LineOf(c) == IF c = NoBase THEN {} ELSE {c} \cup LineOf(BaseOf[c])

IsEnum(t) == Kind(t) = "named" /\ Of(t) \in Enums

ThroughRef(t) ==
  LET r == ResolveTypedefChain(NoConst(t))
  IN  IF Kind(r) = "reference" THEN ResolveTypedefChain(NoConst(Of(r))) ELSE r
ValueClass(t) == IF Kind(ThroughRef(t)) = "named" THEN TypeToClass(ThroughRef(t)) ELSE NoBase

IsArith(t) == Kind(t) = "named" /\ (Of(t) \in {"int", "float", "bool", "char"} \/ IsEnum(t))

-----------------------------------------------------------------------------
(* A function: its parameters' types, how many of them a call must give,   *)
(* and whether `...` follows them.                                         *)
Arity(f, n) == n >= f.need /\ (f.va \/ n <= Len(f.params))

IsWord(t) == t \in {Named("int"), Named("char")}

(* int and char are one word of the console, and so are what two pointers  *)
(* to them point at.                                                       *)
SameWord(p, a) ==
  IF Kind(p) = "pointer" /\ Kind(a) \in {"pointer", "array"}
  THEN IsWord(NoConst(Of(p))) /\ IsWord(NoConst(Of(a)))
  ELSE IsWord(p) /\ IsWord(a)

(* An argument of type a fits a parameter of type p as it is (pass 0) or   *)
(* promoted (pass 1).                                                      *)
FitsAsIs(p, a, pass) ==
  LET q == ResolveTypedefChain(NoConst(p))
      b == NoConst(a)
  IN  \/ TypesEqual(p, a)
      \/ Kind(q) = "pointer" /\ Kind(b) = "array" /\ TypesEqual(Of(q), Of(b))
      \/ pass >= 1 /\ q = Named("int") /\ IsEnum(a)
      \/ pass >= 1 /\ SameWord(q, b)
      \/ Kind(q) = "reference" /\ TypesEqual(Of(q), a)
      \/ /\ Kind(q) = "reference" /\ TypeToClass(a) # NoBase
         /\ TypeToClass(Of(q)) \in LineOf(TypeToClass(a))

(* The constructors of class c that one argument of type a can call.       *)
CtorsFrom(c, a, pass) ==
  {m \in Ctors[c] : /\ Len(m.params) >= 1 /\ m.need <= 1
                    /\ Kind(m.params[1]) # "reference" /\ FitsAsIs(m.params[1], a, pass)}

ConvertingCtor(p, a) ==
  LET c == ValueClass(p)
  IN  /\ c # NoBase /\ ValueClass(a) = NoBase
      /\ LET exact == CtorsFrom(c, a, 0)
         IN  Cardinality(IF exact # {} THEN exact ELSE CtorsFrom(c, a, 1)) = 1

(* The operators a class and its bases offer, of two with one name the     *)
(* nearer (collect_conversion_ops: the name says the type).                *)
ConversionOps(c) == UNION {ConvOps[b] : b \in LineOf(c)}

(* find_conversion_op: to the very type, or the only one to arithmetic.    *)
HasConversion(c, target) ==
  LET want == ThroughRef(target)
      fit == {t \in ConversionOps(c) : IsArith(ThroughRef(t))}
  IN  \/ \E t \in ConversionOps(c) : TypesEqual(ThroughRef(t), want)
      \/ IsArith(want) /\ Cardinality(fit) = 1

ConvertsByOperator(p, a) ==
  /\ ValueClass(a) # NoBase /\ ValueClass(p) # ValueClass(a)
  /\ Kind(NoConst(p)) # "reference"
  /\ HasConversion(ValueClass(a), p)

TypeMatchesParam(p, a, pass) ==
  \/ FitsAsIs(p, a, pass)
  \/ pass >= 2 /\ (ConvertingCtor(p, a) \/ ConvertsByOperator(p, a))

(* An argument whose type sema cannot tell fits everything.                *)
Accepts(f, args, pass) ==
  /\ Arity(f, Len(args))
  /\ \A j \in 1..Len(args) :
       j > Len(f.params) \/ args[j] = NoType \/ TypeMatchesParam(f.params[j], args[j], pass)

(* Functions without `...` in passes 0 to 2, those with it in pass 3.      *)
MatchesIn(cands, args, pass) ==
  {f \in cands : f.va = (pass = 3) /\ Accepts(f, args, IF pass = 3 THEN 2 ELSE pass)}

(* Of one set of matches for each pass.                                    *)
FirstOf(matches) ==
  LET found == {pass \in DOMAIN matches : matches[pass] # {}}
  IN  IF found = {} THEN {} ELSE matches[CHOOSE pass \in found : \A q \in found : pass <= q]
FirstMatches(cands, args) == FirstOf([pass \in 0..3 |-> MatchesIn(cands, args, pass)])

(* Mutant: the first that matches, whatever else does.                     *)
Chosen_Any(cands, args) ==
  LET fit == {f \in cands : Arity(f, Len(args))}
      typed == FirstMatches(cands, args)
  IN  IF Cardinality(cands) = 1 THEN fit
      ELSE IF \E j \in DOMAIN args : args[j] = NoType
      THEN IF Cardinality(fit) > 1 /\ typed # {} THEN {CHOOSE f \in typed : TRUE} ELSE fit
      ELSE IF typed = {} THEN {} ELSE {CHOOSE f \in typed : TRUE}

(* The functions left: one is the call's target, none or several are an    *)
(* error.  A single candidate is asked for its number of parameters only,  *)
(* and so are those that an argument of unknown type leaves.               *)
ChosenFrom(cands, args, typed) ==
  LET fit == {f \in cands : Arity(f, Len(args))}
  IN  IF Cardinality(cands) = 1 THEN fit
      ELSE IF \E j \in DOMAIN args : args[j] = NoType
      THEN IF Cardinality(fit) > 1 /\ Cardinality(typed) = 1 THEN typed ELSE fit
      ELSE typed
Chosen(cands, args) == ChosenFrom(cands, args, FirstMatches(cands, args))

-----------------------------------------------------------------------------
(* Which function a call means in C++: conversion sequences, ranked, and   *)
(* the function that is nowhere worse and somewhere better than every      *)
(* other ([over.match], [conv], [over.ics.rank]).                          *)

RECURSIVE Canonical(_), Steps(_, _)
(* A type without its typedefs; const of const is const.                   *)
Canonical(t) ==
  LET r == ResolveTypedefChain(t)
  IN  CASE Kind(r) \in {"named", "nullptr"} -> r
        [] Kind(r) = "const" ->
             LET c == Canonical(Of(r)) IN IF Kind(c) \in {"const", "reference"} THEN c ELSE ConstOf(c)
        [] OTHER -> <<Kind(r), Canonical(Of(r))>>

(* An argument: a type, and whether it names an object.  NullPtr is the    *)
(* type of nullptr.                                                        *)
NullPtr == <<"nullptr">>
Value(t) == [type |-> Canonical(t), lvalue |-> FALSE]
Object(t) ==
  LET c == Canonical(t)
  IN  [type |-> IF Kind(c) = "reference" THEN Of(c) ELSE c, lvalue |-> TRUE]

ClassOf(t) == IF Kind(t) = "named" /\ Of(t) \in DOMAIN BaseOf THEN Of(t) ELSE NoBase
Steps(c, b) == IF c = b THEN 0 ELSE 1 + Steps(BaseOf[c], b)
Derives(c, b) == c # NoBase /\ b # NoBase /\ b \in LineOf(c)

(* A conversion sequence: its rank, how many bases it climbs, and for a    *)
(* user-defined one what converts and what follows.                        *)
Same == 0
Qualified == 1
Promotion == 2
Conversion == 3
ToBool == 4
UserDefined == 5
Ellipsis == 6
Impossible == 7
Sequence(rank, far) == [rank |-> rank, far |-> far, by |-> {}]

Arithmetic(t) == t \in {Named("int"), Named("float"), Named("bool"), Named("char")} \/ IsEnum(t)

(* Between values whose outermost const counts for nothing.                *)
Standard(a, p) ==
  CASE a = p -> Sequence(Same, 0)
    [] Kind(a) = "array" /\ Kind(p) = "pointer" /\ Of(p) = Of(a) -> Sequence(Same, 0)
    [] Kind(a) \in {"pointer", "array"} /\ p = Pointer(ConstOf(Of(a))) -> Sequence(Qualified, 0)
    [] p = Named("int") /\ (a \in {Named("char"), Named("bool")} \/ IsEnum(a)) -> Sequence(Promotion, 0)
    [] Arithmetic(a) /\ Arithmetic(p) /\ ~IsEnum(p) -> Sequence(Conversion, 0)
    [] a = NullPtr /\ Kind(p) = "pointer" -> Sequence(Conversion, 0)
    [] Kind(a) = "pointer" /\ Kind(p) = "pointer" /\ Derives(ClassOf(Of(a)), ClassOf(NoConst(Of(p)))) ->
         Sequence(Conversion, Steps(ClassOf(Of(a)), ClassOf(NoConst(Of(p)))))
    [] Derives(ClassOf(a), ClassOf(p)) -> Sequence(Conversion, Steps(ClassOf(a), ClassOf(p)))
    [] Kind(a) \in {"pointer", "array"} /\ p = Named("bool") -> Sequence(ToBool, 0)
    [] OTHER -> Sequence(Impossible, 0)

(* To a class by its constructors, from a class by its operators: the ways *)
(* there are, each with the rank of the standard conversion beside it.     *)
Ways(a, p) ==
  {<<<<"constructor", m>>, Standard(a, NoConst(Canonical(m.params[1]))).rank>> :
     m \in IF ClassOf(p) = NoBase THEN {} ELSE {n \in Ctors[ClassOf(p)] : Len(n.params) >= 1 /\ n.need <= 1}}
  \cup {<<<<"operator", t>>, Standard(NoConst(Canonical(t)), p).rank>> : t \in ConversionOps(ClassOf(a))}

Cheapest(ways) == {w \in ways : \A v \in ways : w[2] <= v[2]}
OnlyOne(ways) == IF Cardinality(ways) = 1 THEN ways ELSE {}
UserSequence(ways) ==
  IF ways = {} THEN Sequence(Impossible, 0)
  ELSE [rank |-> UserDefined, far |-> 0, by |-> OnlyOne(Cheapest(ways))]

OrElse(s, t) == IF s.rank < Impossible THEN s ELSE t
Between(a, p) == OrElse(Standard(a, p), UserSequence({w \in Ways(a, p) : w[2] < Impossible}))
ToValue(a, p) == Between(NoConst(a), NoConst(p))

(* [dcl.init.ref]: an object itself, or a temporary behind a const.  c, d: *)
(* whether what is referred to, and the reference, are const.              *)
Refers(a, p, lvalue, c, d) ==
  IF a = p \/ Derives(ClassOf(a), ClassOf(p))
  THEN IF (c => d) /\ (lvalue \/ d) THEN Standard(a, p) ELSE Sequence(Impossible, 0)
  ELSE IF d THEN Between(a, p) ELSE Sequence(Impossible, 0)
ToReference(arg, r) ==
  Refers(NoConst(arg.type), NoConst(r), arg.lvalue, Kind(arg.type) = "const", Kind(r) = "const")

ToParameter(arg, p) == IF Kind(p) = "reference" THEN ToReference(arg, Of(p)) ELSE ToValue(arg.type, p)
SequenceFor(f, j, args) ==
  IF j > Len(f.params) THEN Sequence(Ellipsis, 0) ELSE ToParameter(args[j], Canonical(f.params[j]))

SequencesFor(f, args) == [j \in DOMAIN args |-> SequenceFor(f, j, args)]
Viable(f, args) ==
  Arity(f, Len(args)) /\ \A j \in DOMAIN args : SequencesFor(f, args)[j].rank < Impossible

(* Of two user-defined conversions only those by one function compare.     *)
BetterSequence(s, t) ==
  \/ s.rank < t.rank
  \/ s.rank = t.rank /\ s.far < t.far
  \/ \E v \in s.by, w \in t.by : v[1] = w[1] /\ v[2] < w[2]

(* Of the sequences of two functions.                                      *)
BetterFor(s, t) ==
  /\ \A j \in DOMAIN s : ~BetterSequence(t[j], s[j])
  /\ \E j \in DOMAIN s : BetterSequence(s[j], t[j])

(* The best of the viable functions, if there is one.                      *)
BestOf(viable, seq) == {f \in viable : \A g \in viable \ {f} : BetterFor(seq[f], seq[g])}
Best(cands, args) ==
  BestOf({f \in cands : Viable(f, args)}, [f \in {g \in cands : Arity(g, Len(args))} |-> SequencesFor(f, args)])

-----------------------------------------------------------------------------
(* Calls.                                                                  *)
VARIABLES
  declared,   \* the declarations of functions, in full
  functions,  \* those that are kept (g_free_func_registry, ClassLayout.methods)
  usings,     \* what using declarations and directives name
  site        \* the call resolved last, its arguments' types and its targets

callVars == <<declared, functions, usings, site>>
NoSite == [targets |-> {}]

(* A namespace is the sequence of its names, <<>> the global one.          *)
Outer(ns) == SubSeq(ns, 1, Len(ns) - 1)

Redeclares(f, e) ==
  /\ e.cls = NoBase /\ f.cls = NoBase /\ e.ns = f.ns /\ e.name = f.name
  /\ e.va = f.va /\ Len(e.params) = Len(f.params)
  /\ \A i \in DOMAIN f.params : TypesEqual(e.params[i], f.params[i])

(* A definition takes the place of a prototype, defaults and all; other    *)
(* redeclarations add nothing.                                             *)
RegisterFreeFunction(fs, f) ==
  IF \E e \in fs : Redeclares(f, e)
  THEN {IF f.body /\ ~e.body /\ Redeclares(f, e) THEN f ELSE e : e \in fs}
  ELSE fs \cup {f}

CollectFreeInNs(name, ns) ==
  {f \in functions : f.cls = NoBase /\ f.name = name /\ f.ns = ns}

CollectThroughUsings(name) ==
  UNION {CollectFreeInNs(name, u.ns) : u \in {v \in usings : v.name \in {name, AnyName}}}

RECURSIVE FreeCandidates(_, _), QualifiedCandidates(_, _, _), MethodCandidates(_, _), FieldType(_, _)

(* From the call's namespace outwards, the first that has the name; when   *)
(* none has it, whatever has it.                                           *)
FreeCandidates(name, ns) ==
  LET found == CollectFreeInNs(name, ns) \cup IF ns = <<>> THEN CollectThroughUsings(name) ELSE {}
  IN  IF found # {} THEN found
      ELSE IF ns # <<>> THEN FreeCandidates(name, Outer(ns))
      ELSE {f \in functions : f.cls = NoBase /\ f.name = name}

QualifiedCandidates(name, qual, ns) ==
  LET found == CollectFreeInNs(name, ns \o qual)
  IN  IF found # {} \/ ns = <<>> THEN found ELSE QualifiedCandidates(name, qual, Outer(ns))

(* The methods of the nearest class that has one of the name.              *)
MethodCandidates(c, name) ==
  LET found == {f \in functions : f.cls = c /\ f.name = name}
  IN  IF c = NoBase THEN {} ELSE IF found # {} THEN found ELSE MethodCandidates(BaseOf[c], name)

-----------------------------------------------------------------------------
(* Types of expressions.  A name is a local, a member of the class the     *)
(* call stands in, a global or an enumerator, in this order.               *)
FieldType(c, name) ==
  IF c = NoBase THEN NoType
  ELSE IF name \in DOMAIN Fields[c] THEN Fields[c][name] ELSE FieldType(BaseOf[c], name)

NameType(name, cls) ==
  CASE name \in DOMAIN Locals -> Locals[name]
    [] name \notin DOMAIN Locals /\ FieldType(cls, name) # NoType -> FieldType(cls, name)
    [] name \in DOMAIN Globals \ DOMAIN Locals /\ FieldType(cls, name) = NoType -> Globals[name]
    [] name \in DOMAIN EnumConsts -> Named(EnumConsts[name])
    [] OTHER -> NoType

Literal == [int |-> Named("int"), float |-> Named("float"), bool |-> Named("bool"),
            char |-> Named("char"), string |-> Pointer(Named("int"))]

Inner(t) == IF Kind(t) = "reference" THEN Of(t) ELSE t

(* Of `-x` and `~x`; of two operands of one type, which a comparison has   *)
(* too.                                                                    *)
Negated(t) ==
  LET n == NoConst(ResolveTypedefChain(t))
  IN  IF n = Named("float") THEN n ELSE IF IsArith(n) THEN Named("int") ELSE NoType
OfBoth(l, r) ==
  LET t == ResolveTypedefChain(l)
  IN  IF Kind(t) = "named" /\ t = ResolveTypedefChain(r) /\ TypeToClass(t) = NoBase THEN l ELSE NoType
Pointee(t, kinds) == IF Kind(t) \in kinds THEN Of(t) ELSE NoType

(* Of an operator's expression, from the types T of its parts.             *)
InferOperatorType(operator, T) ==
  CASE operator = "deref" -> Pointee(ResolveTypedefChain(Inner(T[2])), {"pointer"})
    [] operator = "addr" -> IF T[2] = NoType THEN NoType ELSE Pointer(T[2])
    [] operator = "not" -> Named("bool")
    [] operator = "neg" -> Negated(T[2])
    [] operator = "incr" -> T[2]
    [] operator = "comma" -> T[3]
    [] operator \in {"plus", "less"} -> OfBoth(T[2], T[3])
    [] operator = "cond" -> IF T[2] # NoType THEN T[2] ELSE T[3]

(* A call: <<"call", name, arguments>>, <<"qcall", namespace, name,         *)
(* arguments>> or <<"mcall", object, name, arguments>>.  Parts: its         *)
(* arguments, behind the object; Given: what stands at the arguments.      *)
CallKinds == {"call", "qcall", "mcall"}
Arguments(e) == e[Len(e)]
Parts(e) ==
  CASE e[1] = "mcall" -> <<e[2]>> \o Arguments(e)
    [] e[1] \in {"call", "qcall"} -> Arguments(e)
    [] OTHER -> e
Given(e, T) == IF e[1] = "mcall" THEN Tail(T) ELSE T

(* resolve_call, with the types T of the parts: a method of an object; a   *)
(* method of this class or else a function; a function of a namespace.     *)
Candidates(e, T, ns, cls) ==
  CASE e[1] = "mcall" -> MethodCandidates(TypeToClass(T[1]), e[3])
    [] e[1] = "qcall" -> QualifiedCandidates(e[3], e[2], ns)
    [] e[1] = "call" /\ MethodCandidates(cls, e[2]) # {} -> MethodCandidates(cls, e[2])
    [] OTHER -> FreeCandidates(e[2], ns)
TargetsOf(e, T, ns, cls) == Chosen(Candidates(e, T, ns, cls), Given(e, T))
ResultOf(targets) == IF Cardinality(targets) = 1 THEN (CHOOSE f \in targets : TRUE).result ELSE NoType

RECURSIVE InferExprType(_, _, _)
(* ns, cls: the namespace and the class the expression stands in.          *)
InferExprType(e, ns, cls) ==
  LET T == [i \in DOMAIN Parts(e) |-> InferExprType(Parts(e)[i], ns, cls)]
  IN  CASE e[1] \in DOMAIN Literal -> Literal[e[1]]
        [] e[1] = "null" -> NoType
        [] e[1] = "this" -> Named(cls)
        [] e[1] = "name" -> NameType(e[2], cls)
        [] e[1] = "member" -> FieldType(TypeToClass(T[2]), e[3])
        [] e[1] = "new" -> Pointer(e[2])
        [] e[1] \in CallKinds -> ResultOf(TargetsOf(e, T, ns, cls))
        [] e[1] = "index" -> Pointee(ResolveTypedefChain(T[2]), {"array", "pointer"})
        [] OTHER -> InferOperatorType(e[1], T)

(* Arguments come first.                                                   *)
InferTypes(e, ns, cls) == [j \in DOMAIN Parts(e) |-> InferExprType(Parts(e)[j], ns, cls)]

-----------------------------------------------------------------------------
CallInit == declared = {} /\ functions = {} /\ usings = {} /\ site = NoSite

Declare(f) ==
  /\ declared' = declared \cup {f}
  /\ functions' = IF f.cls = NoBase THEN RegisterFreeFunction(functions, f) ELSE functions \cup {f}
  /\ UNCHANGED <<usings, site>>

NoteUsing(ns, name) ==
  /\ usings' = usings \cup {[ns |-> ns, name |-> name]}
  /\ UNCHANGED <<declared, functions, site>>

ResolveCall(e, ns, cls) ==
  /\ \E T \in {InferTypes(e, ns, cls)} :
       site' = [call |-> e, ns |-> ns, cls |-> cls, types |-> Given(e, T), targets |-> TargetsOf(e, T, ns, cls)]
  /\ UNCHANGED <<declared, functions, usings>>

-----------------------------------------------------------------------------
(* C++: declarations are of one function when their types are the same but *)
(* for the parameters' own const; defaults add up.                         *)
SameFunction(f, g) ==
  /\ f.cls = g.cls /\ f.ns = g.ns /\ f.name = g.name /\ f.va = g.va /\ Len(f.params) = Len(g.params)
  /\ \A i \in DOMAIN f.params : NoConst(Canonical(f.params[i])) = NoConst(Canonical(g.params[i]))

SameAs(f) == {g \in declared : SameFunction(f, g)}
Merged(fs) ==
  [(CHOOSE f \in fs : \A g \in fs : f.id <= g.id) EXCEPT
     !.need = CHOOSE n \in {g.need : g \in fs} : \A g \in fs : n <= g.need]
CppFunctions == {Merged(fs) : fs \in {SameAs(f) : f \in declared}}

(* C++: what a name means where the call stands; for a qualified name the  *)
(* nearest namespace of the first name decides.                            *)
Visible(f, ns) ==
  \/ f.ns = ns
  \/ ns = <<>> /\ \E u \in usings : u.ns = f.ns /\ u.name \in {f.name, AnyName}
Enclosing(ns) == {SubSeq(ns, 1, n) : n \in 0..Len(ns)}
Within(f, ns) == Len(f.ns) >= Len(ns) /\ SubSeq(f.ns, 1, Len(ns)) = ns
Longest(nss) == {n \in nss : \A m \in nss : Len(m) <= Len(n)}

CppUnqualified(fs, ns) ==
  UNION {{f \in fs : Visible(f, m)} : m \in Longest({n \in Enclosing(ns) : \E f \in fs : Visible(f, n)})}
CppQualified(fs, qual, ns) ==
  UNION {{f \in fs : f.ns = m \o qual} :
           m \in Longest({n \in Enclosing(ns) : n = <<>> \/ \E f \in declared : Within(f, n \o <<Head(qual)>>)})}

(* The line of a class from itself on: the nearest that has the method.    *)
CppMethods(fs, c) ==
  UNION {{f \in fs : f.cls = b} :
           b \in {d \in LineOf(c) : /\ \E f \in fs : f.cls = d
                                    /\ \A f \in fs : f.cls \in LineOf(c) => f.cls \in LineOf(d)}}

(* The class of what `.` or `->` stands behind.                            *)
ObjectClass(t) == ClassOf(NoConst(IF Kind(t) = "pointer" THEN Of(t) ELSE t))

CppFree(fs, e, ns) ==
  IF e[1] = "qcall" THEN CppQualified(fs, e[2], ns) ELSE CppUnqualified(fs, ns)
OrFree(methods, fs, e, ns) ==
  IF methods # {} THEN methods ELSE CppFree({f \in fs : f.cls = NoBase}, e, ns)
CppCandidates(fs, e, A, ns, cls) ==
  IF e[1] = "mcall" THEN CppMethods(fs, ObjectClass(A[1].type))
  ELSE OrFree(IF e[1] = "call" THEN CppMethods(fs, cls) ELSE {}, fs, e, ns)
CalledName(e) == e[Len(e) - 1]
CppTargets(e, A, ns, cls) ==
  Best(CppCandidates({f \in CppFunctions : f.name = CalledName(e)}, e, A, ns, cls), Given(e, A))

(* Of an expression, from its parts A; t: what its call returns.           *)
Returned(t) == IF Kind(Canonical(t)) = "reference" THEN Object(t) ELSE Value(t)
AnyFloat(ts) == Value(IF Named("float") \in {NoConst(t) : t \in ts} THEN Named("float") ELSE Named("int"))
OfName(name, t) == IF name \in DOMAIN EnumConsts THEN Value(t) ELSE Object(t)
CppOperator(operator, A) ==
  CASE operator \in {"index", "deref"} -> Object(Of(A[2].type))
    [] operator = "addr" -> Value(Pointer(A[2].type))
    [] operator \in {"not", "less"} -> Value(Named("bool"))
    [] operator = "neg" -> AnyFloat({A[2].type})
    [] operator \in {"incr", "cond"} -> A[2]
    [] operator = "comma" -> A[3]
    [] operator = "plus" -> AnyFloat({A[2].type, A[3].type})

RECURSIVE CppArgument(_, _, _)
CppFrom(e, A, ns, cls) ==
  CASE e[1] \in DOMAIN Literal -> Value(Literal[e[1]])
    [] e[1] = "null" -> Value(NullPtr)
    [] e[1] = "this" -> Value(Pointer(Named(cls)))
    [] e[1] = "name" -> OfName(e[2], NameType(e[2], cls))
    [] e[1] = "member" -> Object(FieldType(ObjectClass(A[2].type), e[3]))
    [] e[1] = "new" -> Value(Pointer(e[2]))
    [] e[1] \in CallKinds -> Returned((CHOOSE g \in CppTargets(e, A, ns, cls) : TRUE).result)
    [] OTHER -> CppOperator(e[1], A)
CppArgument(e, ns, cls) ==
  CppFrom(e, [i \in DOMAIN Parts(e) |-> CppArgument(Parts(e)[i], ns, cls)], ns, cls)

CppArguments(e, ns, cls) == [j \in DOMAIN Parts(e) |-> CppArgument(Parts(e)[j], ns, cls)]

(* That a function can be called with these arguments at all the code and  *)
(* C++ agree on; and if it ends in `...`, something goes there: with       *)
(* nothing there the code asks it last of all.                             *)
AgreedOn(f, args, types) ==
  /\ Viable(f, args)
  /\ Accepts(f, types, 2)
  /\ f.va => Len(args) > Len(f.params)

(* A call is never given another function than the one C++ calls, however  *)
(* many passes over the candidates it takes, wherever their name is found, *)
(* and whatever the arguments are, as long as the two agree that both      *)
(* functions could be called (resolve_overload_generic_impl).              *)
ResolvesAsC ==
  Cardinality(site.targets) = 1 =>
    \A A \in {CppArguments(site.call, site.ns, site.cls)} :
      \A f \in site.targets, g \in CppTargets(site.call, A, site.ns, site.cls) :
        (\A h \in {f, g} : AgreedOn(h, Given(site.call, A), site.types)) => SameFunction(f, g)
=============================================================================
