------------------------------- MODULE Bodies -------------------------------
(***************************************************************************)
(* Names, references and pointers in a function's body, on their way from  *)
(* C++ to C: static locals become globals (hoist_static_locals in ast.c);  *)
(* members are reached through `this` (phase 2 of lower.c); what binds a   *)
(* reference is made an address, operators become calls, receivers and     *)
(* arguments get the pointer type they are declared with (phases 3, 4);    *)
(* references become pointers and their uses dereferences (phase 5);       *)
(* pointers to derived classes are cast where they are stored or returned  *)
(* (phase 6a).                                                             *)
(*                                                                         *)
(* The body's meaning is a term over the entities it declares.  No phase   *)
(* may change it, and the console's C compiler, which converts no pointer, *)
(* must accept the result.                                                 *)
(***************************************************************************)
EXTENDS SemaCalls, SequencesExt

CONSTANTS
  Callables  \* [name -> a function, method, operator or constructor: its class (or
             \* NoBase), the class whose vtable names it (or NoBase), whether it is
             \* const, the types of its parameters and of its result]

VARIABLES
  func,     \* what the body is of: its name, class and const, its parameters' names and types, its result
  source,   \* the function and its body as they were parsed
  body,     \* the body now
  statics,  \* the declarations that were moved in front of the function
  stage     \* the phase that was run last

bodyVars == <<func, source, body, statics, stage>>

(* A node: its kind, its name, type or function, and what is below it.     *)
(* Calls and operators have the function sema.c resolved them to, or "".   *)
Tree(k, s, c) == [k |-> k, s |-> s, c |-> c]
Id(x) == Tree("id", x, <<>>)
Number(i) == Tree("int", i, <<>>)
Null == Tree("null", "", <<>>)
Fun(f) == Tree("fun", f, <<>>)             \* a function's name, mangled
Deref(e) == Tree("deref", "", <<e>>)
Address(e) == Tree("addr", "", <<e>>)
CastTo(t, e) == Tree("cast", t, <<e>>)
Arrow(e, m) == Tree("->", m, <<e>>)
AsPointer(e) == Tree("keep", "", <<e>>)    \* ref_as_ptr
Temporary(t, e) == Tree("temp", t, <<e>>)  \* (tmp = e, &tmp), of type t

Statements == {"block", "if", "while", "for", "switch", "label", "expr", "return", "decl"}
IsStatement(n) == n.k \in Statements
IsMember(n) == n.k \in {".", "->"}
Operators == {"+", "==", "=", "index", "deref", "addr", "neg"}
Scopes == {"block", "for", "switch"}

Mapped(n, Op(_)) == [n EXCEPT !.c = [i \in DOMAIN n.c |-> Op(n.c[i])]]

-----------------------------------------------------------------------------
(* hoist_static_locals()                                                   *)

Declares(n, x) == n.k = "decl" /\ n.s = x
IsStatic(n) == n.k = "decl" /\ n.static
First(is) == CHOOSE i \in is : \A j \in is : i <= j

RECURSIVE RenameUses(_, _, _)

(* Mutant: beyond the declaration that hides the name. *)
RenameInList_All(c, from, x, y) == [i \in DOMAIN c |-> IF i >= from THEN RenameUses(c[i], x, y) ELSE c[i]]

(* Up to the first declaration that hides the name.                        *)
RenameInList(c, from, x, y) ==
  LET hides == {i \in from..Len(c) : Declares(c[i], x)}
      last == IF hides = {} THEN Len(c) ELSE First(hides)
  IN  [i \in DOMAIN c |-> IF i \in from..last THEN RenameUses(c[i], x, y) ELSE c[i]]

RenameUses(n, x, y) ==
  CASE n.k = "id" /\ n.s = x -> Id(y)
    [] n.k \in Scopes -> [n EXCEPT !.c = RenameInList(n.c, 1, x, y)]
    [] OTHER -> Mapped(n, LAMBDA m : RenameUses(m, x, y))

StaticName(made, x) == "__static" \o ToString(Len(made)) \o "_" \o func.name \o "_" \o x

RECURSIVE HoistIn(_, _), HoistList(_, _, _, _)
(* From the i-th statement of a list on; made: the declarations moved.     *)
(* Those that are a block's or a switch's own are.                         *)
HoistList(c, i, own, made) ==
  IF i > Len(c) THEN [kept |-> <<>>, made |-> made]
  ELSE IF own /\ IsStatic(c[i])
  THEN LET y == StaticName(made, c[i].s)
       IN  HoistList(RenameInList(c, i + 1, c[i].s, y), i + 1, own,
                     Append(made, [c[i] EXCEPT !.s = y, !.static = FALSE]))
  ELSE LET below == HoistIn(c[i], made)
           rest == HoistList(c, i + 1, own, below.made)
       IN  [kept |-> <<below.n>> \o rest.kept, made |-> rest.made]

HoistIn(n, made) ==
  LET done == HoistList(n.c, 1, n.k \in {"block", "switch"}, made)
  IN  IF n.k \in Statements \ {"expr", "return", "decl"}
      THEN [n |-> [n EXCEPT !.c = done.kept], made |-> done.made]
      ELSE [n |-> n, made |-> made]

-----------------------------------------------------------------------------
(* infer_expr_type() on a tree that is being lowered, with L the types of  *)
(* the locals.  Phase 5 makes every reference type a pointer's.            *)
Relabelled(t) == IF Kind(t) = "reference" THEN Pointer(Of(t)) ELSE t
Seen(t) == IF stage \in {"calls", "refs"} THEN Relabelled(t) ELSE t

IsFunction(x) == x \in DOMAIN Callables /\ Callables[x].cls = NoBase
IsMethod(c, x) == x \in DOMAIN Callables /\ Callables[x].cls # NoBase /\ Callables[x].cls \in LineOf(c)
StaticType(x) ==
  LET made == {i \in DOMAIN statics : statics[i].s = x} IN IF made = {} THEN NoType ELSE statics[First(made)].t
NameOf(x, L) ==
  CASE x \in DOMAIN L -> L[x]
    [] x \notin DOMAIN L /\ FieldType(func.cls, x) # NoType -> FieldType(func.cls, x)
    [] x \in DOMAIN Globals /\ x \notin DOMAIN L /\ FieldType(func.cls, x) = NoType -> Globals[x]
    [] OTHER -> StaticType(x)

RECURSIVE TypeOf(_, _)
TypeOf(e, L) ==
  CASE e.k = "id" -> Seen(NameOf(e.s, L))
    [] IsMember(e) -> Seen(FieldType(TypeToClass(TypeOf(e.c[1], L)), e.s))
    [] e.k = "int" -> Named("int")
    [] e.k = "new" -> Pointer(Named(e.s))
    [] e.k = "keep" -> TypeOf(e.c[1], L)
    [] e.k \in {"call"} \cup (Operators \ {"="}) /\ e.s # "" -> Seen(Callables[e.s].result)
    [] e.k = "deref" /\ e.s = "" ->
         LET t == TypeOf(e.c[1], L)
         IN  IF Kind(t) = "reference" /\ e.c[1].k = "call" THEN Of(t)
             ELSE Pointee(ResolveTypedefChain(Inner(t)), {"pointer"})
    [] e.k = "index" /\ e.s = "" -> Pointee(ResolveTypedefChain(TypeOf(e.c[1], L)), {"array", "pointer"})
    [] e.k = "addr" /\ TypeOf(e.c[1], L) # NoType -> Pointer(TypeOf(e.c[1], L))
    [] e.k \in {"+", "=="} /\ e.s = "" -> OfBoth(TypeOf(e.c[1], L), TypeOf(e.c[2], L))
    [] e.k = "?:" -> IF TypeOf(e.c[2], L) # NoType THEN TypeOf(e.c[2], L) ELSE TypeOf(e.c[3], L)
    [] OTHER -> NoType

ExprClass(e, L) == TypeToClass(TypeOf(e, L))

-----------------------------------------------------------------------------
(* Phase 2, rewrite_expr(): `this`, and members that no local hides.       *)
RECURSIVE ThisExpr(_, _)

(* Mutant: a local does not hide a member. *)
ThisExpr_NoLocals(e, L) ==
  CASE e.k = "this" -> Id("this")
    [] e.k = "id" /\ FieldType(func.cls, e.s) # NoType -> Arrow(Id("this"), e.s)
    [] OTHER -> Mapped(e, LAMBDA d : ThisExpr(d, L))

ThisExpr(e, L) ==
  CASE e.k = "this" -> Id("this")
    [] e.k = "id" /\ e.s \notin DOMAIN L /\ (FieldType(func.cls, e.s) # NoType \/ IsMethod(func.cls, e.s)) ->
         Arrow(Id("this"), e.s)
    [] OTHER -> Mapped(e, LAMBDA d : ThisExpr(d, L))

-----------------------------------------------------------------------------
(* Phases 3 and 4.  What a pointer is cast to keeps the const of what it   *)
(* is for.                                                                 *)

ReceiverIsConst(t) ==
  Kind(t) = "const" \/ (Kind(t) \in {"pointer", "reference"} /\ Kind(Of(t)) = "const")
IsDeref(e) == e.k = "deref" /\ e.s = ""
PointsTo(t, kinds) == Kind(ResolveTypedefChain(t)) \in kinds
BindsPointer(b) == Kind(b) = "reference" /\ PointsTo(NoConst(Of(b)), {"pointer"})

(* address_of_if_needed(): e has type t; b is the reference that is bound, *)
(* or for a receiver NoType.                                               *)
AddressOf(e, t, b) ==
  CASE b = NoType /\ PointsTo(t, {"pointer"}) -> e
    [] IsDeref(e) /\ ~(b = NoType /\ PointsTo(t, {"pointer"})) -> e.c[1]
    [] ~IsDeref(e) /\ Kind(t) = "reference" /\ (e.k = "id" \/ IsMember(e)) -> AsPointer(e)
    [] ~IsDeref(e) /\ \/ t = NoType
                      \/ Kind(t) = "pointer" /\ ~BindsPointer(b)
                      \/ Kind(t) = "reference" /\ e.k # "id" /\ ~IsMember(e) -> e
    [] OTHER -> Address(e)

(* cast_ref_arg_if_needed(), an argument of type t for parameter p.        *)
CastArgument(e, t, p) ==
  LET c == TypeToClass(p)
  IN  IF Kind(p) \in {"reference", "pointer"} /\ c # NoBase /\ TypeToClass(t) \notin {NoBase, c}
      THEN CastTo(Pointer(IF ReceiverIsConst(p) THEN ConstOf(Named(c)) ELSE Named(c)), e)
      ELSE e

(* Mutant: a receiver of a derived class is passed as it is. *)
CastReceiver_Const(e, c, expected, strip) == IF strip THEN CastTo(Pointer(Named(expected)), e) ELSE e

(* cast_receiver_if_needed()                                               *)
CastReceiver(e, c, expected, strip) ==
  IF strip \/ c # expected THEN CastTo(Pointer(Named(expected)), e) ELSE e

(* strip_const_member_read()                                               *)
StripConst(e, t, from) ==
  LET read == IF Kind(t) = "const" THEN Of(t) ELSE t
  IN  IF /\ IsMember(e) \/ e.k = "index"
         /\ ReceiverIsConst(from)
         /\ read # NoType /\ Kind(read) \notin {"reference", "array"} /\ TypeToClass(read) = NoBase
      THEN CastTo(read, e) ELSE e
StripConstRead(e, L) == StripConst(e, TypeOf(e, L), TypeOf(e.c[1], L))

(* needs_reference_temporary(): a value, unless it is an object's.         *)
NeedsTemporary(e, p) ==
  LET to == NoConst(Of(p))
  IN  /\ Kind(to) # "array"
      /\ PointsTo(to, {"pointer"}) \/ TypeToClass(to) = NoBase
      /\ \/ e.k \in {"int", "null", "cast", "?:", "new", "+", "==", "addr", "neg"}
         \/ /\ e.k = "call" /\ e.s # ""
            /\ LET r == Callables[e.s].result
               IN  Kind(r) # "reference" /\ (Kind(r) = "pointer" \/ TypeToClass(r) = NoBase)

(* bind_reference_temporary()                                              *)
BindTemporary(e, p) ==
  LET to == NoConst(Of(p))
  IN  Temporary(to, CASE Kind(to) = "pointer" /\ e = Number("0") -> Null
                      [] Kind(to) = "pointer" /\ e.k \notin {"int", "null"} -> CastTo(to, e)
                      [] OTHER -> e)

BindArgument(e, t, p) ==
  CASE Kind(p) = "reference" /\ NeedsTemporary(e, p) -> BindTemporary(e, p)
    [] Kind(p) = "reference" /\ ~NeedsTemporary(e, p) -> CastArgument(AddressOf(e, t, p), t, p)
    [] OTHER -> CastArgument(e, t, p)
BindArguments(args, f, L) == [i \in DOMAIN args |-> BindArgument(args[i], TypeOf(args[i], L), f.params[i])]

(* finalize_call(): a function by its name, a method with its receiver in  *)
(* front of the arguments, a virtual one through the vtable.               *)
Callee(n, receiver, t) ==
  LET f == Callables[n.s]
      strip == ReceiverIsConst(t) /\ ~f.const
      this(expected) == CastReceiver(receiver, TypeToClass(t), expected, strip)
  IN  CASE ~IsMember(n.c[1]) -> <<Fun(n.s)>>
        [] IsMember(n.c[1]) /\ f.slot = NoBase -> <<Fun(n.s), this(f.cls)>>
        [] OTHER -> <<Arrow(Arrow(receiver, "vtable"), n.s), this(f.slot)>>
CalleeOf(n, object, t) == Callee(n, AddressOf(object, t, NoType), t)
FinalizeCall(n, L) ==
  IF n.s = "" THEN n
  ELSE [n EXCEPT !.c = CalleeOf(n, @[1].c[1], TypeOf(@[1].c[1], L)) \o BindArguments(Tail(@), Callables[n.s], L)]

(* The value of a call that returns a reference.                           *)
DerefResult(n) == IF n.s # "" /\ Kind(Callables[n.s].result) = "reference" THEN Deref(n) ELSE n

(* rewrite_operator_use()                                                  *)
OperatorUse(n, L) ==
  LET method == Callables[n.s].cls # NoBase
      call == IF method THEN <<Arrow(n.c[1], n.s)>> \o Tail(n.c) ELSE <<Id(n.s)>> \o n.c
  IN  IF n.s = "" THEN n ELSE DerefResult(FinalizeCall(Tree("call", n.s, call), L))

(* `f` for `&f`; 0 for NULL.                                               *)
TakesAddress(e, L) == e.k = "id" /\ e.s \notin DOMAIN L /\ IsFunction(e.s)
WithAddress(e, L) == IF TakesAddress(e, L) THEN Address(e) ELSE e
ZeroToNull(e, t) == IF e = Number("0") /\ PointsTo(t, {"pointer", "callback"}) THEN Null ELSE e

ZeroesToNull(n, t, u) ==
  CASE n.k # "==" -> n
    [] n.k = "==" /\ PointsTo(t, {"pointer", "callback"}) -> [n EXCEPT !.c[2] = ZeroToNull(@, t)]
    [] OTHER -> [n EXCEPT !.c[1] = ZeroToNull(@, u)]
OperatorCall(n, L) == OperatorUse(ZeroesToNull(n, TypeOf(n.c[1], L), TypeOf(n.c[2], L)), L)

(* A pointer to a derived class in an assignment.                          *)
CastAssigned(e, given, t) ==
  LET c == TypeToClass(t)
  IN  IF Kind(t) = "pointer" /\ c # NoBase /\ Kind(given) = "pointer" /\ TypeToClass(given) \notin {NoBase, c}
      THEN CastTo(Pointer(Named(c)), e) ELSE e

RECURSIVE CallsExpr(_, _)
CallsCall(e, L) ==
  LET arguments == [i \in DOMAIN e.c |-> CallsExpr(IF i = 1 THEN e.c[1] ELSE WithAddress(e.c[i], L), L)]
      call == FinalizeCall([e EXCEPT !.c = arguments], L)
  IN  DerefResult([call EXCEPT !.c = [i \in DOMAIN @ |-> IF i = 1 THEN @[1] ELSE StripConstRead(@[i], L)]])

CallsValue(e, to, L) ==
  LET from == IF PointsTo(to, {"callback"}) THEN WithAddress(e, L) ELSE e
  IN  StripConstRead(CallsExpr(ZeroToNull(from, to), L), L)
AssignTo(place, value, to, L) == <<place, CastAssigned(value, TypeOf(value, L), to)>>
CallsAssign(e, L) ==
  LET place == CallsExpr(e.c[1], L)
      to == TypeOf(place, L)
  IN  OperatorUse([e EXCEPT !.c = AssignTo(place, CallsValue(@[2], to, L), to, L)], L)

CallsExpr(e, L) ==
  LET below == Mapped(e, LAMBDA d : CallsExpr(d, L))
  IN  CASE TakesAddress(e, L) -> Fun(e.s)
        [] e.k = "call" -> CallsCall(e, L)
        [] e.k = "=" -> CallsAssign(e, L)
        [] e.k \in Operators \ {"="} -> OperatorCall(below, L)
        [] e.k = "new" -> [below EXCEPT !.c = BindArguments(@, Callables[e.s], L)]
        [] OTHER -> below

(* finalize_calls_stmt() on a statement whose parts are done.              *)
CallsBefore(n, L) ==
  IF n.k = "decl" /\ n.c # <<>> /\ PointsTo(n.t, {"callback"}) THEN [n EXCEPT !.c[1] = WithAddress(@, L)] ELSE n

BindLocal(e, t, b) == IF IsDeref(e) THEN e.c[1] ELSE AddressOf(e, t, b)
CallsStmt(n, L) ==
  CASE n.k = "expr" /\ IsDeref(n.c[1]) /\ n.c[1].c[1].k = "call" -> [n EXCEPT !.c[1] = @.c[1]]
    [] n.k = "return" /\ n.c # <<>> -> [n EXCEPT !.c[1] = StripConstRead(@, L)]
    [] n.k = "decl" /\ n.c # <<>> ->
         [n EXCEPT !.c[1] = IF Kind(n.t) = "reference" THEN BindLocal(@, TypeOf(@, L), n.t)
                            ELSE ZeroToNull(StripConstRead(@, L), n.t)]
    [] OTHER -> n

(* inject_reference_return_address_stmt()                                  *)
ReturnsStmt(n, L) ==
  IF n.k = "return" /\ n.c # <<>> THEN [n EXCEPT !.c[1] = AddressOf(@, TypeOf(@, L), func.result)] ELSE n

-----------------------------------------------------------------------------
(* Phase 5, fix_reference_access_expr().                                   *)
IsRefLocal(e, L) == e.k = "id" /\ e.s \in DOMAIN L /\ Kind(L[e.s]) = "reference"

RECURSIVE FixExpr(_, _)
FixExpr(e, L) ==
  LET below == IF e.k = "." /\ IsRefLocal(e.c[1], L) THEN Arrow(e.c[1], e.s)
               ELSE Mapped(e, LAMBDA d : FixExpr(d, L))
      kept == e.c[1]
  IN  CASE e.k = "keep" -> IF kept.k = "id" THEN kept ELSE Mapped(kept, LAMBDA d : FixExpr(d, L))
        [] IsRefLocal(e, L) -> Deref(e)
        [] IsMember(e) /\ Kind(FieldType(ExprClass(below.c[1], L), e.s)) = "reference" -> Deref(below)
        [] OTHER -> below

FixStmt(n) == IF n.k = "decl" THEN [n EXCEPT !.t = Relabelled(@)] ELSE n

-----------------------------------------------------------------------------
(* Phase 6a, insert_pointer_cast_stmt().                                   *)
CastsStmt(n, L) ==
  CASE n.k = "decl" /\ n.c # <<>> -> [n EXCEPT !.c[1] = CastAssigned(@, TypeOf(@, L), n.t)]
    [] n.k = "return" /\ n.c # <<>> -> [n EXCEPT !.c[1] = CastAssigned(@, TypeOf(@, L), func.result)]
    [] OTHER -> n

-----------------------------------------------------------------------------
(* The walk all phases share: statements in their order, and what they     *)
(* declare is known from there on, to the end of the function.             *)
Expr(p, e, L) ==
  CASE p = "this" -> ThisExpr(e, L)
    [] p = "calls" -> CallsExpr(e, L)
    [] p = "refs" -> FixExpr(e, L)
    [] OTHER -> e
Stmt(p, n, L) ==
  CASE p = "calls" -> CallsStmt(n, L)
    [] p = "returns" -> ReturnsStmt(n, L)
    [] p = "refs" -> FixStmt(n)
    [] p = "casts" -> CastsStmt(n, L)
    [] OTHER -> n

RECURSIVE Visit(_, _, _)
Visit(p, n, L) ==
  LET from == IF p = "calls" THEN CallsBefore(n, L) ELSE n
      below == FoldLeft(LAMBDA w, kid : LET d == Visit(p, kid, w.L) IN [c |-> Append(w.c, d.n), L |-> d.L],
                        [c |-> <<>>, L |-> L], from.c)
  IN  IF ~IsStatement(n) THEN [n |-> Expr(p, n, L), L |-> L]
      ELSE [n |-> Stmt(p, [n EXCEPT !.c = below.c], below.L),
            L |-> IF n.k = "decl" THEN (n.s :> n.t) @@ below.L ELSE below.L]

(* seed_locals_from_params()                                               *)
Parameters(f) == [x \in Range(f.names) |-> f.params[First({i \in DOMAIN f.names : f.names[i] = x})]]
Visited(p, n, f) == Visit(p, n, Parameters(f)).n

-----------------------------------------------------------------------------
NoFunction == [name |-> ""]
NoBody == Tree("block", "", <<>>)
BodyInit == func = NoFunction /\ source = [func |-> NoFunction, body |-> NoBody] /\ body = NoBody /\ statics = <<>> /\ stage = "none"

ParseBody(f, n) ==
  /\ stage = "none"
  /\ func' = f /\ source' = [func |-> f, body |-> n] /\ body' = n /\ stage' = "parsed"
  /\ UNCHANGED statics

HoistStaticLocals ==
  /\ stage = "parsed"
  /\ \E h \in {HoistIn(body, <<>>)} : body' = h.n /\ statics' = h.made
  /\ stage' = "hoisted"
  /\ UNCHANGED <<func, source>>

(* this_inject_method()                                                    *)
ThisParameter(f) == Pointer(IF f.const THEN ConstOf(Named(f.cls)) ELSE Named(f.cls))
ThisInject ==
  /\ stage = "hoisted"
  /\ func' = IF func.cls = NoBase THEN func
             ELSE [func EXCEPT !.names = <<"this">> \o @, !.params = <<ThisParameter(func)>> \o @]
  /\ body' = IF func.cls = NoBase THEN body ELSE Visited("this", body, func)
  /\ stage' = "this"
  /\ UNCHANGED <<source, statics>>

FinalizeCalls ==
  /\ stage = "this"
  /\ \E done \in {Visited("calls", body, func)} :
       body' = IF Kind(func.result) = "reference" THEN Visited("returns", done, func) ELSE done
  /\ stage' = "calls"
  /\ UNCHANGED <<func, source, statics>>

FixReferences ==
  /\ stage = "calls"
  /\ body' = Visited("refs", body, func)
  /\ func' = [func EXCEPT !.params = [i \in DOMAIN @ |-> Relabelled(@[i])], !.result = Relabelled(@)]
  /\ stage' = "refs"
  /\ UNCHANGED <<source, statics>>

InsertPointerCasts ==
  /\ stage = "refs"
  /\ body' = Visited("casts", body, func)
  /\ stage' = "casts"
  /\ UNCHANGED <<func, source, statics>>

LowerStep == HoistStaticLocals \/ ThisInject \/ FinalizeCalls \/ FixReferences \/ InsertPointerCasts

-----------------------------------------------------------------------------
(* What a body means, as a term over the variables it names.  "D" and "A"  *)
(* are what a pointer points at and the address of an object; a reference  *)
(* is a pointer whose every use is what it points at.  Casts between base  *)
(* and derived classes do not change a pointer.  The language is "C++",    *)
(* "C", or "flat": C++ in which a declaration holds to the function's end. *)
Pointed(t) == IF t.k = "A" THEN t.c[1] ELSE Tree("D", "", <<t>>)
AddressTerm(t) == IF t.k \in {"D", "function"} THEN IF t.k = "D" THEN t.c[1] ELSE t ELSE Tree("A", "", <<t>>)
Through(t, lang, type) == IF lang # "C" /\ Kind(type) = "reference" THEN Pointed(t) ELSE t
ThisTerm == Tree("var", "this", <<>>)

(* A variable in scope: which one it is, and its type.                     *)
InScope(d, t) == [d |-> d, t |-> t]
FieldNamed(x) == Fields[CHOOSE c \in DOMAIN Fields : x \in DOMAIN Fields[c]][x]
FieldTerm(object, x, lang) ==
  IF x \in UNION {DOMAIN Fields[c] : c \in DOMAIN Fields}
  THEN Through(Tree("field", x, <<object>>), lang, FieldNamed(x)) ELSE Tree("field", x, <<object>>)

NameTerm(x, E, lang) ==
  CASE x \in DOMAIN E -> Through(Tree("var", E[x].d, <<>>), lang, E[x].t)
    [] x \notin DOMAIN E /\ lang # "C" /\ FieldType(func.cls, x) # NoType -> FieldTerm(Pointed(ThisTerm), x, lang)
    [] x \in DOMAIN Globals /\ x \notin DOMAIN E /\ (lang = "C" \/ FieldType(func.cls, x) = NoType) -> Tree("global", x, <<>>)
    [] IsFunction(x) /\ lang # "C" -> Tree("function", x, <<>>)
    [] OTHER -> Tree("undeclared", x, <<>>)

(* What has an address, in C++.                                            *)
Returns(e) == e.s # "" /\ Kind(Callables[e.s].result) = "reference"
IsObject(e) ==
  \/ e.k = "id" \/ IsMember(e)
  \/ e.k \in {"deref", "index", "="} /\ e.s = ""
  \/ e.k \in {"call"} \cup Operators /\ Returns(e)

(* A value that is bound to a reference is bound through a temporary.      *)
Bound(t, e, type) ==
  IF Kind(type) # "reference" THEN t ELSE IF IsObject(e) THEN AddressTerm(t) ELSE Tree("temporary", "", <<t>>)

(* What is returned and not used need not be read through.                 *)
Unused(t) == IF t.k = "D" /\ t.c[1].k = "call" THEN t.c[1] ELSE t

RECURSIVE Means(_, _, _)
(* The object of a method call in C++, as a pointer.                       *)
ObjectTerm(callee, E, lang) ==
  CASE callee.k = "." -> AddressTerm(Means(callee.c[1], E, lang))
    [] callee.k = "->" -> Means(callee.c[1], E, lang)
    [] OTHER -> ThisTerm

(* The operands are the arguments, of a method all but the first.          *)
ArgumentTerms(f, operands, E, lang) ==
  [i \in DOMAIN operands |->
     LET t == Means(operands[i], E, lang) IN IF lang = "C" THEN t ELSE Bound(t, operands[i], f.params[i])]
CppCall(e, E, lang) ==
  LET f == Callables[e.s]
      operator == e.k # "call"
      method == f.cls # NoBase
      object == IF operator THEN AddressTerm(Means(e.c[1], E, lang)) ELSE ObjectTerm(e.c[1], E, lang)
      operands == IF operator /\ ~method THEN e.c ELSE Tail(e.c)
      called == Tree("call", e.s, (IF method THEN <<object>> ELSE <<>>) \o ArgumentTerms(f, operands, E, lang))
  IN  IF Returns(e) THEN Pointed(called) ELSE called

Means(e, E, lang) ==
  CASE e.k = "id" -> NameTerm(e.s, E, lang)
    [] e.k = "this" -> ThisTerm
    [] e.k = "fun" -> Tree("function", e.s, <<>>)
    [] e.k \in {"int", "null"} -> IF e = Number("0") THEN Null ELSE e
    [] e.k = "." -> FieldTerm(Means(e.c[1], E, lang), e.s, lang)
    [] e.k = "->" -> FieldTerm(Pointed(Means(e.c[1], E, lang)), e.s, lang)
    [] e.k \in {"cast", "keep"} -> Means(e.c[1], E, lang)
    [] e.k = "temp" -> Tree("temporary", "", <<Means(e.c[1], E, lang)>>)
    [] e.k = "call" /\ lang = "C" /\ e.s # "" ->
         Tree("call", e.s, [i \in DOMAIN Tail(e.c) |-> Means(e.c[i + 1], E, lang)])
    [] e.k \in {"call"} \cup Operators /\ lang # "C" /\ e.s # "" -> CppCall(e, E, lang)
    [] e.k = "deref" /\ e.s = "" -> Pointed(Means(e.c[1], E, lang))
    [] e.k = "addr" -> AddressTerm(Means(e.c[1], E, lang))
    [] e.k = "new" -> Tree("new", e.s, ArgumentTerms(Callables[e.s], e.c, E, lang))
    [] OTHER -> Mapped(e, LAMBDA d : Means(d, E, lang))

(* Of a statement, and the variables in scope behind it.                   *)
RECURSIVE MeansStmt(_, _, _)
MeansStmt(n, E, lang) ==
  LET next(w, kid) ==
        LET d == MeansStmt(kid, w.E, lang) IN [c |-> IF IsStatic(kid) THEN w.c ELSE Append(w.c, d.t), E |-> d.E]
      below == FoldLeft(next, [c |-> <<>>, E |-> E], n.c)
      meant == [t |-> Tree(n.k, n.s, below.c), E |-> IF n.k \in Scopes /\ lang # "flat" THEN E ELSE below.E]
      value == Means(n.c[1], E, lang)
      bound == IF lang = "C" THEN value ELSE Bound(value, n.c[1], n.t)
      returned == IF lang = "C" THEN value ELSE Bound(value, n.c[1], source.func.result)
  IN  CASE ~IsStatement(n) -> [t |-> Means(n, E, lang), E |-> E]
        [] n.k = "decl" ->
             [t |-> Tree("decl", n.d, IF n.c = <<>> THEN <<>> ELSE <<bound>>), E |-> (n.s :> InScope(n.d, n.t)) @@ E]
        [] n.k = "return" /\ n.c # <<>> -> [meant EXCEPT !.t.c = <<returned>>]
        [] n.k = "expr" -> [meant EXCEPT !.t.c = <<Unused(value)>>]
        [] OTHER -> meant

Scope(f, made) ==
  [x \in {made[i].s : i \in DOMAIN made} |-> LET s == made[First({i \in DOMAIN made : made[i].s = x})] IN InScope(s.d, s.t)]
    @@ [x \in Range(f.names) |-> InScope(x, Parameters(f)[x])]
CppMeaning == MeansStmt(source.body, Scope(source.func, <<>>), "C++").t
CMeaning == MeansStmt(body, Scope(func, statics), "C").t

(* The phases know a declaration to the end of the function: what they     *)
(* take a name for is what it means, unless the name is used again behind  *)
(* the block that declares it.                                             *)
SameScopes ==
  \A h \in {HoistIn(source.body, <<>>)} :
    LET E == Scope(source.func, h.made) IN MeansStmt(h.n, E, "C++").t = MeansStmt(h.n, E, "flat").t

Lowered == stage = "casts"

(* A lowered body does with the same variables what the source says:       *)
(* through `this`, static locals that are globals and references that are  *)
(* pointers, every use still reaches the variable that is in scope there,  *)
(* by as many steps as it needs, and every call its receiver and arguments *)
(* (hoist_static_locals, phases 2 to 6a).                                  *)
UsesKeepTheirMeaning == Lowered /\ SameScopes => CMeaning = CppMeaning

-----------------------------------------------------------------------------
(* The types the console's C compiler finds, which converts no pointer to  *)
(* another, no 0 to a pointer and no function to a pointer.  Values read    *)
(* from const objects are phase 11's to cast (Compat).                     *)
Wrong == NoType
CTypeOf(t) == Canonical(Relabelled(t))

Converts(given, t) ==
  LET from == NoConst(given)
      to == NoConst(t)
  IN  /\ from # Wrong
      /\ \/ from = to
         \/ Kind(from) = "pointer" /\ to = Pointer(ConstOf(Of(from)))
         \/ from = NullPtr /\ Kind(to) \in {"pointer", "callback"}

(* What a method's `this` is in C: for a virtual one as the vtable has it. *)
ThisOf(f) ==
  LET c == Named(IF f.slot = NoBase THEN f.cls ELSE f.slot) IN Pointer(IF f.const THEN ConstOf(c) ELSE c)
CParameters(f) ==
  [i \in DOMAIN f.params |-> CTypeOf(f.params[i])]
Takes(f) == (IF f.cls = NoBase THEN <<>> ELSE <<ThisOf(f)>>) \o CParameters(f)
AllConvert(given, params) ==
  Len(given) = Len(params) /\ \A i \in DOMAIN given : Converts(given[i], params[i])

(* A member of an object of type t.                                        *)
MemberType(t, x) ==
  LET m == FieldType(ClassOf(NoConst(t)), x)
  IN  IF m = NoType THEN Wrong ELSE IF Kind(t) = "const" THEN Canonical(ConstOf(CTypeOf(m))) ELSE CTypeOf(m)

IsPlace(e) == e.k \in {"id", "deref", ".", "->", "index"}
IsVtableCall(callee) == callee.k = "->" /\ callee.c[1].k = "->"

RECURSIVE CType(_, _)
OperatorType(e, T) ==
  CASE e.k = "=" -> IF IsPlace(e.c[1]) /\ Kind(T[1]) # "const" /\ Converts(T[2], T[1]) THEN T[1] ELSE Wrong
    [] e.k = "==" -> IF Converts(NoConst(T[1]), T[2]) \/ Converts(NoConst(T[2]), T[1]) THEN Named("int") ELSE Wrong
    [] e.k = "+" -> IF {NoConst(T[1]), NoConst(T[2])} = {Named("int")} THEN Named("int") ELSE Wrong
    [] e.k = "neg" -> IF NoConst(T[1]) = Named("int") THEN Named("int") ELSE Wrong
    [] e.k = "index" -> Pointee(NoConst(T[1]), {"pointer", "array"})
    [] e.k = "deref" -> Pointee(NoConst(T[1]), {"pointer"})
    [] e.k = "addr" -> IF T[1] = Wrong \/ ~IsPlace(e.c[1]) THEN Wrong ELSE Pointer(T[1])

CType(e, E) ==
  LET T == [i \in DOMAIN e.c |-> CType(e.c[i], E)]
  IN  CASE e.k = "id" -> IF e.s \in DOMAIN E THEN CTypeOf(E[e.s].t)
                         ELSE IF e.s \in DOMAIN Globals THEN CTypeOf(Globals[e.s]) ELSE Wrong
        [] e.k = "int" -> Named("int")
        [] e.k = "null" -> NullPtr
        [] e.k = "addr" /\ e.c[1].k = "fun" -> <<"callback", CTypeOf(Callables[e.c[1].s].result)>>
        [] e.k = "." -> MemberType(T[1], e.s)
        [] e.k = "->" -> MemberType(Pointee(NoConst(T[1]), {"pointer"}), e.s)
        [] e.k = "cast" -> IF T[1] = Wrong THEN Wrong ELSE Canonical(e.s)
        [] e.k = "temp" -> IF Converts(T[1], Canonical(e.s)) THEN Pointer(Canonical(e.s)) ELSE Wrong
        [] e.k = "new" -> IF AllConvert(T, CParameters(Callables[e.s])) THEN Pointer(Named(e.s)) ELSE Wrong
        [] e.k = "call" /\ e.s # "" ->
             IF /\ e.c[1].k = "fun" \/ IsVtableCall(e.c[1])
                /\ AllConvert(Tail(T), Takes(Callables[e.s]))
             THEN CTypeOf(Callables[e.s].result) ELSE Wrong
        [] e.k = "?:" -> IF T[1] # Wrong /\ Converts(T[3], T[2]) THEN T[2] ELSE Wrong
        [] e.k = "call" /\ e.s = "" -> IF Kind(T[1]) = "callback" THEN Of(T[1]) ELSE Wrong
        [] e.k \in Operators /\ ~(e.k = "addr" /\ e.c[1].k = "fun") -> IF e.s = "" THEN OperatorType(e, T) ELSE Wrong
        [] OTHER -> Wrong

RECURSIVE Accepted(_, _)
(* A list of statements, each with the declarations before it.             *)
Behind(c, i, E) == FoldLeft(LAMBDA F, n : IF n.k = "decl" THEN (n.s :> InScope(n.d, n.t)) @@ F ELSE F, E, SubSeq(c, 1, i - 1))
Accepted(n, E) ==
  /\ ~IsStatement(n) => CType(n, E) # Wrong
  /\ n.k = "decl" => n.c = <<>> \/ Converts(CType(n.c[1], E), CTypeOf(n.t))
  /\ n.k = "return" => n.c = <<>> \/ Converts(CType(n.c[1], E), CTypeOf(func.result))
  /\ IsStatement(n) => \A i \in DOMAIN n.c : Accepted(n.c[i], Behind(n.c, i, E))

(* The console's C compiler accepts every lowered body: all names are      *)
(* declared, nothing is dereferenced that is no pointer, and pointers to   *)
(* derived classes, 0 and functions are given the type of what they are    *)
(* stored in, passed for, compared with or returned as.                    *)
PointersAgree == Lowered /\ SameScopes => Accepted(body, Scope(func, statics))
=============================================================================
