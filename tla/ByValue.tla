------------------------------ MODULE ByValue ------------------------------
(***************************************************************************)
(* Phases 9 and 9b of lower.c.  The console's compiler moves one word per  *)
(* parameter and result, so an object of more words travels by address:    *)
(* the caller passes the address of its object, the callee copies it on    *)
(* entry, and writes its result through a hidden pointer.  Phase 9 comes   *)
(* before it and moves each returned value into a temporary (what else it  *)
(* does is in DestructScope).                                              *)
(***************************************************************************)
EXTENDS CppBody

CONSTANTS
  Objects,       \* the variables that are objects of more than one word
  ObjectParams   \* of them, the parameters

ReturnTemp(at) == <<"ret_tmp">> \o at
ResultTemp(at) == <<"sret_tmp">> \o at
IsResultTemp(e) == e.kind = "ident" /\ Head(e.str) = "sret_tmp"
ByValuePointer(v) == <<"byval">> \o v

Field(e, k) == Node("field", k, <<e>>)
Object(p)   == Node("object", 0, <<p>>)
Join(a, b)  == Node("comma", 0, <<a, b>>)
Each(n, f(_, _), at) == [n EXCEPT !.kids = [i \in DOMAIN n.kids |-> f(n.kids[i], Append(at, i))]]

-----------------------------------------------------------------------------
(* Phase 9: `return e;` is `T tmp = e; return tmp;`.                       *)
RECURSIVE HoldReturns(_, _)
HoldReturns(s, at) ==
  CASE s.kind = "return" /\ s.kids[1].kind # "none" ->
         Block(<<Declare(ReturnTemp(at), s.kids[1]), Return(Ident(ReturnTemp(at)))>>)
    [] s.kind \in {"block", "if", "while", "do", "for", "switch", "label"} -> Each(s, HoldReturns, at)
    [] OTHER -> s

-----------------------------------------------------------------------------
(* Phase 9b, pass 1: expressions.                                          *)

(* abi_big_struct() of the type of e.                                      *)
RECURSIVE IsObject(_)
IsObject(e) ==
  \/ e.kind = "ident" /\ e.str \in Objects
  \/ e.kind \in {"call", "vcall", "dispatch"} /\ e.str \in StructResults
  \/ e.kind = "assign" /\ IsObject(e.kids[1])
  \/ e.kind \in {"ternary", "comma"} /\ IsObject(e.kids[2])

(* abi_is_call(): one that has not been rewritten.                         *)
IsCall(e) == e.kind \in {"call", "dispatch"}

(* The hidden pointer comes after `this`.                                  *)
HiddenIndex(call) == IF call.kind = "dispatch" THEN 3 ELSE 1

RECURSIVE AbiExpr(_, _)

(* Mutant: an object that a call returns is passed as it is.               *)
PrepareCall_VariablesOnly(call, at) ==
  [call EXCEPT !.kids = [i \in DOMAIN @ |->
     LET arg == AbiExpr(@[i], Append(at, i)) IN IF IsObject(@[i]) /\ @[i].kind = "ident" THEN AddrOf(arg) ELSE arg]]

(* abi_prepare_call(): nested calls first, then objects by their address.  *)
PrepareCall(call, at) ==
  [call EXCEPT !.kids = [i \in DOMAIN @ |->
     LET arg == AbiExpr(@[i], Append(at, i)) IN IF IsObject(@[i]) THEN AddrOf(arg) ELSE arg]]

(* abi_call_into()                                                         *)
CallInto(call, dest, at) ==
  IF call.str \in StructResults
    THEN [PrepareCall(call, at) EXCEPT !.kids = InsertAt(@, HiddenIndex(call), dest)]
    ELSE PrepareCall(call, at)

(* abi_expr(): a result that is needed as a value is (f(&tmp, ...), tmp);  *)
(* a member of a call's result, then of one word, is (tmp = f(), tmp).m.   *)
AbiExpr(n, at) ==
  LET temp == Ident(ResultTemp(at))
      done == Each(n, AbiExpr, at)
  IN CASE IsCall(n) /\ n.str \in StructResults -> Join(CallInto(n, AddrOf(temp), at), temp)
       [] IsCall(n) /\ n.str \notin StructResults -> PrepareCall(n, at)
       [] n.kind = "field" /\ IsCall(done.kids[1]) -> [done EXCEPT !.kids[1] = Join(Assign(temp, @), temp)]
       [] OTHER -> done

-----------------------------------------------------------------------------
(* Statements; `ret` says whether the function itself returns an object.   *)

RECURSIVE AbiStmt(_, _, _)

(* The value of a return goes straight to where the caller wants it.       *)
AbiReturn(e, at) ==
  LET dest == Ident(RetPointer)
      store == IF IsCall(e) /\ e.str \in StructResults THEN CallInto(e, dest, at)
               ELSE Assign(Object(dest), AbiExpr(e, at))
  IN Block(<<ExprStmt(store), Return(None)>>)

AbiExprStmt(e, at) ==
  LET target == AbiExpr(e.kids[1], Append(at, 1))
      call == CallInto(e.kids[2], AddrOf(target), Append(at, 2))
      rest == AbiExpr(e, at)
      unused == rest.kind = "comma" /\ IsCall(rest.kids[1]) /\ IsResultTemp(rest.kids[2])
  IN IF e.kind = "assign" /\ IsCall(e.kids[2])
       THEN ExprStmt(IF IsObject(e.kids[2]) THEN call ELSE Assign(target, call))
       ELSE ExprStmt(IF unused THEN rest.kids[1] ELSE rest)

HoldsObject(decl, ret) == decl.str \in Objects \/ (ret /\ Head(decl.str) = "ret_tmp")

(* A declaration in a list: its call writes into the variable, and if it   *)
(* returns no object the whole declaration stays as it is.                 *)
AbiDecl(s, ret, at) ==
  IF HoldsObject(s, ret)
    THEN <<Declare(s.str, None), ExprStmt(CallInto(s.kids[1], AddrOf(Ident(s.str)), at))>>
    ELSE <<s>>

(* Phase 9's temporary of an object, with nothing to destroy before its    *)
(* return, is not needed.                                                  *)
HeldForReturn(ss, i, ret) ==
  /\ ret /\ i \in 1 .. Len(ss) - 1
  /\ ss[i].kind = "decl" /\ Head(ss[i].str) = "ret_tmp" /\ ~IsCall(ss[i].kids[1])
  /\ ss[i + 1].kind = "return" /\ ss[i + 1].kids[1].kind = "ident" /\ ss[i + 1].kids[1].str = ss[i].str

(* abi_stmt_list()                                                         *)
AbiList(ss, ret, at) ==
  LET item(i) ==
        LET s == ss[i] here == Append(at, i)
        IN CASE s.kind = "decl" /\ IsCall(s.kids[1]) -> AbiDecl(s, ret, here)
             [] HeldForReturn(ss, i, ret) -> <<>>
             [] i > 1 /\ HeldForReturn(ss, i - 1, ret) -> <<AbiReturn(ss[i - 1].kids[1], here)>>
             [] OTHER -> <<AbiStmt(s, ret, here)>>
  IN FlattenSeq([i \in DOMAIN ss |-> item(i)])

(* abi_stmt()                                                              *)
AbiStmt(s, ret, at) ==
  LET parts(statements) ==
        [s EXCEPT !.kids = [i \in DOMAIN @ |-> IF i \in statements THEN AbiStmt(@[i], ret, Append(at, i))
                                               ELSE AbiExpr(@[i], Append(at, i))]]
  IN CASE s.kind = "block"  -> Block(AbiList(s.kids, ret, at))
       [] s.kind = "switch" -> [s EXCEPT !.kids = <<AbiExpr(Head(@), at)>> \o AbiList(Tail(@), ret, at)]
       [] s.kind = "if"     -> parts({2, 3})
       [] s.kind \in {"while", "do"} -> parts({2})
       [] s.kind = "for"    -> parts({1, 4})
       [] s.kind = "label"  -> parts({1})
       [] s.kind = "decl"   -> parts({})
       [] s.kind = "expr"   -> AbiExprStmt(s.kids[1], at)
       [] s.kind = "return" -> IF ret /\ s.kids[1] # None THEN AbiReturn(s.kids[1], at) ELSE parts({})
       [] OTHER             -> s

-----------------------------------------------------------------------------
(* A function: its result temporaries at the top and, by pass 2, before    *)
(* them its own copies of the objects it is passed.                        *)

RECURSIVE ResultTemps(_), Uses(_, _), ReturnsObject(_)

(* Each is given to one call, or stored into once.                         *)
ResultTemps(n) ==
  LET given == n.kind \in {"addrof", "assign"} /\ IsResultTemp(n.kids[1])
  IN (IF given THEN <<Declare(n.kids[1].str, None)>> ELSE <<>>)
       \o FlattenSeq([i \in DOMAIN n.kids |-> ResultTemps(n.kids[i])])

Uses(n, v) == (n.kind = "ident" /\ n.str = v) \/ \E i \in DOMAIN n.kids : Uses(n.kids[i], v)
ReturnsObject(n) ==
  \/ n.kind = "return" /\ IsObject(n.kids[1])
  \/ \E i \in DOMAIN n.kids : ReturnsObject(n.kids[i])

(* abi_rewrite_body()                                                      *)
AbiBody(body, ret) ==
  LET done == AbiStmt(body, ret, <<>>)
  IN Block(ResultTemps(done) \o done.kids)

(* abi_rewrite_signature(): `T v = *__v32_byval_v;`.  The parameters of a  *)
(* function are those that its body mentions.                              *)
EntryCopies(body) ==
  Block(SetToSeq({Declare(v, Object(Ident(ByValuePointer(v)))) : v \in {v \in ObjectParams : Uses(body, v)}})
          \o body.kids)

(* What the console's compiler refuses: an object as an argument or as a   *)
(* result, and a member of a result.                                       *)
RECURSIVE PassesObject(_)
PassesObject(n) ==
  \/ IsCall(n) /\ \E i \in DOMAIN n.kids : IsObject(n.kids[i]) \/ IsResultTemp(n.kids[i])
  \/ IsCall(n) /\ n.str \in StructResults /\ ~\E i \in DOMAIN n.kids : IsAddress(n.kids[i])
  \/ n.kind = "field" /\ IsCall(n.kids[1])
  \/ n.kind = "return" /\ IsObject(n.kids[1])
  \/ \E i \in DOMAIN n.kids : PassesObject(n.kids[i])
=============================================================================
