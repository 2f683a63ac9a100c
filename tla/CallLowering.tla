---------------------------- MODULE CallLowering ----------------------------
(***************************************************************************)
(* Phases 3 and 3c of lower.c: calls get their final shape.                *)
(*                                                                         *)
(* A virtual call r->m(args) becomes r->vtable->m(r, args), which writes   *)
(* its receiver out twice; where that is not safe, phase 3c moves the      *)
(* receiver into a temporary that is declared before the statement.  A     *)
(* value that is bound to a reference parameter gets a temporary, too, at  *)
(* the top of the function.                                                *)
(***************************************************************************)
EXTENDS CppBody

RefTemp(at)  == <<"ref_tmp">> \o at
V32Temp(at)  == <<"v32_temp">> \o at

Addr(v)      == Node("addr", v, <<>>)
Comma(a, b)  == Node("comma", 0, <<a, b>>)

-----------------------------------------------------------------------------
(* Phase 3 on an expression.                                               *)

(* needs_reference_temporary(): whatever has no address of its own (C has  *)
(* none for an assignment either, which goes through unnoticed).           *)
NeedsTemporary(e) == e.kind \notin {"ident", "assign"}

(* A reference parameter is given an address, of the variable itself or of *)
(* the temporary that holds the value: (tmp = e, &tmp).                    *)
Bind(e, at) ==
  IF NeedsTemporary(e)
    THEN Comma(Assign(Ident(RefTemp(at)), e), Addr(RefTemp(at)))
    ELSE Addr(e.str)

(* finalize_call(), a virtual method.                                      *)
Dispatch(n) == Node("dispatch", n.str, <<Head(n.kids)>> \o n.kids)

Mapped(n, f(_, _), at) == [n EXCEPT !.kids = [i \in DOMAIN n.kids |-> f(n.kids[i], Append(at, i))]]

RECURSIVE FinalizeExpr(_, _)
FinalizeExpr(n, at) ==
  LET done == Mapped(n, FinalizeExpr, at)
  IN CASE n.kind = "vcall" -> Dispatch(done)
       [] n.kind = "ref"   -> Bind(done.kids[1], at)
       [] OTHER            -> done

RECURSIVE RefTemps(_)
RefTemps(n) ==
  (IF n.kind = "addr" /\ Head(n.str) = "ref_tmp" THEN {n.str} ELSE {})
    \cup UNION {RefTemps(n.kids[i]) : i \in DOMAIN n.kids}

(* flush_reference_temporaries()                                           *)
Flushed(body) == Block(SetToSeq({Declare(v, None) : v \in RefTemps(body)}) \o body.kids)

-----------------------------------------------------------------------------
(* Phase 3c on the finished expressions of a statement.                    *)

(* expr_contains_call() looks into the first slot and the arguments only.  *)
RECURSIVE ContainsCall(_)
ContainsCall(n) ==
  n.kind \in {"call", "dispatch"} \/ (n.kids # <<>> /\ ContainsCall(Head(n.kids)))

(* receiver_is_simple(): it may be written out twice.                      *)
ReceiverIsSimple(n) == n.kind = "ident"

(* expr_has_cond_eval(): not all of it may be evaluated.                   *)
RECURSIVE HasCondEval(_)
HasCondEval(n) ==
  \/ n.kind \in {"ternary", "and", "or"}
  \/ \E i \in DOMAIN n.kids : HasCondEval(n.kids[i])

RECURSIVE Hoist(_, _)

HoistKids(n, at) ==
  LET kid(i) == Hoist(n.kids[i], Append(at, i))
  IN [pre |-> FlattenSeq([i \in DOMAIN n.kids |-> kid(i).pre]),
      e |-> [n EXCEPT !.kids = [i \in DOMAIN n.kids |-> kid(i).e]]]

(* The receiver is the first kid and, as the argument `this`, the second.  *)
HoistDispatch(n, at) ==
  LET moves(i) == /\ ~HasCondEval(n.kids[i])
                  /\ IF i = 1 THEN ~ReceiverIsSimple(n.kids[1]) ELSE i > 2 /\ ContainsCall(n.kids[i])
      from(i) == IF i = 2 THEN 1 ELSE i
      temp(i) == V32Temp(Append(at, i))
      moved == FlattenSeq([i \in DOMAIN n.kids |-> IF moves(i) THEN <<Declare(temp(i), n.kids[i])>> ELSE <<>>])
      left(i) == IF moves(from(i)) THEN Ident(temp(from(i))) ELSE n.kids[i]
      args == HoistKids(Node("call", n.str, [i \in 1 .. Len(n.kids) - 1 |-> left(i + 1)]), at)
  IN [pre |-> moved \o args.pre, e |-> [n EXCEPT !.kids = <<left(1)>> \o args.e.kids]]

(* hoist_hazards_in_expr(): nothing leaves a conditional evaluation.       *)
Hoist(n, at) ==
  CASE n.kind \in {"ternary", "and", "or"} -> [pre |-> <<>>, e |-> n]
    [] n.kind = "dispatch" -> HoistDispatch(n, at)
    [] OTHER -> HoistKids(n, at)

(* Mutant: the condition of an if is passed over.                          *)
HoistStmt_NotIf(s, at) ==
  IF s.kind \in {"expr", "return", "decl"}
    THEN LET h == Hoist(s.kids[1], Append(at, 1)) IN Append(h.pre, [s EXCEPT !.kids[1] = h.e])
    ELSE <<s>>

(* hoist_indirect_call_temps_stmt()                                        *)
HoistStmt(s, at) ==
  IF s.kind \in {"expr", "return", "decl", "if"}
    THEN LET h == Hoist(s.kids[1], Append(at, 1)) IN Append(h.pre, [s EXCEPT !.kids[1] = h.e])
    ELSE <<s>>

IsLoop(s) == s.kind \in {"while", "do", "for"}

HoistList(ss, at) == FlattenSeq([i \in DOMAIN ss |-> HoistStmt(ss[i], Append(at, i))])

(* The body of a loop becomes a block, and is gone through once more after *)
(* its own visit.                                                          *)
HoistLoop(s, at) ==
  [s EXCEPT !.kids[IF s.kind = "for" THEN 4 ELSE 2] =
     Block(HoistList(AsBlock(@).kids, Append(at, 0)))]

HoistBlock(ss, at) ==
  FlattenSeq([i \in DOMAIN ss |-> IF IsLoop(ss[i]) THEN <<HoistLoop(ss[i], Append(at, i))>>
                                  ELSE HoistStmt(ss[i], Append(at, i))])

(* finalize_calls_stmt(): only what stands directly in a block is hoisted  *)
(* from.                                                                   *)
Statements == {"block", "decl", "expr", "return", "if", "while", "do", "for", "switch", "label"}

RECURSIVE FinalizeStmt(_, _)
FinalizeStmt(s, at) ==
  LET part(n, p) == IF n.kind \in Statements THEN FinalizeStmt(n, p) ELSE FinalizeExpr(n, p)
      done == Mapped(s, part, at)
  IN IF s.kind = "block" THEN Block(HoistBlock(done.kids, at)) ELSE done

(* finalize_calls_in_method()                                              *)
FinalizeCalls(body) == Flushed(FinalizeStmt(body, <<>>))
=============================================================================
