------------------------------ MODULE Ternary ------------------------------
(***************************************************************************)
(* Phase 10 of lower.c: the Vircon32 C compiler knows neither `c ? a : b`  *)
(* nor `a, b`, so both are rewritten into statements.                      *)
(***************************************************************************)
EXTENDS CppBody

(* tern_break_unless(): the loop-exit test.                                *)
BreakUnless(c) == If(c, Block(<<>>), Block(<<Break>>))

Temp(at) == <<"tmp">> \o at

RECURSIVE HasTernary(_)
HasTernary(n) ==
  \/ n.kind \in {"ternary", "comma"}
  \/ \E i \in DOMAIN n.kids : HasTernary(n.kids[i])

-----------------------------------------------------------------------------
(* The rewriting.  `at` is the path of a node in the body.                 *)

RECURSIVE LowerExpr(_, _), RewriteStmt(_, _), RewriteList(_, _, _)

(* tern_block_rewriting()                                                  *)
Rewriting(s, at) == Block(RewriteStmt(s, at))

(* tern_lower_expr() on the operands, in order.                            *)
LowerKids(n, at) ==
  LET kid(i) == LowerExpr(n.kids[i], Append(at, i))
  IN [pre |-> FlattenSeq([i \in DOMAIN n.kids |-> kid(i).pre]),
      e |-> [n EXCEPT !.kids = [i \in DOMAIN n.kids |-> kid(i).e]]]

LowerTernary(n, at) ==
  LET c == LowerExpr(n.kids[1], Append(at, 1))
      branch(i) == Rewriting(Store(Temp(at), n.kids[i]), Append(at, i))
  IN [pre |-> c.pre \o <<Declare(Temp(at), None), If(c.e, branch(2), branch(3))>>,
      e |-> Ident(Temp(at))]

LowerComma(n, at) ==
  LET b == LowerExpr(n.kids[2], Append(at, 2))
  IN [pre |-> RewriteStmt(ExprStmt(n.kids[1]), Append(at, 1)) \o b.pre, e |-> b.e]

(* Mutant: both sides are evaluated, then && or || is.                     *)
LowerLogic_Eager(n, at) == LowerKids(n, at)

(* The right side runs only when the left one does not decide.             *)
LowerLogic(n, at) ==
  LET a == LowerExpr(n.kids[1], Append(at, 1))
      set == Block(<<Store(Temp(at), Lit(1))>>)
      right == Rewriting(If(n.kids[2], set, None), Append(at, 2))
  IN [pre |-> a.pre \o <<Declare(Temp(at), Lit(0)),
                         IF n.kind = "and" THEN If(a.e, right, None) ELSE If(a.e, set, right)>>,
      e |-> Ident(Temp(at))]

(* tern_lower_expr(): the statements to run before, and what is left.      *)
LowerExpr(n, at) ==
  CASE ~HasTernary(n)      -> [pre |-> <<>>, e |-> n]
    [] n.kind = "ternary"  -> LowerTernary(n, at)
    [] n.kind = "comma"    -> LowerComma(n, at)
    [] n.kind \in {"and", "or"} /\ HasTernary(n.kids[2]) -> LowerLogic(n, at)
    [] OTHER               -> LowerKids(n, at)

(* tern_rewrite_child(): a body that is one statement becomes a block when *)
(* it turns into several.                                                  *)
RewriteChild(s, at) ==
  IF s.kind # "block" /\ ~HasTernary(s) THEN s
  ELSE LET out == RewriteStmt(s, at) IN IF Len(out) = 1 THEN out[1] ELSE Block(out)

(* `v = c ? a : b;`, `T v = c ? a : b;` and `return c ? a : b;` need no    *)
(* temporary; the branches of the last one return.                         *)
Direct(before, v, t, at) ==
  LET c == LowerExpr(t.kids[1], at \o <<1, 1>>)
      branch(i) == Rewriting(IF v = <<>> THEN Return(t.kids[i]) ELSE Store(v, t.kids[i]), at \o <<1, i>>)
  IN c.pre \o before \o <<If(c.e, branch(2), branch(3))>>

RewriteDecl(s, at) ==
  IF s.kids[1].kind = "ternary" THEN Direct(<<Declare(s.str, None)>>, s.str, s.kids[1], at)
  ELSE LET e == LowerExpr(s.kids[1], Append(at, 1)) IN Append(e.pre, Declare(s.str, e.e))

(* A statement that is an expression, or has one in its first slot.        *)
RewriteFirst(s, at) ==
  LET e == LowerExpr(s.kids[1], Append(at, 1)) IN Append(e.pre, [s EXCEPT !.kids[1] = e.e])

RewriteExpr(s, at) ==
  LET e == s.kids[1]
  IN IF e.kind = "assign" /\ e.kids[1].kind = "ident" /\ e.kids[2].kind = "ternary"
       THEN Direct(<<>>, e.kids[1].str, e.kids[2], at)
       ELSE RewriteFirst(s, at)

RewriteReturn(s, at) ==
  IF s.kids[1].kind = "ternary" THEN Direct(<<>>, <<>>, s.kids[1], at) ELSE RewriteFirst(s, at)

RewriteIf(s, at) ==
  RewriteFirst([s EXCEPT !.kids[2] = RewriteChild(@, Append(at, 2)),
                         !.kids[3] = RewriteChild(@, Append(at, 3))], at)

(* The statements of a pass that leaves the loop unless c holds.           *)
Test(c, at) ==
  IF c = None THEN <<>>
  ELSE LET e == LowerExpr(c, at) IN Append(e.pre, BreakUnless(e.e))

BodyBlock(s, at) == Block(RewriteList(AsBlock(s).kids, at, FALSE))

(* Everything but the first pass runs ss first; `continue` comes back here. *)
SkipFirst(first, ss) == <<If(Ident(first), Block(<<>>), Block(ss)), Store(first, Lit(0))>>

RewriteWhile(s, at) ==
  LET first == Temp(Append(at, 0))
      test == Test(s.kids[1], Append(at, 1))
      body == BodyBlock(s.kids[2], Append(at, 2))
  IN IF ~HasTernary(s.kids[1]) THEN <<[s EXCEPT !.kids[2] = RewriteChild(@, Append(at, 2))]>>
     ELSE IF s.kind = "do"
       THEN <<Declare(first, Lit(1)), While(Lit(1), Block(Append(SkipFirst(first, test), body)))>>
       ELSE <<While(Lit(1), Block(Append(test, body)))>>

(* The loop of a `for` whose condition or increment cannot stay.           *)
RewriteForLoop(s, at) ==
  LET first == Temp(Append(at, 0))
      incr == RewriteStmt(ExprStmt(s.kids[3]), Append(at, 3))
      pass == Append(Test(s.kids[2], Append(at, 2)), BodyBlock(s.kids[4], Append(at, 4)))
  IN IF s.kids[3] = None THEN <<While(Lit(1), Block(pass))>>
     ELSE <<Declare(first, Lit(1)), While(Lit(1), Block(SkipFirst(first, incr) \o pass))>>

RewriteFor(s, at) ==
  LET init == IF s.kids[1] = None THEN <<>> ELSE RewriteStmt(s.kids[1], Append(at, 1))
      kept(f) == [f EXCEPT !.kids[4] = RewriteChild(@, Append(at, 4))]
  IN IF HasTernary(s.kids[2]) \/ HasTernary(s.kids[3]) THEN <<Block(init \o RewriteForLoop(s, at))>>
     ELSE IF HasTernary(s.kids[1]) THEN <<Block(Append(init, kept([s EXCEPT !.kids[1] = None])))>>
     ELSE <<kept(s)>>

RewriteSwitch(s, at) ==
  LET e == LowerExpr(s.kids[1], Append(at, 1))
  IN Append(e.pre, [s EXCEPT !.kids = <<e.e>> \o RewriteList(Tail(@), at, TRUE)])

(* What is hoisted comes after the label: a goto would skip it.            *)
RewriteLabel(s, at) == <<[s EXCEPT !.kids[1] = RewriteChild(@, Append(at, 1))]>>

(* tern_rewrite_stmt()                                                     *)
RewriteStmt(s, at) ==
  CASE s.kind = "block"  -> <<Block(RewriteList(s.kids, at, FALSE))>>
    [] s.kind = "decl"   -> RewriteDecl(s, at)
    [] s.kind = "expr"   -> RewriteExpr(s, at)
    [] s.kind = "return" -> RewriteReturn(s, at)
    [] s.kind = "if"     -> RewriteIf(s, at)
    [] s.kind \in {"while", "do"} -> RewriteWhile(s, at)
    [] s.kind = "for"    -> RewriteFor(s, at)
    [] s.kind = "switch" -> RewriteSwitch(s, at)
    [] s.kind = "label"  -> RewriteLabel(s, at)
    [] OTHER             -> <<s>>

(* Mutant: what a statement of a switch needs stands beside it.            *)
Spliced_Flat(out, in_switch) == out

Spliced(out, in_switch) == IF in_switch /\ Len(out) > 1 THEN <<Block(out)>> ELSE out

(* Mutant: the statement of a label is passed over.                        *)
Rewritten_NotLabels(s, at) == IF s.kind = "label" THEN <<s>> ELSE RewriteStmt(s, at)

Rewritten(s, at) == IF HasTernary(s) THEN RewriteStmt(s, at) ELSE <<s>>

(* tern_rewrite_list(): a switch gets blocks, as Vircon32 C has no         *)
(* declarations after a case label.                                        *)
RewriteList(ss, at, in_switch) ==
  FlattenSeq([i \in DOMAIN ss |-> Spliced(Rewritten(ss[i], Append(at, i)), in_switch)])

(* rewrite_ternary_in_method()                                             *)
RewriteTernaries(body) == RewriteChild(body, <<>>)

RECURSIVE DeclaresInSwitch(_)
DeclaresInSwitch(n) ==
  \/ n.kind = "switch" /\ \E i \in DOMAIN n.kids : n.kids[i].kind = "decl"
  \/ \E i \in DOMAIN n.kids : DeclaresInSwitch(n.kids[i])
=============================================================================
