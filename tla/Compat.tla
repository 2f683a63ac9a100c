------------------------------- MODULE Compat -------------------------------
(***************************************************************************)
(* Phase 11 of lower.c: valid C that the console's compiler refuses or     *)
(* gets wrong.  It evaluates the target of a compound assignment twice,    *)
(* and once more a call that gives the pointer written through; its right  *)
(* shift is logical; an array does not decay as an operand, and a const    *)
(* value cannot be copied.                                                 *)
(***************************************************************************)
EXTENDS CppBody

CONSTANTS
  Arrays,   \* the variables that are arrays
  Consts,   \* the const variables
  Externs,  \* the variables of types that are declared nowhere in the program
  Library   \* the functions that are

PtrTemp(at)    == <<"ptr">> \o at
TargetTemp(at) == <<"target">> \o at

(* infer_expr_type(): whether it knows one.                                *)
RECURSIVE TypeKnown(_)
TypeKnown(e) ==
  CASE e.kind = "ident" -> e.str \notin Externs
    [] e.kind = "call"  -> e.str \notin Library
    [] e.kind \in {"deref", "index", "member", "step"} -> TypeKnown(e.kids[1])
    [] OTHER -> TRUE

-----------------------------------------------------------------------------
(* What is written to                                                      *)

RECURSIVE HasSideEffect(_)
HasSideEffect(e) ==
  \/ e.kind \in {"step", "assign", "opassign", "call", "dispatch"}
  \/ \E i \in DOMAIN e.kids : HasSideEffect(e.kids[i])

(* v32_called_pointer(): the outermost pointer with a call in it that the  *)
(* lvalue l is reached through.                                            *)
RECURSIVE CalledPointer(_)
CalledPointer(l) ==
  IF l.kind \notin {"deref", "member", "index"} THEN None
  ELSE IF l.kind # "index" /\ HasCall(l.kids[1]) THEN l.kids[1]
  ELSE CalledPointer(l.kids[1])

RECURSIVE WithPointer(_, _)
WithPointer(l, p) ==
  IF l.kind # "index" /\ HasCall(l.kids[1]) THEN [l EXCEPT !.kids[1] = p]
  ELSE [l EXCEPT !.kids[1] = WithPointer(@, p)]

WritesThroughCall(n) ==
  /\ n.kind \in {"assign", "opassign", "step"}
  /\ CalledPointer(n.kids[1]) # None
  /\ TypeKnown(CalledPointer(n.kids[1]))

(* v32_hoist_called_pointer()                                              *)
HoistCalledPointer(n, at) ==
  Block(<<Declare(PtrTemp(at), CalledPointer(n.kids[1])),
          ExprStmt([n EXCEPT !.kids[1] = WithPointer(@, Ident(PtrTemp(at)))])>>)

(* v32_extract_steps(): the steps of plain variables in e, and whether it  *)
(* has no other side effect.                                               *)
RECURSIVE Steps(_, _), StepsOnly(_), WithoutSteps(_)
Steps(e, post) ==
  IF e.kind = "step" THEN IF e.str.post = post THEN <<ExprStmt(e)>> ELSE <<>>
  ELSE FlattenSeq([i \in DOMAIN e.kids |-> Steps(e.kids[i], post)])
StepsOnly(e) ==
  IF e.kind = "step" THEN e.kids[1].kind = "ident"
  ELSE e.kind \notin {"assign", "opassign", "call", "dispatch"} /\ \A i \in DOMAIN e.kids : StepsOnly(e.kids[i])
WithoutSteps(e) ==
  IF e.kind = "step" THEN e.kids[1] ELSE [e EXCEPT !.kids = [i \in DOMAIN @ |-> WithoutSteps(@[i])]]

(* Mutant: a call that gives the pointer is not looked for.                *)
SplitCompound_NoPointer(n, at) ==
  IF n.kind = "opassign" /\ HasSideEffect(n.kids[1])
    THEN Block(<<Declare(TargetTemp(at), AddrOf(n.kids[1])),
                 ExprStmt([n EXCEPT !.kids[1] = Deref(Ident(TargetTemp(at)))])>>)
    ELSE ExprStmt(n)

(* v32_split_compound_stmt()                                               *)
SplitCompound(n, at) ==
  IF WritesThroughCall(n) THEN HoistCalledPointer(n, at)
  ELSE IF n.kind # "opassign" \/ ~HasSideEffect(n.kids[1]) THEN ExprStmt(n)
  ELSE IF TypeKnown(n.kids[1])
    THEN Block(<<Declare(TargetTemp(at), AddrOf(n.kids[1])),
                 ExprStmt([n EXCEPT !.kids[1] = Deref(Ident(TargetTemp(at)))])>>)
  ELSE IF StepsOnly(n.kids[1])
    THEN Block(Steps(n.kids[1], FALSE) \o <<ExprStmt([n EXCEPT !.kids[1] = WithoutSteps(@)])>>
                 \o Steps(n.kids[1], TRUE))
  ELSE ExprStmt(n)

-----------------------------------------------------------------------------
(* Signed right shift                                                      *)

RECURSIVE ExprUnsigned(_)
ExprUnsigned(e) ==
  CASE e.kind = "cast"  -> e.str = "unsigned"
    [] e.kind = "ident" -> e.str \in UnsignedVars
    [] e.kind = "binop" -> IF e.str \in {">>", ">>>"} THEN ExprUnsigned(e.kids[1])
                           ELSE e.str \in {"+", "-", "&", "^"}
                                  /\ (ExprUnsigned(e.kids[1]) \/ ExprUnsigned(e.kids[2]))
    [] e.kind \in {"neg", "compl", "step", "assign", "opassign"} -> ExprUnsigned(e.kids[1])
    [] OTHER -> FALSE

IsLit(e) == e.kind = "int"

(* v32_expr_nonneg()                                                       *)
NonNeg(e) ==
  \/ IsLit(e) /\ e.str >= 0
  \/ e.kind \in {"and", "or"} \/ (e.kind = "binop" /\ e.str \in {"==", "<"})
  \/ e.kind = "binop" /\ e.str = "&" /\ \E i \in 1 .. 2 : IsLit(e.kids[i]) /\ e.kids[i].str >= 0

(* v32_shift_cheap()                                                       *)
RECURSIVE Cheap(_, _)
Cheap(e, depth) ==
  /\ depth <= 3
  /\ \/ e.kind \in {"ident", "int"}
     \/ e.kind \in {"member", "deref", "index"} /\ \A i \in DOMAIN e.kids : Cheap(e.kids[i], depth + 1)

(* v32_const_int()                                                         *)
RECURSIVE IsConstInt(_), ConstInt(_)
IsConstInt(e) == IsLit(e) \/ (e.kind = "neg" /\ IsConstInt(e.kids[1]))
ConstInt(e) == IF IsLit(e) THEN e.str ELSE -ConstInt(e.kids[1])

Neg(e) == Node("neg", 0, <<e>>)

(* v32_make_sar(): x appears three times.                                  *)
MakeSar(x, n) ==
  LET sign == Neg(Binop(">>", x, Lit(Bits - 1)))
  IN IF Cheap(x, 0) THEN Binop("^", Binop(">>", Binop("^", x, sign), n), sign)
     ELSE Node("sar", 0, <<x, n>>)

(* Mutant: any mask will do.                                               *)
MaskedOff_AnyMask(sh, mask) ==
  /\ IsLit(mask) /\ mask.str >= 0
  /\ sh.kind = "binop" /\ sh.str = ">>"
  /\ IsConstInt(sh.kids[2]) /\ ConstInt(sh.kids[2]) \in 1 .. Bits - 1

(* v32_mark_masked_shift(): what an arithmetic shift would fill in is      *)
(* masked off, so the shift, marked ">>>", may stay as it is.              *)
MaskedOff(sh, mask) ==
  /\ IsLit(mask) /\ mask.str >= 0
  /\ sh.kind = "binop" /\ sh.str = ">>"
  /\ IsConstInt(sh.kids[2]) /\ ConstInt(sh.kids[2]) \in 1 .. Bits - 1
  /\ mask.str \div 2 ^ (Bits - ConstInt(sh.kids[2])) = 0

MarkMasked(n) ==
  IF n.kind # "binop" \/ n.str # "&" THEN n
  ELSE [n EXCEPT !.kids = [i \in 1 .. 2 |-> IF MaskedOff(@[i], @[3 - i]) THEN [@[i] EXCEPT !.str = ">>>"] ELSE @[i]]]

(* A negative constant is written as the negation of a literal.            *)
Constant(v) == IF v < 0 THEN Neg(Lit(-v)) ELSE Lit(v)

(* v32_signed_shift()                                                      *)
SignedShift(n) ==
  LET x == n.kids[1]
      by == n.kids[2]
      zero == IsConstInt(by) /\ ConstInt(by) = 0
  IN IF n.str # ">>" \/ ExprUnsigned(x) THEN n
     ELSE IF n.kind = "opassign" THEN IF zero THEN n ELSE Assign(x, MakeSar(x, by))
     ELSE IF zero THEN x
     ELSE IF NonNeg(x) THEN n
     ELSE IF IsConstInt(x) /\ IsConstInt(by) /\ ConstInt(by) \in 1 .. Bits - 1 THEN Constant(Arithmetic(ConstInt(x), ConstInt(by)))
     ELSE MakeSar(x, by)

-----------------------------------------------------------------------------
(* Arrays and const values                                                 *)

IsArray(e) == e.kind = "ident" /\ e.str \in Arrays

(* v32_decay_array()                                                       *)
Decayed(e) == IF IsArray(e) THEN AddrOf(Index(e, Lit(0))) ELSE e

(* Mutant: subtraction is left out.                                        *)
OpDecays_NotMinus(op) == op \in {"+", "==", "<"}

(* v32_op_decays()                                                         *)
OpDecays(op) == op \in {"+", "-", "==", "<"}

(* -c and ~c stay as const as c is.                                        *)
RECURSIVE ReadsConst(_)
ReadsConst(e) ==
  \/ e.kind = "ident" /\ e.str \in Consts
  \/ e.kind \in {"neg", "compl"} /\ ReadsConst(e.kids[1])

(* v32_unconst_read()                                                      *)
Unconst(e) == IF ReadsConst(e) THEN Cast(IF ExprUnsigned(e) THEN "unsigned" ELSE "int", e) ELSE e

-----------------------------------------------------------------------------
(* The walk                                                                *)

(* v32_compat_expr() on a node whose operands are done.                    *)
CompatNode(n) ==
  CASE n.kind = "binop" /\ OpDecays(n.str) -> [n EXCEPT !.kids = [i \in 1 .. 2 |-> Decayed(@[i])]]
    [] n.kind \in {"deref", "cast"} -> [n EXCEPT !.kids[1] = Decayed(@)]
    [] n.kind = "assign" -> [n EXCEPT !.kids[2] = Unconst(@)]
    [] n.kind \in {"call", "dispatch"} -> [n EXCEPT !.kids = [i \in DOMAIN @ |-> Unconst(@[i])]]
    [] n.kind = "opassign" \/ (n.kind = "binop" /\ n.str = ">>") -> SignedShift(n)
    [] OTHER -> n

RECURSIVE CompatExpr(_)
CompatExpr(n) ==
  CompatNode([MarkMasked(n) EXCEPT !.kids = [i \in DOMAIN @ |-> CompatExpr(@[i])]])

RECURSIVE CompatStmt(_, _)

(* What becomes a block is gone through again.                             *)
CompatExprStmt(s, at) ==
  LET split == SplitCompound(s.kids[1], at)
  IN IF split.kind = "block" THEN CompatStmt(split, Append(at, 0)) ELSE ExprStmt(CompatExpr(s.kids[1]))

(* v32_compat_stmt()                                                       *)
CompatStmt(s, at) ==
  LET stmt(i) == CompatStmt(s.kids[i], Append(at, i))
      parts(statements) ==
        [s EXCEPT !.kids = [i \in DOMAIN @ |-> IF i \in statements THEN stmt(i) ELSE CompatExpr(@[i])]]
  IN CASE s.kind \in {"block", "label"} -> parts(DOMAIN s.kids)
       [] s.kind = "if"     -> parts({2, 3})
       [] s.kind \in {"while", "do"} -> parts({2})
       [] s.kind = "for"    -> parts({1, 4})
       [] s.kind = "switch" -> parts(DOMAIN s.kids \ {1})
       [] s.kind = "return" -> [s EXCEPT !.kids[1] = Unconst(CompatExpr(@))]
       [] s.kind = "expr"   -> CompatExprStmt(s, at)
       [] s.kind = "decl"   -> parts({})
       [] OTHER             -> s

(* v32_compat_in_method()                                                  *)
CompatBody(body) == CompatStmt(body, <<>>)

(* What the console's compiler refuses of this.                            *)
RECURSIVE Refused(_)
Refused(n) ==
  \/ n.kind = "binop" /\ \E i \in 1 .. 2 : IsArray(n.kids[i])
  \/ n.kind \in {"deref", "cast"} /\ IsArray(n.kids[1])
  \/ n.kind = "assign" /\ ReadsConst(n.kids[2])
  \/ n.kind = "return" /\ n.kids[1].kind # "none" /\ ReadsConst(n.kids[1])
  \/ n.kind \in {"call", "dispatch", "sar"} /\ \E i \in DOMAIN n.kids : ReadsConst(n.kids[i])
  \/ \E i \in DOMAIN n.kids : Refused(n.kids[i])
=============================================================================
