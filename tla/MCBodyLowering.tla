--------------------------- MODULE MCBodyLowering ---------------------------
(* Function bodies for TLC.  C++ fixes the order of evaluation within each  *)
(* expression of them.                                                      *)
EXTENDS BodyLowering

V == <<"v">>
W == <<"w">>
X == <<"x">>
U == <<"u">>
K == <<"k">>
P == <<"p">>
A == <<"a">>
E == <<"e">>

(* The object parameters O and N, a global object G and a local Y.  The     *)
(* caller passes G as O, and another object as N; it stores what is         *)
(* returned in G.                                                           *)
O == <<"o">>
N == <<"n">>
G == <<"g">>
Y == <<"y">>
Other == <<"other">>
MCObjects == {O, N, G, Y, Other}
MCObjectParams == {O, N}
MCStructResults == {"make", "add", "turn"}
Passing ==
  (G :> 6) @@ (Other :> 9) @@ (O :> 0) @@ (N :> 0) @@ (ByValuePointer(O) :> G) @@ (ByValuePointer(N) :> Other)
    @@ (RetPointer :> G)

(* Four words of memory, the array A of three of them, and pointers to it. *)
Memory == [k \in {<<"word", i>> : i \in 0 .. 3} |-> (k[2] + 1) % 3]
MCParams == (V :> 0) @@ (W :> 0) @@ (U :> -6) @@ (K :> -3) @@ (A :> 0) @@ (P :> 1) @@ (E :> 1) @@ Memory @@ Passing

MCUnsignedVars == {U}
MCArrays == {A}
MCConsts == {K}
MCExterns == {E}
MCLibrary == {"lib"}

Call(f)       == Node("call", f, <<>>)
With(f, e)    == Node("call", f, <<e>>)
Virtual(r, m, es) == Node("vcall", m, <<r>> \o es)
Ref(e)        == Node("ref", 0, <<e>>)
Tern(c, a, b) == Node("ternary", 0, <<c, a, b>>)
And(a, b)     == Node("and", 0, <<a, b>>)
Or(a, b)      == Node("or", 0, <<a, b>>)

(* The operators around e, with calls as their other operands.              *)
Around(e) ==
  LET p == Call("p") q == Call("q")
  IN {Tern(e, p, q), Tern(p, e, q), Tern(p, q, e), Comma(e, p), Comma(p, e),
      And(e, p), And(p, e), Or(e, p), Or(p, e), With("f", e), Assign(Ident(V), e)}

(* Every expression of up to three of them with one that is to go.          *)
One == Around(Call("r"))
Two == UNION {Around(e) : e \in One}
Three == UNION {Around(e) : e \in {e \in Two : HasTernary(e)}}
Conditional == {e \in One \cup Two \cup Three : HasTernary(e)}

(* The same as an argument of a virtual call, and bound to a reference; the *)
(* receiver is a variable.                                                  *)
Passed ==
  LET es == {e \in One \cup Two : HasTernary(e)}
  IN {Virtual(Ident(W), "m", <<e>>) : e \in es} \cup {With("f", Ref(e)) : e \in {e \in es : e.kind # "assign"}}
     \cup {And(Call("p"), With("f", Ref(Virtual(Ident(W), "m", <<Ref(Ident(V))>>))))}

Say(f) == ExprStmt(Call(f))
Continue == Node("continue", 0, <<>>)
For(i, c, n, s) == Node("for", 0, <<i, c, n, s>>)
SwitchOn(ss) == Node("switch", 0, ss)
Case(v) == Node("case", v, <<>>)
Default == Node("default", 0, <<>>)
Label(s) == Node("label", 0, <<s>>)

(* A loop body that may leave the pass or the loop.                         *)
Body == Block(<<If(Call("c"), Continue, None), If(Call("d"), Break, None), Say("e")>>)

(* The places of a statement for an expression.                             *)
Places(e) ==
  {ExprStmt(e), Return(e), Label(ExprStmt(e)), Store(V, e),
   Block(<<Declare(X, e), Return(Ident(X))>>),
   If(e, Say("t"), If(Call("c"), Return(e), Store(V, e))),
   If(Call("c"), ExprStmt(e), If(e, Say("t"), Say("u"))),
   While(e, Body), While(Call("c"), ExprStmt(e)),
   Do(Body, e), Do(While(e, Break), Call("c")),
   For(ExprStmt(e), Call("c"), Call("n"), Body), For(Declare(X, e), Ident(X), Call("n"), Break),
   For(None, e, None, Body), For(None, Call("c"), e, Body), For(None, None, e, Body),
   For(ExprStmt(e), e, e, Say("b")), For(None, Call("c"), Call("n"), ExprStmt(e)),
   SwitchOn(<<e, Case(0), Say("s"), Case(1), Say("t"), Break, Default, Say("u")>>),
   SwitchOn(<<Call("c"), Case(1), Store(V, e), ExprStmt(e), Break, Default, Do(Body, e), Say("u")>>)}

(* Virtual calls whose receiver is a call, where phase 3c looks for them:   *)
(* not to the right of a comma, nor in the receiver or an argument of       *)
(* another virtual call.                                                    *)
Chained ==
  LET calls == {Virtual(Call("p"), "m", es) : es \in {<<>>, <<Call("q")>>, <<Tern(Call("q"), Call("r"), Ident(V))>>,
                                                      <<Ref(Call("q"))>>, <<Ident(W), Call("q")>>}}
  IN UNION {{e, With("f", e), With("f", Ref(e)), Assign(Ident(V), e), Comma(e, Call("s"))} : e \in calls}

(* There: a statement directly in a block or in the body of a loop.         *)
Directly(e) ==
  {ExprStmt(e), Return(e), Store(V, e), Block(<<Declare(X, e), Return(Ident(X))>>),
   If(e, Say("t"), Block(<<ExprStmt(e)>>)), While(Call("c"), ExprStmt(e)),
   While(Call("c"), Block(<<If(e, Break, None), Store(V, e)>>)), For(None, None, Call("n"), If(e, Break, Continue)),
   Do(ExprStmt(e), Call("c")), Do(While(Call("c"), Block(<<Store(V, e), Break>>)), Call("d"))}

(* What the console's compiler would evaluate twice, wherever a statement   *)
(* can stand: targets that step a pointer or call something.                *)
Next1 == Step([post |-> TRUE, by |-> 1], Ident(P))
Back1 == Step([post |-> FALSE, by |-> -1], Ident(P))
Get == Call("get")
TargetsWritten ==
  {Deref(Next1), Deref(Back1), Index(Ident(A), Next1), Index(Ident(A), Call("q")), Index(Ident(A), Call("lib")),
   Deref(Get), Member(Get, 1), Index(Member(Get, 1), Lit(0)), Member(Deref(Next1), 1), Deref(Index(Get, Next1)),
   Deref([Next1 EXCEPT !.kids[1] = Ident(E)]), Member([Back1 EXCEPT !.kids[1] = Ident(E)], 1)}
Written ==
  UNION {{OpAssign("+", t, Lit(1)), OpAssign("+", t, Tern(Ident(V), Lit(1), Lit(2))), OpAssign(">>", t, Lit(1)),
          Assign(t, Lit(-5)), Step([post |-> FALSE, by |-> 1], t)} : t \in TargetsWritten}

Anywhere(s) ==
  {s, If(Call("c"), s, None), Label(s), SwitchOn(<<Call("c"), Case(1), s, Break, Default, s>>),
   While(Call("c"), s), For(s, Call("c"), Call("n"), s), Do(Block(<<s>>), Call("c"))}

(* What it would refuse.                                                    *)
Strict ==
  LET k == Ident(K) a == Ident(A)
  IN {k, Neg(k), With("f", Neg(k)), Assign(Ident(V), k), Tern(Call("p"), k, Neg(k)), Comma(Call("p"), k),
      Deref(a), Cast("int", a), Binop("-", Ident(P), a), Binop("==", a, Ident(P)),
      Deref(Binop("+", a, Call("p"))), Tern(Deref(Binop("+", a, Call("p"))), Cast("int", a), Call("q"))}

(* Every word shifted by every count, and masked by every mask.             *)
Shift(x, n) == Binop(">>", x, Lit(n))
Words == -(2 ^ (Bits - 1)) .. 2 ^ (Bits - 1) - 1
Shifted(n) ==
  LET v == Ident(V) u == Ident(U) masks == {Lit(m) : m \in 0 .. 2 ^ (Bits - 1) - 1}
  IN {Shift(v, n), Shift(u, n), Shift(Neg(v), n), Shift(Binop("+", v, u), n), Shift(Binop("+", v, Lit(3)), n),
      Shift(Cast("unsigned", v), n), Shift(Shift(v, n), 1), OpAssign(">>", v, Lit(n)), OpAssign(">>", u, Lit(n))}
       \cup UNION {{Binop("&", Shift(v, n), m), Binop("&", m, Shift(v, n)), Shift(Binop("&", v, m), n)} : m \in masks}

(* Objects of two words, as values, and what reads one.                    *)
Make == Call("make")
Sum2(e) == With("sum", e)
Passed1 ==
  {Ident(O), Make, With("add", Ident(O)), With("add", Make), Tern(Call("p"), Make, Ident(N)),
   Tern(Call("p"), Ident(O), With("add", Make)), Comma(Call("p"), Make), Virtual(Ident(W), "turn", <<Ident(O)>>)}
Objects2 == Passed1 \cup {With("add", e) : e \in Passed1} \cup {Assign(Ident(G), Make)}
Read2 ==
  {Binop("+", Sum2(e), Lit(1)) : e \in Passed1} \cup {Field(e, 1) : e \in Objects2}
    \cup {And(Call("p"), Sum2(With("add", Make))), Tern(Call("p"), Sum2(Make), Field(Call("one"), 0)),
          Neg(With("f", Ref(Field(Make, 0)))), Neg(Virtual(Ident(W), "m", <<Ident(N)>>))}

(* The places of a statement for an object.                                *)
Objective(e) ==
  LET last == Return(Ident(G))
  IN {Block(<<ExprStmt(e), last>>), Block(<<Return(e)>>), Block(<<Store(G, e), Return(Ident(O))>>),
      Block(<<Store(O, e), last>>), Block(<<Declare(Y, e), Store(O, Ident(Y)), Return(Ident(Y))>>),
      Block(<<ExprStmt(Assign(Field(Ident(O), 0), Lit(3))), If(Call("c"), Return(e), Store(O, e)), Return(Ident(O))>>),
      Block(<<While(Call("c"), Store(O, e)), Return(Ident(O))>>),
      Block(<<For(Declare(Y, e), Call("c"), Assign(Ident(O), e), Store(G, Ident(Y))), Label(Return(e))>>),
      Block(<<SwitchOn(<<Call("c"), Case(1), Store(O, e), Break, Default, Return(e)>>), Return(Ident(O))>>),
      Block(<<Do(Block(<<Declare(Y, e), If(Sum2(Ident(Y)), Break, None)>>), Call("c")), Return(Ident(N))>>)}

Bodies(statements) == {Block(<<s, Return(Ident(V))>>) : s \in statements}

Shifts ==
  {Block(<<Store(V, Constant(k)), Store(U, Constant(k)), Return(e)>>) : k \in Words, e \in UNION {Shifted(n) : n \in 0 .. Bits - 1}}
    \cup {Block(<<Return(Shift(Constant(k), n))>>) : k \in Words, n \in 0 .. Bits - 1}

MCFamilies ==
  {Bodies(Places(e)) : e \in Conditional \cup Passed \cup Strict}
    \cup {Bodies(Directly(e)) : e \in Chained}
    \cup {Bodies(Anywhere(ExprStmt(e))) : e \in Written}
    \cup {Objective(e) : e \in Objects2}
    \cup {Bodies(Places(e)) : e \in Read2}
    \cup {Shifts}

(* C++'s `c ? v : w` is v or w itself: it can be stored into.               *)
LvalueFamilies == {Bodies({ExprStmt(Assign(Tern(Ident(V), Ident(V), Ident(W)), Call("q")))})}

(* r()->m()->n()                                                            *)
ChainFamilies == {Bodies({ExprStmt(Virtual(Virtual(Call("r"), "m", <<>>), "n", <<>>))})}

(* int n = sum(o); and return sum(make());                                  *)
ByValueFamilies == {Bodies({Declare(X, Sum2(Ident(O))), Return(Sum2(Make))})}
=============================================================================
