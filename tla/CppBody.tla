------------------------------ MODULE CppBody ------------------------------
(***************************************************************************)
(* Function bodies and what it means to run them: the common ground of the *)
(* models of lower.c's phases.  A body is a tree of nodes                  *)
(* [kind, str, kids], as AstNode is: the slots a, b, c, d of a node and    *)
(* the items of its list are its kids, in that order.                      *)
(*                                                                         *)
(* A body is run on a list of answers, one for each call it makes, and is  *)
(* a C++ body as well as the C one that comes out of a phase: the two      *)
(* languages agree on everything here but "vcall" and "ref", which C does  *)
(* not have, and "dispatch", which the phases make of "vcall".  The C of   *)
(* the console's own compiler differs from both in what it evaluates twice *)
(* and in its right shift.                                                 *)
(***************************************************************************)
EXTENDS Integers, Sequences, SequencesExt
LOCAL INSTANCE Bitwise

CONSTANTS
  Bits,         \* of a word: 32 on the console
  UnsignedVars, \* the variables that are declared unsigned
  StructResults \* the functions that return an object of more than one word

(* Names are sequences; the temporaries of a phase are named for the place *)
(* that needed them, as the phases' counters name each differently.        *)
Node(kind, str, kids) == [kind |-> kind, str |-> str, kids |-> kids]

None == Node("none", 0, <<>>)

Lit(v)    == Node("int", v, <<>>)
Ident(v)  == Node("ident", v, <<>>)
Block(ss) == Node("block", 0, ss)
If(c, t, e)    == Node("if", 0, <<c, t, e>>)
While(c, body) == Node("while", 0, <<c, body>>)
Do(body, c)    == Node("do", 0, <<c, body>>)
Break     == Node("break", 0, <<>>)
ExprStmt(e) == Node("expr", 0, <<e>>)
Assign(l, r) == Node("assign", 0, <<l, r>>)
Return(e) == Node("return", 0, <<e>>)
Store(v, e) == ExprStmt(Assign(Ident(v), e))
Declare(v, init) == Node("decl", v, <<init>>)
Binop(op, a, b)    == Node("binop", op, <<a, b>>)
OpAssign(op, l, r) == Node("opassign", op, <<l, r>>)
Step(how, l)  == Node("step", how, <<l>>)  \* how: [post, by]
Deref(e)      == Node("deref", 0, <<e>>)
Index(a, i)   == Node("index", 0, <<a, i>>)
Member(p, k)  == Node("member", k, <<p>>)  \* p->m, k words into *p
AddrOf(l)     == Node("addrof", 0, <<l>>)
Cast(type, e) == Node("cast", type, <<e>>)
AsBlock(s) == IF s.kind = "block" THEN s
              ELSE IF s = None THEN Block(<<>>) ELSE Block(<<s>>)

-----------------------------------------------------------------------------
(* How C++ runs a body (C runs what comes out the same way).  A run is     *)
(* over when its status is no longer "go"; a call without an answer waits. *)
(* The words of memory are variables, named by their addresses.            *)

Indeterminate == -1

(* A loop whose passes call nothing more would spin: it is given up.       *)
Start(params, answers, console) ==
  [vars |-> params, in |-> answers, val |-> 0, vals |-> <<>>, at |-> <<>>, member |-> -1, console |-> console,
   trace |-> <<>>, status |-> "go", passes |-> 2 * Len(answers) + 4]

Stop(s, status) == [s EXCEPT !.status = status]

Write(s, v, val) ==
  IF s.status # "go" THEN s
  ELSE [s EXCEPT !.vars = [w \in DOMAIN s.vars \cup {v} |-> IF w = v THEN val ELSE s.vars[w]]]

Read(s, v) ==
  IF v \in DOMAIN s.vars THEN [s EXCEPT !.val = s.vars[v]] ELSE Stop(s, "undefined")

Put(s, v, val) == IF v \in DOMAIN s.vars THEN Write(s, v, val) ELSE Stop(s, "undefined")

(* An object of two words, in one value; what a function answers as one.   *)
FieldOf(x, k) == (x \div 4 ^ k) % 4
WithField(x, k, y) == x + (y - FieldOf(x, k)) * 4 ^ k
ObjectOf(answer) == WithField(answer, 1, 1 - answer)

(* f is called with vals.                                                  *)
CallWith(f, s) ==
  LET t == [s EXCEPT !.trace = Append(@, <<f, s.vals>>)]
  IN IF s.status # "go" THEN s
     ELSE IF s.in = <<>> THEN Stop(t, "wait")
     ELSE [t EXCEPT !.val = IF f \in StructResults THEN ObjectOf(Head(s.in)) ELSE Head(s.in), !.in = Tail(s.in)]

(* The hidden parameter of a function that returns an object.              *)
RetPointer == <<"v32_ret">>

(* An argument that is the address of an object.                           *)
IsAddress(e) == e.kind = "addrof" \/ (e.kind = "ident" /\ e.str = RetPointer)

(* Once it is under way, a function copies the objects whose addresses it  *)
(* was given, but for the first one if it is where its result goes, which  *)
(* it writes when it returns.  s is after the evaluation of its arguments. *)
CopiedIn(s, addresses) ==
  [i \in DOMAIN s.vals |-> IF i \in addresses THEN Read(s, s.vals[i]).val ELSE s.vals[i]]

ReturnedTo(place, s) == Put(s, place, s.val)

CallByAddress(e, s) ==
  LET addresses == {i \in DOMAIN e.kids : IsAddress(e.kids[i])}
      dest == CHOOSE i \in addresses : \A j \in addresses : i <= j
      returns == addresses # {} /\ e.str \in StructResults
      called(vals) == CallWith(e.str, [s EXCEPT !.vals = vals])
  IN CASE s.status # "go" -> s
       [] s.status = "go" /\ ~returns -> called(CopiedIn(s, addresses))
       [] s.status = "go" /\ returns -> ReturnedTo(s.vals[dest], called(RemoveAt(CopiedIn(s, addresses), dest)))

(* A virtual call uses its receiver twice, once to find the method and     *)
(* once as its `this`: a dispatch writes it out twice.                     *)
ThisTwice(s) ==
  IF s.status # "go" THEN s ELSE [s EXCEPT !.vals = <<Head(@)>> \o @]

Truth(s) == [s EXCEPT !.val = IF @ = 0 THEN 0 ELSE 1]

(* Words: two's complement, Bits wide.                                     *)
Wrap(x)   == ((x + 2 ^ (Bits - 1)) % 2 ^ Bits) - 2 ^ (Bits - 1)
Word(x)   == x % 2 ^ Bits
Sum(x, y) == Wrap(x + y)
XorWord(x, y) == Wrap(Word(x) ^^ Word(y))
Logical(x, n) == Wrap(Word(x) \div 2 ^ n)
Arithmetic(x, n) == x \div 2 ^ n
Bool(p) == IF p THEN 1 ELSE 0

Op(op, x, y, logical) ==
  CASE op = "+"  -> Sum(x, y)
    [] op = "-"  -> Sum(x, -y)
    [] op = "^"  -> XorWord(x, y)
    [] op = "&"  -> Wrap(Word(x) & Word(y))
    [] op = "==" -> Bool(x = y)
    [] op = "<"  -> Bool(x < y)
    [] op \in {">>", ">>>"} -> IF logical THEN Logical(x, y) ELSE Arithmetic(x, y)

(* C++'s conversions of the operands of an operator.                       *)
RECURSIVE Unsigned(_)
Unsigned(e) ==
  \/ e.kind = "ident" /\ e.str \in UnsignedVars
  \/ e.kind = "cast" /\ e.str = "unsigned"
  \/ e.kind \in {"neg", "compl", "step", "assign", "opassign"} /\ Unsigned(e.kids[1])
  \/ e.kind = "binop" /\ e.str = ">>" /\ Unsigned(e.kids[1])
  \/ e.kind = "binop" /\ e.str \in {"+", "-", "^", "&"} /\ \E i \in 1 .. 2 : Unsigned(e.kids[i])

(* The console shifts right logically, whatever it shifts; the function    *)
(* __v32_sar() is the code that v32_add_sar_helper() adds to a program.    *)
Sar(x, n) ==
  LET s == 0 - Logical(x, Bits - 1) IN XorWord(Logical(XorWord(x, s), n), s)

RECURSIVE HasCall(_)
HasCall(e) == e.kind \in {"call", "dispatch"} \/ \E i \in DOMAIN e.kids : HasCall(e.kids[i])

(* The address of a word of memory is a number.                            *)
AddressOf(place) == IF Head(place) = "word" THEN place[2] ELSE place

RECURSIVE Eval(_, _), EvalList(_, _, _), Place(_, _), Exec(_, _), ExecList(_, _), Pass(_, _, _),
          Statement(_, _, _), AfterTest(_, _), AfterBody(_, _)

(* What is written to: the console runs a call that gives the pointer to   *)
(* write through once more.                                                *)
Target(e, s) ==
  IF s.console /\ e.kind \in {"deref", "member"} /\ HasCall(e.kids[1])
    THEN Place(e, Eval(e.kids[1], s))
    ELSE Place(e, s)

(* A member of an object is read and stored with the object.               *)
Part(s, k) == IF k < 0 THEN s ELSE [s EXCEPT !.val = FieldOf(@, k)]

Found(t) == IF t.status # "go" THEN t ELSE Part(Read(t, t.at), t.member)

Stored(t, val) ==
  IF t.status # "go" THEN t
  ELSE Put([t EXCEPT !.val = val, !.member = -1], t.at,
           IF t.member < 0 THEN val ELSE WithField(t.vars[t.at], t.member, val))

(* The value of e, left in val.                                            *)
Eval(e, s) ==
  LET first == Eval(e.kids[1], s)
  IN IF s.status # "go" THEN s
     ELSE CASE e.kind = "int"     -> [s EXCEPT !.val = e.str]
            [] e.kind = "ident"   -> Read(s, e.str)
            [] e.kind = "addr"    -> Read(s, e.str)
            [] e.kind = "ref"     -> first
            [] e.kind \in {"call", "dispatch"} -> CallByAddress(e, EvalList(e.kids, s, <<>>))
            [] e.kind = "vcall"   -> CallWith(e.str, ThisTwice(EvalList(e.kids, s, <<>>)))
            [] e.kind = "comma"   -> Eval(e.kids[2], first)
            [] e.kind = "ternary" -> Eval(e.kids[IF first.val # 0 THEN 2 ELSE 3], first)
            [] e.kind = "and"     -> Truth(IF first.val = 0 THEN first ELSE Eval(e.kids[2], first))
            [] e.kind = "or"      -> Truth(IF first.val # 0 THEN first ELSE Eval(e.kids[2], first))
            [] e.kind = "binop"   ->
                 LET second == Eval(e.kids[2], first)
                 IN IF second.status # "go" THEN second
                    ELSE [second EXCEPT !.val =
                            Op(e.str, first.val, second.val, s.console \/ Unsigned(e.kids[1]))]
            [] e.kind = "neg"     -> [first EXCEPT !.val = Sum(0, -@)]
            [] e.kind = "compl"   -> [first EXCEPT !.val = -@ - 1]
            [] e.kind = "cast"    -> first
            [] e.kind = "sar"     ->
                 LET t == EvalList(e.kids, s, <<>>)
                 IN IF t.status = "go" THEN [t EXCEPT !.val = Sar(t.vals[1], t.vals[2])] ELSE t
            [] e.kind = "field"   -> [first EXCEPT !.val = FieldOf(@, e.str)]
            [] e.kind \in {"deref", "index", "member", "object"} -> Found(Place(e, s))
            [] e.kind = "addrof"  ->
                 LET t == Place(e.kids[1], s) IN IF t.status = "go" THEN [t EXCEPT !.val = AddressOf(t.at)] ELSE t
            [] e.kind = "assign"  ->
                 LET right == Eval(e.kids[2], s) IN Stored(Target(e.kids[1], right), right.val)
            [] e.kind = "step"    ->
                 LET old == Found(Target(e.kids[1], s))
                     new == Stored(old, Sum(old.val, e.str.by))
                 IN IF e.str.post THEN [new EXCEPT !.val = old.val] ELSE new
            [] e.kind = "opassign" /\ s.console ->
                 LET new == Eval(Binop(e.str, e.kids[1], e.kids[2]), s)
                 IN Stored(Target(e.kids[1], new), new.val)
            [] e.kind = "opassign" /\ ~s.console ->
                 LET right == Eval(e.kids[2], s)
                     old == Found(Place(e.kids[1], right))
                 IN Stored(old, Op(e.str, old.val, right.val, Unsigned(e.kids[1])))

(* The values of es, left in vals.                                         *)
EvalList(es, s, vals) ==
  IF es = <<>> \/ s.status # "go" THEN [s EXCEPT !.vals = vals, !.val = 0]
  ELSE LET t == Eval(Head(es), s) IN EvalList(Tail(es), t, Append(vals, t.val))

(* The variable or word that e denotes, left in at.                        *)
Place(e, s) ==
  LET first == Eval(e.kids[1], s)
      word(t, a) == IF t.status = "go" THEN [t EXCEPT !.at = <<"word", a>>] ELSE t
  IN IF s.status # "go" THEN s
     ELSE CASE e.kind = "ident"   -> [s EXCEPT !.at = e.str]
            [] e.kind = "deref"   -> word(first, first.val)
            [] e.kind = "member"  -> word(first, first.val + e.str)
            [] e.kind = "index"   -> LET i == Eval(e.kids[2], first) IN word(i, first.val + i.val)
            [] e.kind = "object"  -> IF first.status = "go" THEN [first EXCEPT !.at = first.val] ELSE first
            [] e.kind = "field"   -> [Place(e.kids[1], s) EXCEPT !.member = e.str]
            [] e.kind = "comma"   -> Place(e.kids[2], first)
            [] e.kind = "ternary" -> Place(e.kids[IF first.val # 0 THEN 2 ELSE 3], first)

(* What is declared in a block goes with it.                               *)
Leave(s, outer) == [s EXCEPT !.vars = [v \in DOMAIN outer.vars |-> s.vars[v]]]

ExecList(ss, s) == IF ss = <<>> THEN s ELSE ExecList(Tail(ss), Exec(Head(ss), s))

(* One pass of a loop and those after it; `do` has its test after the body. *)
Tested(loop, s) == IF loop.test = None THEN [s EXCEPT !.val = 1] ELSE Eval(loop.test, s)
Advance(loop, s) == IF loop.incr = None THEN s ELSE Eval(loop.incr, s)

Pass(loop, step, s) == AfterTest(loop, IF step = "body" THEN [s EXCEPT !.val = 1] ELSE Tested(loop, s))

AfterTest(loop, s) ==
  CASE s.status # "go" \/ s.val = 0  -> s
    [] s.status = "go" /\ s.val # 0 ->
         IF s.passes = 0 THEN Stop(s, "spins") ELSE AfterBody(loop, Exec(loop.body, [s EXCEPT !.passes = @ - 1]))

AfterBody(loop, s) ==
  IF s.status = "break" THEN Stop(s, "go")
  ELSE Pass(loop, "test", Advance(loop, [s EXCEPT !.status = IF @ = "continue" THEN "go" ELSE @]))

Loop(test, incr, body) == [test |-> test, incr |-> incr, body |-> body]

Switch(s, t) ==
  LET here(k) == t.kids[k].kind = "case" /\ t.kids[k].str = s.val
      else(k) == t.kids[k].kind = "default"
      at == IF \E k \in 2 .. Len(t.kids) : here(k) THEN CHOOSE k \in 2 .. Len(t.kids) : here(k)
            ELSE IF \E k \in 2 .. Len(t.kids) : else(k) THEN CHOOSE k \in 2 .. Len(t.kids) : else(k)
            ELSE Len(t.kids)
      end == ExecList(SubSeq(t.kids, at + 1, Len(t.kids)), s)
  IN Leave([end EXCEPT !.status = IF @ = "break" THEN "go" ELSE @], s)

(* first: after the first kid of n, if that is an expression.              *)
Exec(n, s) == IF s.status # "go" THEN s ELSE Statement(n, s, Eval(n.kids[1], s))

Statement(n, s, first) ==
  CASE n.kind = "block"  -> Leave(ExecList(n.kids, s), s)
    [] n.kind = "decl"   -> IF n.kids[1] = None THEN Write(s, n.str, Indeterminate)
                            ELSE Write(first, n.str, first.val)
    [] n.kind = "expr"   -> first
    [] n.kind = "return" /\ n.kids[1] = None -> Stop(s, "return")
    [] n.kind = "return" /\ n.kids[1] # None -> IF first.status = "go" THEN Stop(first, "return") ELSE first
    [] n.kind = "if"     -> IF first.val # 0 THEN Exec(n.kids[2], first)
                            ELSE IF n.kids[3] = None THEN first ELSE Exec(n.kids[3], first)
    [] n.kind = "while"  -> Pass(Loop(n.kids[1], None, n.kids[2]), "test", s)
    [] n.kind = "do"     -> Pass(Loop(n.kids[1], None, n.kids[2]), "body", s)
    [] n.kind = "for"    ->
         Leave(Pass(Loop(n.kids[2], n.kids[3], n.kids[4]), "test",
                    IF n.kids[1] = None THEN s ELSE Exec(n.kids[1], s)), s)
    [] n.kind = "switch" -> IF first.status = "go" THEN Switch(first, n) ELSE first
    [] n.kind = "label"  -> Exec(n.kids[1], s)
    [] n.kind \in {"break", "continue"} -> Stop(s, n.kind)
    [] n.kind \in {"case", "default"} -> s
=============================================================================
