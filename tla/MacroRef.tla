------------------------------ MODULE MacroRef ------------------------------
(***************************************************************************)
(* What the language says of the same two algorithms, for comparison.      *)
(*                                                                         *)
(* Expansion as the C and C++ standards describe it: every token carries   *)
(* the set of macros it may no longer be replaced by, arguments are        *)
(* expanded on their own, and `#` and `##` act before the result is        *)
(* scanned again, an empty operand of `##` standing for a placemarker.     *)
(* Conditions by the precedence table: an expression is what its loosest   *)
(* operator makes of its two sides.                                        *)
(***************************************************************************)
EXTENDS Macro

Marked(text, hide) == [i \in DOMAIN text |-> [t |-> text[i], hide |-> hide]]
Plain(text) == [i \in DOMAIN text |-> text[i].t]
Refused == [t |-> <<"refused">>, hide |-> {}]       \* a call with a wrong number of arguments
PlaceMarker == [t |-> <<>>, hide |-> {}]

(* The text without its newlines and comments and without annotations.     *)
RECURSIVE CodeOnly(_, _)
CodeOnly(text, comment) ==
    IF text = <<>> THEN <<>>
    ELSE IF comment THEN CodeOnly(Tail(text), Head(text) # Closes)
    ELSE IF Head(text) \in {NewLine, Opens} THEN CodeOnly(Tail(text), Head(text) = Opens)
    ELSE <<Literal(Head(text))>> \o CodeOnly(Tail(text), FALSE)

(* The places of the call's own commas and closing parenthesis, the text   *)
(* starting at its opening one; <<>> when it is not closed.                *)
Nesting(ts, i) == Cardinality({j \in 1..(i - 1) : ts[j].t = Paren})
                    - Cardinality({j \in 1..(i - 1) : ts[j].t = Close})
CallEnd(ts) ==
    SelectInSeq([i \in DOMAIN ts |-> i], LAMBDA i : ts[i].t = Close /\ Nesting(ts, i) = 1)
CallArgs(m, ts) ==
    LET end == CallEnd(ts)
        commas == SelectSeq([i \in 1..end |-> i],
                            LAMBDA i : ts[i].t = Comma /\ Nesting(ts, i) = 1)
        own  == IF m.variadic THEN SubSeq(commas, 1, IF Len(commas) < Len(m.params)
                                                     THEN Len(commas) ELSE Len(m.params))
                ELSE commas
        cuts == <<1>> \o own \o <<end>>
    IN  [k \in 1..(Len(cuts) - 1) |-> SubSeq(ts, cuts[k] + 1, cuts[k + 1] - 1)]

(* The body with its operands in place, from body token k on: a string, an *)
(* argument as it was given, an argument expanded, or the token itself.    *)
ArgOf(args, p) == IF p \in DOMAIN args THEN args[p] ELSE <<>>
IsQuote(m, k) == m.fn /\ m.body[k] = Hash
AfterPiece(m, k) == IF IsQuote(m, k) THEN k + 2 ELSE k + 1
ByPaste(m, k) == (k > 1 /\ m.body[k - 1] = Paste) \/ (k < Len(m.body) /\ m.body[k + 1] = Paste)
OrPlaceMarker(text) == IF text = <<>> THEN <<PlaceMarker>> ELSE text
Piece(m, args, alone, k) ==
    IF IsQuote(m, k)
    THEN Marked(<<Stringized(Plain(ArgOf(args, ParamIndex(m, m.body[k + 1]))))>>, {})
    ELSE IF ~m.fn \/ ParamIndex(m, m.body[k]) = 0 THEN Marked(<<m.body[k]>>, {})
    ELSE IF ByPaste(m, k) THEN OrPlaceMarker(ArgOf(args, ParamIndex(m, m.body[k])))
    ELSE alone[ParamIndex(m, m.body[k])]

(* Two pieces around a `##`: their nearest tokens become one, except that  *)
(* `, ## __VA_ARGS__` is its two sides, or nothing without arguments.      *)
Glued(l, r) ==
    Front(l) \o <<[t |-> Last(l).t \o Head(r).t, hide |-> Last(l).hide \cap Head(r).hide]>> \o Tail(r)
CommaBefore(l, r) == IF r = <<PlaceMarker>> THEN Front(l) ELSE l \o r
Pasted(m, k, out, piece) ==
    IF out # <<>> /\ Last(out).t = Comma /\ m.variadic /\ m.body[k] = VaArgs
    THEN CommaBefore(out, piece) ELSE Glued(out, piece)

RECURSIVE Assembled(_, _, _, _, _)
Assembled(m, args, alone, k, out) ==
    IF k > Len(m.body) THEN SelectSeq(out, LAMBDA x : x # PlaceMarker)
    ELSE IF m.body[k] = Paste
    THEN Assembled(m, args, alone, AfterPiece(m, k + 1),
                   Pasted(m, k + 1, out, Piece(m, args, alone, k + 1)))
    ELSE Assembled(m, args, alone, AfterPiece(m, k), out \o Piece(m, args, alone, k))

Hiding(text, hide) == [i \in DOMAIN text |-> [text[i] EXCEPT !.hide = @ \cup hide]]

RECURSIVE RefExpand(_, _)
RECURSIVE RefCall(_, _, _, _, _)
RefCall(defs, m, args, hide, rest) ==
    LET alone == [k \in 1..(Len(m.params) + 1) |-> RefExpand(defs, ArgOf(args, k))]
        own   == IF m.params = <<>> /\ ~m.variadic THEN <<>> ELSE args
    IN  IF m.fn /\ ~ArityOk(m, args) THEN <<Refused>>
        ELSE RefExpand(defs, Hiding(Assembled(m, own, alone, 1, <<>>), hide) \o rest)
RefExpand(defs, ts) ==
    LET h == Head(ts)
        m == defs[h.t]
        rest == Tail(ts)
        end == CallEnd(rest)
    IN  IF ts = <<>> THEN <<>>
        ELSE IF \/ h.t \notin DOMAIN defs \/ h.t \in h.hide
                \/ m.fn /\ (rest = <<>> \/ Head(rest).t # Paren \/ end = 0)
        THEN <<h>> \o RefExpand(defs, rest)
        ELSE IF m.fn
        THEN RefCall(defs, m, CallArgs(m, rest), {h.t} \cup (h.hide \cap rest[end].hide),
                     SubSeq(rest, end + 1, Len(rest)))
        ELSE RefCall(defs, m, <<>>, {h.t} \cup h.hide, rest)

(* The text a run of code lines stands for.                                *)
Expansion(defs, text) == Plain(RefExpand(defs, Marked(text, {})))
-----------------------------------------------------------------------------
(* Operators from the loosest binding to the tightest; all of them group   *)
(* from the left.                                                          *)
Precedence(op) ==
    CASE op = "||" -> 1 [] op = "&&" -> 2 [] op = "|" -> 3 [] op = "^" -> 4 [] op = "&" -> 5
      [] op \in {"==", "!="} -> 6 [] op \in {"<", ">", "<=", ">="} -> 7
      [] op \in {"<<", ">>"} -> 8 [] op \in {"+", "-"} -> 9 [] op \in {"*", "/", "%"} -> 10
      [] OTHER -> 0

(* An operator outside parentheses that has an operand on its left.        *)
Outside(s, i) == Nesting(Marked(s, {}), i) = 0
IsBinary(s, i) == /\ i > 1 /\ Precedence(s[i][1]) # 0 /\ Outside(s, i)
                  /\ s[i - 1] = Close \/ IsNumber(s[i - 1]) \/ IsIdent(s[i - 1])

(* The last of the loosest operators; the first `?`, with its `:`.         *)
Operators(s) == {i \in DOMAIN s : IsBinary(s, i)}
Loosest(s, ops) ==
    CHOOSE x \in ops : \A y \in ops :
        \/ Precedence(s[x][1]) < Precedence(s[y][1])
        \/ Precedence(s[x][1]) = Precedence(s[y][1]) /\ x >= y
Marks(s, mark) == {x \in DOMAIN s : s[x] = <<mark>> /\ Outside(s, x)}
First(places) == CHOOSE x \in places : \A y \in places : x <= y
ColonFor(s, q) ==
    First({c \in Marks(s, ":") :
              /\ c > q
              /\ Cardinality({x \in Marks(s, "?") : x \in (q + 1)..c})
                   = Cardinality({x \in Marks(s, ":") : x \in (q + 1)..(c - 1)})})

(* The value C gives the expression; <<>> where it has none.               *)
Applied(op, l, r) ==
    IF l = <<>> THEN <<>>
    ELSE IF ~RightLives(op, l[1]) THEN <<Bool(l[1] # 0)>>
    ELSE IF r = <<>> \/ (op \in {"/", "%"} /\ r[1] = 0) THEN <<>>
    ELSE <<Binary(op, l[1], r[1])>>
Chosen(c, a, b) == IF c = <<>> THEN <<>> ELSE IF c[1] # 0 THEN a ELSE b
Prefixed(op, v) == IF op \notin {"!", "~", "-", "+"} \/ v = <<>> THEN <<>> ELSE <<Unary(op, v[1])>>
Operand(t) ==
    IF IsNumber(t) THEN <<NumberValue(t)>>
    ELSE IF IsIdent(t) THEN <<Bool(t = <<"true">>)>> ELSE <<>>

RECURSIVE RefValue(_)
RECURSIVE RefChoice(_, _, _)
RECURSIVE RefApplied(_, _)
RefChoice(s, q, c) ==
    Chosen(RefValue(SubSeq(s, 1, q - 1)), RefValue(SubSeq(s, q + 1, c - 1)),
           RefValue(SubSeq(s, c + 1, Len(s))))
RefApplied(s, i) ==
    Applied(s[i][1], RefValue(SubSeq(s, 1, i - 1)), RefValue(SubSeq(s, i + 1, Len(s))))
RefValue(s) ==
    IF s = <<>> THEN <<>>
    ELSE IF Marks(s, "?") # {}
    THEN RefChoice(s, First(Marks(s, "?")), ColonFor(s, First(Marks(s, "?"))))
    ELSE IF Operators(s) # {} THEN RefApplied(s, Loosest(s, Operators(s)))
    ELSE IF Len(s) = 1 THEN Operand(s[1])
    ELSE IF Head(s) # Paren THEN Prefixed(Head(s)[1], RefValue(Tail(s)))
    ELSE IF Last(s) = Close THEN RefValue(SubSeq(s, 2, Len(s) - 1)) ELSE <<>>

(* `defined` is answered before macros are replaced.                       *)
RefCondition(defs, expr) ==
    LET Value(resolved) ==
            IF resolved.error THEN <<>> ELSE RefValue(Expansion(defs, resolved.text))
    IN  Value(ResolveDefined(defs, expr))
=============================================================================
