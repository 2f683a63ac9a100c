------------------------------- MODULE Macro -------------------------------
(***************************************************************************)
(* macro.c: the macro table and the expander of the include pre-scan.      *)
(*                                                                         *)
(* A token is the sequence of the spellings it was made of, so that `##`   *)
(* and the pasting of a literal are concatenation: `a ## b` is <<"a","b">>.*)
(* A text is a sequence of tokens, newlines and the two ends of a block    *)
(* comment being tokens; blanks, and the blanks the code adds so that two  *)
(* tokens do not run together, are not represented.  The code's `@N@5`,    *)
(* the literal 5 remembering that N stood there, is <<"@", "N", "@", "5">>.*)
(***************************************************************************)
EXTENDS Integers, Sequences, FiniteSets, SequencesExt, Bitwise

CONSTANTS
    IdentStart,     \* the spellings an identifier can begin with
    Digits,         \* the spellings a number can begin with
    MaxMacroDepth,  \* V32CXX_MAX_MACRO_DEPTH
    MaxSplices,     \* the code's 100000: replacements in one text
    DigitValue      \* the value of each digit's spelling

ASSUME BoundsAreNumbers == MaxMacroDepth \in Nat /\ MaxSplices \in Nat

NewLine == <<"newline">>
Opens   == <<"/*">>
Closes  == <<"*/">>
Paren   == <<"(">>
Close   == <<")">>
Comma   == <<",">>
Hash    == <<"#">>
Paste   == <<"##">>
VaArgs  == <<"__VA_ARGS__">>

IsIdent(t)  == t[1] \in IdentStart
IsNumber(t) == t[1] \in Digits
IsNamed(t)  == t[1] = "@"
NameEnd(t)  == CHOOSE i \in 2..Len(t) : t[i] = "@"
NameOf(t)   == SubSeq(t, 2, NameEnd(t) - 1)
Literal(t)  == IF IsNamed(t) THEN SubSeq(t, NameEnd(t) + 1, Len(t)) ELSE t
LastOr(s, t) == IF s = <<>> THEN t ELSE Last(s)
-----------------------------------------------------------------------------
(* The table.  `defs` maps the names that are defined to their macros,     *)
(* `unstable` holds the names whose meaning changed during the run.        *)

Builtin(body) ==
    [fn |-> FALSE, params |-> <<>>, variadic |-> FALSE, body |-> body, builtin |-> TRUE]
V32CXX == <<"__V32CXX__">>
Null   == <<"NULL">>

EmptyTable ==
    [defs |-> [n \in {V32CXX, Null} |-> Builtin(IF n = Null THEN <<Null>> ELSE <<<<"1">>>>)],
     unstable |-> {}]

MacroCount(tab) == Cardinality({n \in DOMAIN tab.defs : ~tab.defs[n].builtin})

(* `defined X`, #ifdef X: the two location macros count as defined.        *)
IsDefined(defs, n) == n \in DOMAIN defs \cup {<<"__LINE__">>, <<"__FILE__">>}

ParamIndex(m, t) ==
    IF t \in ToSet(m.params) THEN CHOOSE i \in DOMAIN m.params : m.params[i] = t
    ELSE IF m.variadic /\ t = VaArgs THEN Len(m.params) + 1 ELSE 0

(* `##` may not be at either end, `#` must precede a parameter.            *)
BodyOk(m) ==
    /\ m.body # <<>> => Head(m.body) # Paste /\ Last(m.body) # Paste
    /\ m.fn => \A i \in DOMAIN m.body : m.body[i] = Hash =>
                   i < Len(m.body) /\ ParamIndex(m, m.body[i + 1]) # 0

(* Mutant: a redefinition is not noted.                                    *)
DefineQuietly(tab, n, m) ==
    [tab EXCEPT !.defs = [x \in DOMAIN @ \cup {n} |-> IF x = n THEN m ELSE @[x]]]

Define(tab, n, m) ==
    [defs |-> [x \in DOMAIN tab.defs \cup {n} |-> IF x = n THEN m ELSE tab.defs[x]],
     unstable |-> IF n \in DOMAIN tab.defs /\ ~tab.defs[n].builtin /\ tab.defs[n] # m
                  THEN tab.unstable \cup {n} ELSE tab.unstable]

Undef(tab, n) ==
    IF n \notin DOMAIN tab.defs THEN tab
    ELSE [defs |-> [x \in DOMAIN tab.defs \ {n} |-> tab.defs[x]],
          unstable |-> tab.unstable \cup {n}]
-----------------------------------------------------------------------------
(* Whether a definition is passed through to the generated C: "yes", "no", *)
(* or "forever", the recursion of the two functions not ending.  C input   *)
(* passes constants only: literals, operators, and macros passed through   *)
(* themselves, whose own bodies it asks about again.                       *)

PassedPunctuation == {"(", ")", "+", "-", "*", "/", "%", "<", ">", "<<", ">>", "<=", ">=",
                      "==", "!=", "&", "&&", "|", "||", "^", "~", "!", "=", "{", "}", ","}

RECURSIVE PassThrough(_, _, _, _)
PassThrough(defs, n, cmode, asking) ==
    LET m == defs[n]
        Verdict(t) ==
            IF IsIdent(t)
            THEN IF t = n \/ t \notin DOMAIN defs THEN "no"
                 ELSE PassThrough(defs, t, cmode, asking \cup {n})
            ELSE IF IsNumber(t) THEN (IF t[1] = "0" /\ Len(t) > 1 THEN "no" ELSE "yes")
            ELSE IF t[1] \in PassedPunctuation \cup {"str"} THEN "yes" ELSE "no"
        first == SelectInSeq(m.body, LAMBDA t : Verdict(t) # "yes")
    IN  IF n \in asking THEN "forever"
        ELSE IF m.builtin \/ m.variadic THEN "no"
        ELSE IF cmode /\ m.fn THEN "no"
        ELSE IF cmode /\ first # 0 THEN Verdict(m.body[first])
        ELSE IF Hash \in ToSet(m.body) \/ Paste \in ToSet(m.body) THEN "no"
        ELSE IF ~m.fn /\ n \in ToSet(m.body) THEN "no"
        ELSE "yes"

PassedThrough(defs, n, cmode) == PassThrough(defs, n, cmode, {}) = "yes"

(* A constant whose uses keep its name: the body is one number (the code   *)
(* takes a number with a minus and a character as well).                   *)
IsNamedConstant(defs, n, cmode) ==
    /\ ~defs[n].fn /\ ~defs[n].builtin
    /\ Len(defs[n].body) = 1 /\ IsNumber(defs[n].body[1])
    /\ PassedThrough(defs, n, cmode)
-----------------------------------------------------------------------------
(* Hide regions: [name, end], the name being left alone before `end`.      *)

Everywhere == 1000000000            \* SIZE_MAX

IsHidden(hides, t, pos) == \E h \in hides : h.name = t /\ h.end > pos
LiveAt(hides, pos) == {[h EXCEPT !.end = Everywhere] : h \in {g \in hides : g.end > pos}}

(* splice_replacement: regions that reach past [start, end) move with it,  *)
(* one that ends inside is cut off at its start.                           *)
Splice(text, start, end, repl) == SubSeq(text, 1, start - 1) \o repl \o SubSeq(text, end, Len(text))
(* Mutant: the regions stay where they were.                               *)
MovedNot(hides, start, end, n) == hides
Moved(hides, start, end, n) ==
    {IF h.end = Everywhere \/ h.end <= start THEN h
     ELSE IF h.end >= end THEN [h EXCEPT !.end = h.end - (end - start) + n]
     ELSE [h EXCEPT !.end = start] : h \in hides}

(* Past the comment that opens at i, or past the text.                     *)
AfterComment(text, i) ==
    LET c == SelectInSubSeq(text, i, Len(text), LAMBDA t : t = Closes)
    IN  IF c = 0 THEN Len(text) + 1 ELSE c + 1

RECURSIVE SkipSpace(_, _)
SkipSpace(text, i) ==
    IF i > Len(text) THEN i
    ELSE IF text[i] = NewLine THEN SkipSpace(text, i + 1)
    ELSE IF text[i] = Opens THEN SkipSpace(text, AfterComment(text, i))
    ELSE i

(* collect_args from just after the parenthesis: the raw arguments and the *)
(* place past the closing one, or close = 0 when the text ends first.      *)
RECURSIVE CollectArgs(_, _, _, _, _, _)
CollectArgs(m, text, i, depth, done, cur) ==
    LET go(d, t) == CollectArgs(m, text, i + 1, d, done, Append(cur, t)) IN
    IF i > Len(text) THEN [args |-> <<>>, close |-> 0]
    ELSE CASE text[i] = Opens   -> CollectArgs(m, text, AfterComment(text, i), depth, done, cur)
           [] text[i] = NewLine -> CollectArgs(m, text, i + 1, depth, done, cur)
           [] text[i] = Paren   -> go(depth + 1, text[i])
           [] text[i] = Close   -> IF depth = 0
                                   THEN [args |-> Append(done, cur), close |-> i + 1]
                                   ELSE go(depth - 1, text[i])
           [] text[i] = Comma /\ depth = 0 /\ ~(m.variadic /\ Len(done) >= Len(m.params)) ->
                  CollectArgs(m, text, i + 1, depth, Append(done, cur), <<>>)
           [] OTHER -> go(depth, text[i])

(* `F()` is no argument for a macro without parameters and one, empty, for *)
(* the others; an empty __VA_ARGS__ may be left out.                       *)
ArityOk(m, args) ==
    IF m.variadic THEN Len(args) >= Len(m.params)
    ELSE IF m.params = <<>> THEN args = <<<<>>>> ELSE Len(args) = Len(m.params)

Stringized(raw) == <<"str">> \o FlattenSeq([i \in DOMAIN raw |-> Literal(raw[i])])

(* Text that is put together lexes as one token when both are words, the   *)
(* right one without an annotation (pasted punctuation is not modelled).   *)
IsWord(t) == IsIdent(t) \/ IsNumber(t) \/ IsNamed(t)
Lexed(l, r) == IF IsWord(l) /\ IsWord(r) /\ ~IsNamed(r) THEN <<l \o r>> ELSE <<l, r>>

(* append_piece: text added to the replacement, glued to its last token    *)
(* after a `##`.  A paste with nothing on its left leaves the piece as is. *)
Added(out, piece, glue) ==
    IF piece = <<>> THEN out
    ELSE IF glue /\ out # <<>> THEN Front(out) \o Lexed(Last(out), Head(piece)) \o Tail(piece)
    ELSE out \o piece

(* substitute, from body token i on: `expanded` are the arguments expanded *)
(* on their own, which a parameter next to `#` or `##` does not get.       *)
RECURSIVE Substitute(_, _, _, _, _, _)
Substitute(m, raw, expanded, i, out, glue) ==
    IF i > Len(m.body) THEN out
    ELSE
    LET t == m.body[i]
        p == IF m.fn THEN ParamIndex(m, t) ELSE 0
        pasted == glue \/ (i < Len(m.body) /\ m.body[i + 1] = Paste)
        rawOf(k) == IF k <= Len(raw) THEN raw[k] ELSE <<>>
        next(k, o) == Substitute(m, raw, expanded, k, o, FALSE)
    IN  IF t = Paste THEN Substitute(m, raw, expanded, i + 1, out, TRUE)
        ELSE IF t = Hash /\ m.fn
        THEN next(i + 2, Added(out, <<Stringized(rawOf(ParamIndex(m, m.body[i + 1])))>>, glue))
        ELSE IF p # 0 /\ glue /\ rawOf(p) = <<>> /\ p > Len(m.params) /\ LastOr(out, <<"">>) = Comma
        THEN next(i + 1, Front(out))
        ELSE IF p # 0
        THEN next(i + 1, Added(out, IF pasted THEN rawOf(p) ELSE expanded[p], glue))
        ELSE next(i + 1, Added(out, <<t>>, glue))
-----------------------------------------------------------------------------
(* expand_buffer.  A scan is the text, the place everything before which   *)
(* is done, the hide regions, whether the place is in a comment, the depth *)
(* of nested arguments and the number of replacements made.  `at` carries  *)
(* the table, the mode, the line and whether more text may be asked for.   *)
(* The result is "ok" with the text, "more" or "error".                    *)

Scan(text, hides, comment, depth) ==
    [text |-> text, pos |-> 1, hides |-> hides, comment |-> comment, depth |-> depth, splices |-> 0]
Skip(s) == [s EXCEPT !.pos = @ + 1]
ReplaceTo(s, end, repl) ==
    [s EXCEPT !.text = Splice(@, s.pos, end, repl), !.splices = @ + 1,
              !.hides = Moved(@, s.pos, end, Len(repl))
                          \cup {[name |-> s.text[s.pos], end |-> s.pos + Len(repl)]}]
ResultOf(s, rc) == [rc |-> rc, text |-> s.text]

(* What follows the name of a function-like macro, `open` being the place  *)
(* after blanks, newlines and comments: a call, its text cut off, a call   *)
(* with the wrong number of arguments, or something else.                  *)
Collected(m, c) ==
    IF c.close = 0 THEN [is |-> "cut"]
    ELSE IF ~ArityOk(m, c.args) THEN [is |-> "wrong"]
    ELSE [is |-> "call", end |-> c.close,
          raw |-> IF m.params = <<>> /\ ~m.variadic THEN <<>> ELSE c.args]
Following(m, text, open) ==
    IF open > Len(text) THEN [is |-> "nothing"]
    ELSE IF text[open] # Paren THEN [is |-> "other"]
    ELSE Collected(m, CollectArgs(m, text, open + 1, 0, <<>>, <<>>))

(* The parameters whose arguments get expanded on their own.               *)
AskedFor(m) ==
    {ParamIndex(m, m.body[i]) : i \in {j \in DOMAIN m.body :
         /\ j > 1 => m.body[j - 1] \notin {Hash, Paste}
         /\ j < Len(m.body) => m.body[j + 1] # Paste}} \ {0}

RECURSIVE Expanded(_, _)
RECURSIVE Invoked(_, _, _, _)
RECURSIVE WithArguments(_, _, _, _, _)

WithArguments(at, s, m, call, alone) ==
    IF \E k \in DOMAIN alone : alone[k].rc # "ok" THEN ResultOf(s, "error")
    ELSE Expanded(at, ReplaceTo(s, call.end,
             Substitute(m, call.raw, [k \in DOMAIN alone |-> alone[k].text], 1, <<>>, FALSE)))

Invoked(at, s, m, call) ==
    CASE call.is = "call" ->
             WithArguments(at, s, m, call,
                 [k \in AskedFor(m) |->
                     Expanded([at EXCEPT !.more = FALSE],
                              Scan(IF k <= Len(call.raw) THEN call.raw[k] ELSE <<>>,
                                   LiveAt(s.hides, s.pos), FALSE, s.depth + 1))])
      [] call.is = "cut"   -> ResultOf(s, IF at.more THEN "more" ELSE "error")
      [] call.is = "wrong" -> ResultOf(s, "error")
      [] OTHER -> IF call.is = "nothing" /\ at.more THEN ResultOf(s, "more")
                  ELSE Expanded(at, Skip(s))

Expanded(at, s) ==
    LET t == s.text[s.pos] IN
    IF s.depth > MaxMacroDepth THEN ResultOf(s, "error")
    ELSE IF s.pos > Len(s.text) THEN ResultOf(s, "ok")
    ELSE IF s.comment \/ t = Opens
    THEN Expanded(at, [Skip(s) EXCEPT !.comment = t # Closes])
    ELSE IF t = <<"__LINE__">> /\ t \notin DOMAIN at.defs
    THEN Expanded(at, Skip([s EXCEPT !.text = Splice(@, s.pos, s.pos + 1, <<<<at.line>>>>)]))
    ELSE IF ~IsIdent(t) \/ t \notin DOMAIN at.defs \/ IsHidden(s.hides, t, s.pos)
    THEN Expanded(at, Skip(s))
    ELSE IF s.splices >= MaxSplices THEN ResultOf(s, "error")
    ELSE IF at.defs[t].fn
    THEN Invoked(at, s, at.defs[t], Following(at.defs[t], s.text, SkipSpace(s.text, s.pos + 1)))
    ELSE Expanded(at, ReplaceTo(s, s.pos + 1,
             IF IsNamedConstant(at.defs, t, at.cmode)
             THEN <<<<"@">> \o t \o <<"@">> \o at.defs[t].body[1]>> ELSE at.defs[t].body))

MacroExpandText(at, text, inComment) == Expanded(at, Scan(text, {}, inComment, 0))

-----------------------------------------------------------------------------
(* The evaluator of #if and #elif expressions, a chain of recursive-       *)
(* descent functions from `?:` (ev_cond) down to ev_primary.  Every        *)
(* function gets `live`, whether the value can matter, and only a live     *)
(* division by zero is an error.                                           *)

NumberValue(t) == FoldLeft(LAMBDA v, d : 10 * v + DigitValue[d], 0, t)

Bool(b) == IF b THEN 1 ELSE 0

(* The code computes in 64 bits; eight stand for them where bits matter.   *)
Bits == 256
Unsigned(v) == v % Bits
Signed(v) == IF v >= Bits \div 2 THEN v - Bits ELSE v
Size(a) == IF a < 0 THEN -a ELSE a
Quotient(a, b) == LET q == Size(a) \div Size(b) IN IF (a < 0) # (b < 0) THEN -q ELSE q

Binary(op, a, b) ==
    CASE op = "||" -> Bool(a # 0 \/ b # 0)  [] op = "&&" -> Bool(a # 0 /\ b # 0)
      [] op = "|"  -> Signed(Unsigned(a) | Unsigned(b))
      [] op = "^"  -> Signed(Unsigned(a) ^^ Unsigned(b))
      [] op = "&"  -> Signed(Unsigned(a) & Unsigned(b))
      [] op = "==" -> Bool(a = b)  [] op = "!=" -> Bool(a # b)
      [] op = "<=" -> Bool(a <= b) [] op = ">=" -> Bool(a >= b)
      [] op = "<"  -> Bool(a < b)  [] op = ">"  -> Bool(a > b)
      [] op = "<<" -> a * 2^b      [] op = ">>" -> a \div 2^b
      [] op = "+"  -> a + b        [] op = "-"  -> a - b
      [] op = "*"  -> a * b
      [] op = "/"  -> IF b = 0 THEN 0 ELSE Quotient(a, b)
      [] op = "%"  -> IF b = 0 THEN 0 ELSE a - b * Quotient(a, b)

Unary(op, v) ==
    CASE op = "!" -> Bool(v = 0) [] op = "~" -> -v - 1 [] op = "-" -> -v [] op = "+" -> v

(* The operators each function of the chain accepts, ev_lor to ev_mul.     *)
Chain == << {"||"}, {"&&"}, {"|"}, {"^"}, {"&"}, {"==", "!="}, {"<=", ">=", "<", ">"},
            {"<<", ">>"}, {"+", "-"}, {"*", "/", "%"} >>

(* Whether the right operand of `op` can matter when the left one is v.    *)
RightLives(op, v) == CASE op = "||" -> v = 0 [] op = "&&" -> v # 0 [] OTHER -> TRUE

(* ev_space passes over annotations, so a named literal is its value.      *)
TokenAt(s, i) == IF i <= Len(s) THEN Literal(s[i]) ELSE <<"">>

(* What a function of the chain returns, and what becomes of it.           *)
Got(v, next, error) == [value |-> v, next |-> next, error |-> error]
Inverted(op, r) == [r EXCEPT !.value = Unary(op, @)]
InParentheses(s, r) ==
    IF TokenAt(s, r.next) = Close THEN [r EXCEPT !.next = @ + 1] ELSE [r EXCEPT !.error = TRUE]
Combined(op, l, r, live) ==
    Got(Binary(op, l.value, r.value), r.next,
        l.error \/ r.error \/ (live /\ op \in {"/", "%"} /\ r.value = 0))
Selected(s, c, a, b) ==
    Got(IF c.value # 0 THEN a.value ELSE b.value, b.next,
        c.error \/ a.error \/ b.error \/ TokenAt(s, a.next) # <<":">>)

RECURSIVE EvCond(_, _, _)
RECURSIVE EvChain(_, _, _, _)
RECURSIVE EvLoop(_, _, _, _)
RECURSIVE EvUnary(_, _, _)

EvPrimary(s, i, live) ==
    LET t == TokenAt(s, i) IN
    IF t = Paren THEN InParentheses(s, EvCond(s, i + 1, live))
    ELSE IF IsNumber(t) THEN Got(NumberValue(t), i + 1, FALSE)
    ELSE IF IsIdent(t) THEN Got(Bool(t = <<"true">>), i + 1, FALSE)
    ELSE Got(0, i, TRUE)

EvUnary(s, i, live) ==
    IF TokenAt(s, i)[1] \in {"!", "~", "-", "+"}
    THEN Inverted(TokenAt(s, i)[1], EvUnary(s, i + 1, live))
    ELSE EvPrimary(s, i, live)

(* `l` is what stands left of the next operator of level k, if there is    *)
(* one: its value, the place after it and whether anything failed.         *)
EvLoop(k, s, l, live) ==
    LET op == TokenAt(s, l.next)[1] IN
    IF op \notin Chain[k] THEN l
    ELSE EvLoop(k, s, Combined(op, l, EvChain(k + 1, s, l.next + 1,
                                              live /\ RightLives(op, l.value)), live), live)

EvChain(k, s, i, live) ==
    IF k > Len(Chain) THEN EvUnary(s, i, live)
    ELSE EvLoop(k, s, EvChain(k + 1, s, i, live), live)

EvElse(s, c, a, live) == Selected(s, c, a, EvCond(s, a.next + 1, live /\ c.value = 0))
EvThen(s, c, live) ==
    IF TokenAt(s, c.next) # <<"?">> THEN c
    ELSE EvElse(s, c, EvCond(s, c.next + 1, live /\ c.value # 0), live)
EvCond(s, i, live) == EvThen(s, EvChain(1, s, i, live), live)

(* resolve_defined: `defined X` and `defined ( X )`, before any expansion. *)
AsksOf(s) == IF Len(s) > 1 /\ s[2] = Paren THEN 4 ELSE 2     \* the place of its last token
Asked(s)  == s[IF AsksOf(s) = 4 THEN 3 ELSE 2]
RECURSIVE ResolveDefined(_, _)
ResolveDefined(defs, s) ==
    IF s = <<>> THEN [error |-> FALSE, text |-> <<>>]
    ELSE IF Head(s) # <<"defined">>
    THEN [ResolveDefined(defs, Tail(s)) EXCEPT !.text = <<Head(s)>> \o @]
    ELSE IF Len(s) < AsksOf(s) \/ ~IsIdent(Asked(s)) \/ (AsksOf(s) = 4 /\ s[4] # Close)
    THEN [error |-> TRUE, text |-> <<>>]
    ELSE [ResolveDefined(defs, SubSeq(s, AsksOf(s) + 1, Len(s))) EXCEPT
              !.text = <<<<IF IsDefined(defs, Asked(s)) THEN "1" ELSE "0">>>> \o @]

(* macro_eval_condition.                                                   *)
Evaluated(r, n) == [value |-> r.value, error |-> r.error \/ r.next # n + 1]
NoValue == [value |-> 0, error |-> TRUE]
EvalExpanded(e) ==
    IF e.rc # "ok" THEN NoValue ELSE Evaluated(EvCond(e.text, 1, TRUE), Len(e.text))
EvalResolved(at, resolved) ==
    IF resolved.error THEN NoValue
    ELSE EvalExpanded(MacroExpandText([at EXCEPT !.more = FALSE], resolved.text, FALSE))
EvalCondition(at, expr) ==
    IF expr = <<>> THEN NoValue ELSE EvalResolved(at, ResolveDefined(at.defs, expr))
=============================================================================
