----------------------------- MODULE MCPrescan -----------------------------
(***************************************************************************)
(* Small programs for the pre-scan.  A theme fixes the command line and    *)
(* the lines the program's own file may be made of; TLC writes every file  *)
(* of at most `max` of them.                                               *)
(***************************************************************************)
EXTENDS Prescan

MCDigits == {"0", "1", "2", "3", "4", "5"}
MCDigitValue == [d \in MCDigits |->
    CASE d = "0" -> 0 [] d = "1" -> 1 [] d = "2" -> 2 [] d = "3" -> 3 [] d = "4" -> 4 [] d = "5" -> 5]
MCIdentStart == {"a", "b", "c", "f", "g", "h", "x", "y", "N", "M", "Q", "self", "id", "struct", "typedef",
                 "int", "S", "true", "defined", "NULL", "__V32CXX__", "__LINE__", "__VA_ARGS__"}

(* Tokens of one spelling each.                                            *)
T(s) == [i \in DOMAIN s |-> <<s[i]>>]

Line(d, n, text, k, m, phys) ==
    [d |-> d, name |-> n, text |-> text, kind |-> k, m |-> m, phys |-> phys, lead |-> <<>>,
     tail |-> <<>>]
Code(s)       == Line("code", <<>>, T(s), "", Null, 1)
Continued(s, n) == [Code(s) EXCEPT !.phys = n]
Def(n, s)     == Line("define", <<n>>, <<>>, "",
                      [fn |-> FALSE, params |-> <<>>, variadic |-> FALSE, body |-> T(s),
                       builtin |-> FALSE], 1)
Fun(n, ps, s) == [Def(n, s) EXCEPT !.m.fn = TRUE, !.m.params = T(ps)]
Var(n, ps, s) == [Fun(n, ps, s) EXCEPT !.m.variadic = TRUE]
Un(n)         == Line("undef", <<n>>, <<>>, "", Null, 1)
If(s)         == Line("if", <<>>, T(s), "", Null, 1)
Elif(s)       == Line("elif", <<>>, T(s), "", Null, 1)
IfDef(n)      == Line("ifdef", <<n>>, <<>>, "", Null, 1)
IfNDef(n)     == Line("ifndef", <<n>>, <<>>, "", Null, 1)
Bare(d)       == Line(d, <<>>, <<>>, "", Null, 1)
Inc(n, k)     == Line("include", n, <<>>, k, Null, 1)
Noted(l)      == [l EXCEPT !.tail = T(<<"/*", "c", "*/">>)]
Behind(s, l)  == [l EXCEPT !.lead = T(s)]
-----------------------------------------------------------------------------
(* The files that can be included.                                         *)
MCFiles ==
    [n \in {"top", "once.hpp", "./once.hpp", "cycle.hpp", "uses.hpp", "./uses.hpp", "plain.hpp",
            "limits.h", "outer.h", "guard.h", "vector.h", "types.h", "own.h", "sdk.h"} |->
      CASE n = "top" -> [id |-> "top", lines |-> <<>>]
        [] n \in {"once.hpp", "./once.hpp"} ->
             [id |-> "once.hpp", lines |-> <<Bare("once"), Inc("cycle.hpp", "hpp"), Code(<<"x">>)>>]
        [] n = "cycle.hpp" -> [id |-> n, lines |-> <<Inc("./once.hpp", "hpp"), Code(<<"y">>)>>]
        [] n \in {"uses.hpp", "./uses.hpp"} ->
             [id |-> "uses.hpp", lines |-> <<Bare("once"), Inc("limits.h", "h"), Code(<<"N">>)>>]
        [] n = "plain.hpp" -> [id |-> n, lines |-> <<Inc("uses.hpp", "hpp"), Inc("plain.hpp", "hpp")>>]
        [] n = "limits.h" ->
             [id |-> n, lines |-> <<IfNDef("N"), Def("N", <<"4">>), Bare("else"), Def("M", <<"3">>),
                                    Bare("endif"), Code(<<"struct", "S", "{">>)>>]
        [] n = "outer.h" ->
             [id |-> n, lines |-> <<Inc("limits.h", "h"), Inc("missing.hpp", "hpp"), Un("M"),
                                    Def("M", <<"2">>), Code(<<"typedef", "int", "a", ";">>)>>]
        [] n = "guard.h" ->
             [id |-> n, lines |-> <<IfNDef("g"), Def("g", <<>>), Code(<<"x">>), Bare("endif")>>]
        [] n = "own.h" -> [id |-> n, lines |-> <<Inc("sdk.h", "sdk"), Code(<<"x">>)>>]
        [] n = "sdk.h" -> [id |-> n, lines |-> <<IfNDef("Q"), Def("Q", <<"1">>), Inc("own.h", "h"), Bare("endif")>>]
        [] n = "vector.h" -> [id |-> n, lines |-> <<Bare("switch")>>]
        [] n = "types.h" ->
             [id |-> n, lines |-> <<Bare("once"), Code(<<"struct", "S">>), Bare("stdarg"),
                                    Bare("null"), Bare("pragma"), Bare("other")>>]]
-----------------------------------------------------------------------------
Theme(cmode, cmdline, lines, max) ==
    [cmode |-> cmode, cmdline |-> cmdline, lines |-> lines, max |-> max]

Branches ==
    Theme(FALSE, <<>>, {IfDef("N"), IfNDef("N"), Elif(<<"defined", "M">>), Elif(<<"1">>), Bare("else"),
                        Bare("endif"), Def("N", <<"1">>), Un("N"), Code(<<"x">>)}, 6)

BinaryOps == UNION {Chain[k] : k \in DOMAIN Chain}
Chains == {<<a, o, "2", p, b>> : a \in {"0", "3"}, b \in {"0", "1"}, o, p \in BinaryOps}
Ternaries == {<<a, "?", "1", "/", b, ":", c, "?", "2", ":", d>> : a, b, c, d \in {"0", "1"}}
Others == {<<u, "(", a, o, "2", ")">> : u \in {"!", "~", "-", "+"}, a \in {"1", "2"}, o \in BinaryOps}
    \cup {<<"1", o, u, "1">> : u \in {"!", "~", "-", "+"}, o \in BinaryOps \ {"<<", ">>"}}
    \cup {<<"0", o, "(", "1", p, "0", ")">> : o \in {"&&", "||"}, p \in {"/", "%"}}
    \cup {<<>>, <<"defined">>, <<"defined", "(", "N", ")">>, <<"!", "defined", "N">>, <<"x">>,
          <<"N", "+">>, <<"(", "1">>, <<"M">>, <<"f", "(", "1", ")", "-", "1">>}
Conditions ==
    Theme(FALSE, <<Def("N", <<"2">>), Def("M", <<"N", "-", "2">>), Fun("f", <<"x">>, <<"x", "*", "N">>)>>,
          {If(e) : e \in Chains \cup Ternaries \cup Others}, 1)

Objects ==
    Theme(FALSE, <<Def("self", <<"(", "4", "+", "self", ")">>)>>,
          {Def("N", <<"5">>), Def("N", <<"M">>), Def("M", <<"N">>), Def("M", <<"f">>), Un("N"),
           Fun("f", <<"x">>, <<"x", "M">>), Code(<<"N", "self">>), Code(<<"M", "(", "N", ")">>),
           Code(<<"__LINE__", "NULL">>)}, 5)

(* Calls over several lines, ended by a directive, inside comments.        *)
Calls ==
    Theme(FALSE, <<Fun("f", <<"x">>, <<"x", "+", "g">>), Fun("g", <<"x", "y">>, <<"f", "(", "y", ")", "x">>),
                   Fun("h", <<>>, <<"f">>)>>,
          {Code(<<"f">>), Code(<<"(", "1">>), Code(<<",", "2", ")">>), Code(<<")">>),
           Code(<<"h", "(", ")", "/*">>), Code(<<"g", "(", "h", "(", "*/">>), Code(<<"*/", "(", "x", ")">>),
           Continued(<<"f", "(", "(", "a", ",", "b", ")", ")">>, 2), Def("N", <<"5">>)}, 5)

(* Comments around branches, and directives inside comments.              *)
Comments ==
    Theme(FALSE, <<Fun("f", <<"x">>, <<"x", "N">>)>>,
          {If(<<"0">>), If(<<"N">>), Noted(Bare("else")), Noted(Bare("endif")), Noted(Def("N", <<"1">>)),
           Code(<<"f", "(", "N", "/*">>), Code(<<"*/", ")">>), Code(<<"/*", "N", "*/", "N", "/*">>),
           Code(<<"*/">>)}, 5)

BodyOperators ==
    Theme(FALSE, <<Fun("f", <<"x", "y">>, <<"x", "##", "y">>), Fun("g", <<"x">>, <<"#", "x", "x">>),
                   Var("h", <<"x">>, <<"f", "(", "x", ",", "##", "__VA_ARGS__", ")">>),
                   [Def("a", <<"3">>) EXCEPT !.name = <<"a", "b">>], Def("N", <<"5">>)>>,
          {Code(<<"f", "(", "a", ",", "b", ")">>), Code(<<"g", "(", "f", "(", "a", ",", "N", ")", ")">>),
           Code(<<"g", "(", "N", ")">>), Code(<<"h", "(", "1", ",", "2", ")">>), Code(<<"f", "(", "N", ",", ")">>),
           Code(<<"h", "(", "a", ",", "g", ",", "2", ")">>), Code(<<"f", "(", "1", ",", "g", "(", "1", ")", ")">>),
           Code(<<"f", "(", "1", ")">>), Fun("M", <<"x">>, <<"##", "x">>), Fun("M", <<"x">>, <<"#", "a">>),
           Var("a", <<>>, <<"g", "(", "__VA_ARGS__", ")">>), Code(<<"a", "(", "1", ",", "N", ")">>)}, 3)

(* Headers that pass through, read twice, under names the program defines. *)
Headers ==
    Theme(FALSE, <<Def("g", <<"1">>)>>,
          {Inc("limits.h", "h"), Inc("outer.h", "h"), Inc("guard.h", "h"), Inc("types.h", "h"),
           Inc("uses.hpp", "hpp"), Inc("missing.h", "h"), Def("N", <<"5">>), Def("N", <<"4">>), Un("N"),
           Def("M", <<"2">>), Code(<<"N", "M">>), Code(<<"S">>)}, 4)

Inclusions ==
    Theme(FALSE, <<>>,
          {Inc("once.hpp", "hpp"), Inc("./once.hpp", "hpp"), Inc("cycle.hpp", "hpp"), Inc("uses.hpp", "hpp"),
           Inc("./uses.hpp", "hpp"),
           Inc("plain.hpp", "hpp"), Inc("missing.hpp", "hpp"), Bare("switch"), Bare("stdarg"), Bare("error"),
           Bare("null"), Bare("other"), Bare("pragma"), Def("Q", <<"1">>), IfDef("Q"), Bare("else"), Bare("endif"),
           Code(<<"x">>)}, 4)

(* C input: the program's own headers are expanded, only constants pass.   *)
CInput ==
    Theme(TRUE, <<>>,
          {Inc("guard.h", "h"), Inc("limits.h", "h"), Inc("types.h", "sdk"), Inc("vector.h", "sdk"),
           Inc("own.h", "h"), Inc("sdk.h", "sdk"),
           Def("N", <<"5">>), Def("N", <<"M">>), Def("M", <<"(", "N", ")">>), Fun("f", <<"x">>, <<"x">>),
           Code(<<"N", "M">>)}, 4)

(* A named constant as an operand of `##`.                                 *)
Pastes ==
    Theme(FALSE, <<Fun("f", <<"x", "y">>, <<"x", "##", "y">>), Fun("g", <<"x">>, <<"f", "(", "a", ",", "x", ")">>),
                   Def("N", <<"5">>)>>,
          {Code(<<"f", "(", "a", ",", "N", ")">>), Code(<<"f", "(", "N", ",", "1", ")">>), Code(<<"g", "(", "N", ")">>)}, 2)

(* A comment's end in front of a directive, or of a `*`.                   *)
CommentEnds ==
    Theme(FALSE, <<>>,
          {If(<<"0">>), Behind(<<"/*", "c", "*/">>, Bare("else")), Behind(<<"/*", "c", "*/">>, Bare("endif")),
           Bare("endif"), Code(<<"int", "/*", "c", "*/", "*", "x">>), Code(<<"y">>)}, 4)

MCPasteThemes == {Pastes}
MCCommentThemes == {CommentEnds}
MCThemes == {Branches, Conditions, Objects, Calls, Comments, BodyOperators, Headers, Inclusions, CInput}
=============================================================================
