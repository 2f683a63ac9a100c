------------------------------ MODULE Prescan ------------------------------
(***************************************************************************)
(* prescan.c: the include pre-scan, with the line accounting of the lexer  *)
(* that reads its output.  One step is one turn of the loop of             *)
(* expand_file_mode over the innermost open file; opening a file pushes a  *)
(* frame.  The file being transpiled is written as it is read: its next    *)
(* line is any line of the theme.  Included files are given.               *)
(***************************************************************************)
EXTENDS MacroRef, CondStack

CONSTANTS
    Files,      \* spelling of an #include -> [id, lines], id the canonical path
    Themes,     \* [cmode, cmdline, lines, max]: what the program's own file may hold,
                \* and the bound on its number of lines
    NoLine, EndLine, NoText

VARIABLES
    theme,
    stack,      \* the open files, innermost last
    peeked,     \* a line read ahead and put back (EndLine: the end of the file)
    pending,    \* code text waiting for the rest of a macro's arguments
    tab,        \* the macro table
    seen,       \* the whole-run sets: once, verbatim, harvested types, stdarg
    lex,        \* where the lexer believes it is: file, line, in a comment
    hoisted,    \* the #-lines the lexer passed on to the top of the generated C
    status,     \* "run", "done", "error", or "crash"
    hist        \* history, for the properties only

vars == <<theme, stack, peeked, pending, tab, seen, lex, hoisted, status, hist>>

Top == stack[Len(stack)]
WithTop(f) == [stack EXCEPT ![Len(stack)] = f]
Active == CondActive(Top.conds)
Opened(spelling, harvest, then) ==
    [file |-> spelling, harvest |-> harvest, at |-> 0, line |-> 0, conds |-> <<>>,
     groups |-> <<>>, comment |-> FALSE, inC |-> FALSE, then |-> then]
OnStack(id) == \E i \in DOMAIN stack : Files[stack[i].file].id = id
-----------------------------------------------------------------------------
(* The lexer: a newline counts, a marker sets file and line unless it      *)
(* stands in a comment.                                                    *)
Newlines(lx, n) == [lx EXCEPT !.line = @ + n]
Marker(lx, n, file) ==
    IF lx.comment THEN Newlines(lx, 1) ELSE [lx EXCEPT !.line = n, !.file = file]
(* The lexer's comments are C's: one ends after its `*/`.                  *)
Read(s, t) ==
    IF s.comment THEN [s EXCEPT !.comment = t # Closes]
    ELSE IF t = Opens THEN [s EXCEPT !.comment = TRUE] ELSE [s EXCEPT !.code = TRUE]
ReadFrom(text, c) == FoldLeft(Read, [comment |-> c, code |-> FALSE], text)
LexText(lx, text) ==
    [Newlines(lx, 1 + Len(SelectSeq(text, LAMBDA t : t = NewLine)))
        EXCEPT !.comment = ReadFrom(text, lx.comment).comment]
(* Mutant: no marker after text that took several lines.                   *)
NeverMarked(lx, needed, f) == lx
MarkedIf(lx, needed, f) == IF needed THEN Marker(lx, f.line + 1, f.file) ELSE lx

(* read_logical: the next line, taken from the file or put back earlier.   *)
NextLine(l) ==
    \/ peeked \notin {NoLine, EndLine} /\ l = peeked
    \/ /\ peeked = NoLine
       /\ IF Len(stack) = 1 THEN Top.at < theme.max
          ELSE Top.at < Len(Files[Top.file].lines) /\ l = Files[Top.file].lines[Top.at + 1]
AtEnd == \/ peeked = EndLine
         \/ peeked = NoLine /\ (Len(stack) = 1 \/ Top.at = Len(Files[Top.file].lines))

(* find_directive.  It leaves a comment at the `/` that ends it and reads  *)
(* that once more: it is code, or with the next character it begins a      *)
(* comment.  The tokens of a line stand next to one another.               *)
Scanned(s, t) ==
    CASE s.at = "comment" -> IF t = Closes THEN [s EXCEPT !.at = "slash"] ELSE s
      [] s.at = "rest" \/ (s.at = "slash" /\ t \in {<<"/">>, Opens}) -> [s EXCEPT !.at = "rest"]
      [] t = Opens \/ (s.at = "slash" /\ t = <<"*">>) -> [s EXCEPT !.at = "comment"]
      [] OTHER -> [at |-> "code", code |-> TRUE]
ScannedFrom(text, c) ==
    FoldLeft(Scanned, [at |-> IF c THEN "comment" ELSE "code", code |-> FALSE], text)

(* A directive is `lead`, `#`, its word and operands, and `tail`.          *)
TextOf(l) == IF l.d = "code" THEN l.text ELSE l.lead \o <<<<"#">>>> \o l.text \o l.tail
IsDirective(l) ==
    l.d # "code" /\ ScannedFrom(l.lead, Top.comment) = [at |-> "code", code |-> FALSE]

(* The condition as the language has it, <<>> for none.                    *)
RefTruth(defs, l) ==
    CASE l.d = "ifdef"  -> <<Bool(IsDefined(defs, l.name))>>
      [] l.d = "ifndef" -> <<Bool(~IsDefined(defs, l.name))>>
      [] l.d \in {"if", "elif"} -> RefCondition(defs, l.text)
      [] l.d = "else" -> <<1>>
Holds(v) == v # <<>> /\ v[1] # 0
Truth(l) == Holds(RefTruth(tab.defs, l))

(* History: the groups that are open to a reader who takes comments out    *)
(* first, as the language does, and looks for directives then.             *)
DirectiveInC(l) ==
    l.d # "code" /\ ReadFrom(l.lead, Top.inC) = [comment |-> FALSE, code |-> FALSE]
GroupsInC(l) ==
    CASE ~DirectiveInC(l) -> Top.groups
      [] l.d \in {"if", "ifdef", "ifndef"} -> OpenGroup(Top.groups, Truth(l))
      [] l.d \in {"elif", "else"} /\ Top.groups # <<>> -> NextBranch(Top.groups, Truth(l))
      [] l.d = "endif" /\ Top.groups # <<>> -> CloseGroup(Top.groups)
      [] OTHER -> Top.groups

Took(l) == [Top EXCEPT !.at = @ + 1, !.line = @ + l.phys,
                       !.comment = ScannedFrom(TextOf(l), @).at = "comment",
                       !.inC = ReadFrom(TextOf(l), @).comment, !.groups = GroupsInC(l)]
-----------------------------------------------------------------------------
(* emit_code_line.                                                         *)

At(first, more) ==
    [defs |-> tab.defs, cmode |-> theme.cmode, line |-> ToString(first), more |-> more]

(* The line number a __LINE__ written in the text stands for.              *)
Located(text, first) ==
    [i \in DOMAIN text |-> IF text[i] = <<"__LINE__">> THEN <<ToString(first)>> ELSE text[i]]

NamedIn(text) == {t \in ToSet(text) : IsNamed(t)}

EmitCode(f, raw, out, marker) ==
    /\ lex' = MarkedIf(LexText(lex, out), marker, f)
    /\ hist' = [hist EXCEPT !.raw = @ \o raw, !.out = @ \o out, !.named = @ \cup NamedIn(out)]

EmitExpanded(f, p, r) ==
    /\ stack' = WithTop(f)
    /\ CASE r.rc = "more"  -> pending' = p /\ UNCHANGED <<lex, hist, status>>
         [] r.rc = "error" -> pending' = NoText /\ status' = "error" /\ UNCHANGED <<lex, hist>>
         [] r.rc = "ok"    -> pending' = NoText /\ EmitCode(f, Located(p.raw, p.first), r.text, p.phys > 1)
                              /\ UNCHANGED status

ExpandCode(f, p, more) == EmitExpanded(f, p, MacroExpandText(At(p.first, more), p.raw, p.before))

HasUnderscores(text) == \E t \in ToSet(text) : t \in {V32CXX, <<"__LINE__">>}

CodeLine(l) ==
    /\ status = "run" /\ pending = NoText /\ NextLine(l) /\ ~IsDirective(l)
    /\ ~Top.harvest /\ Active
    /\ peeked' = NoLine
    /\ IF MacroCount(tab) = 0 /\ ~HasUnderscores(TextOf(l))
       THEN stack' = WithTop(Took(l)) /\ EmitCode(Took(l), TextOf(l), TextOf(l), FALSE)
            /\ UNCHANGED <<pending, status>>
       ELSE ExpandCode(Took(l), [raw |-> TextOf(l), first |-> Top.line + 1, phys |-> l.phys,
                                 before |-> Top.comment], TRUE)
    /\ UNCHANGED <<theme, tab, seen, hoisted>>

JoinLine(l) ==
    /\ status = "run" /\ pending # NoText /\ NextLine(l) /\ ~IsDirective(l)
    /\ peeked' = NoLine
    /\ ExpandCode(Took(l), [pending EXCEPT !.raw = @ \o <<NewLine>> \o TextOf(l),
                                           !.phys = @ + l.phys], TRUE)
    /\ UNCHANGED <<theme, tab, seen, hoisted>>

(* A directive or the end of the file: the invocation isn't one.           *)
JoinStops ==
    /\ status = "run" /\ pending # NoText
    /\ \/ \E l \in theme.lines : Len(stack) = 1 /\ NextLine(l) /\ IsDirective(l) /\ peeked' = l
       \/ \E l \in ToSet(Files[Top.file].lines) :
              Len(stack) > 1 /\ NextLine(l) /\ IsDirective(l) /\ peeked' = l
       \/ AtEnd /\ peeked' = EndLine
    /\ ExpandCode(Top, pending, FALSE)
    /\ UNCHANGED <<theme, tab, seen, hoisted>>

(* A code line of an inactive branch, or of a header being harvested, from *)
(* which only the names of its types are taken.                            *)
TypesOn(text) ==
    LET n == Len(text)
        semi == SelectInSeq(text, LAMBDA t : t = <<";">>)
    IN  IF n > 1 /\ text[1] = <<"struct">> /\ (n = 2 \/ text[3] = <<"{">>) THEN {text[2]}
        ELSE IF n > 1 /\ text[1] = <<"typedef">> /\ semi > 2 /\ IsIdent(text[semi - 1])
        THEN {text[semi - 1]} ELSE {}

SkipCode(l) ==
    /\ status = "run" /\ pending = NoText /\ NextLine(l) /\ ~IsDirective(l)
    /\ ~Top.harvest => ~Active
    /\ peeked' = NoLine
    /\ stack' = WithTop(Took(l))
    /\ IF Top.harvest
       THEN /\ seen' = IF Active /\ ~Top.comment
                       THEN [seen EXCEPT !.types = @ \cup TypesOn(TextOf(l))] ELSE seen
            /\ UNCHANGED lex
       ELSE lex' = Newlines(lex, l.phys) /\ UNCHANGED seen
    /\ UNCHANGED <<theme, pending, tab, hoisted, status, hist>>
-----------------------------------------------------------------------------
(* Directives.  A consumed one leaves as many blank lines as it had, one   *)
(* that is passed on stands for itself, with `extra` lines after it.       *)

Directive(l, kinds) ==
    /\ status = "run" /\ pending = NoText /\ NextLine(l) /\ IsDirective(l) /\ l.d \in kinds
    /\ peeked' = NoLine
    /\ UNCHANGED <<theme, pending>>

EndRun(h) == [h EXCEPT !.raw = <<>>, !.out = <<>>]

Consumed(l) == /\ lex' = IF Top.harvest THEN lex ELSE Newlines(lex, l.phys)
               /\ UNCHANGED hoisted
PassedOn(l, f, extra) ==
    IF f.harvest THEN UNCHANGED <<lex, hoisted>>
    ELSE /\ lex' = MarkedIf(Newlines(lex, 1 + extra), l.phys > 1 \/ extra > 0, f)
         /\ hoisted' = Append(hoisted, l)

(* The condition as the code has it, when it asks.                         *)
Condition(l) ==
    IF l.d \in {"if", "elif"} THEN EvalCondition(At(Top.line + 1, FALSE), l.text)
    ELSE [value |-> Bool(IsDefined(tab.defs, l.name) = (l.d = "ifdef")), error |-> FALSE]
Judged(l, c) ==
    [EndRun(hist) EXCEPT !.misjudged = @ \/ c.error # (RefTruth(tab.defs, l) = <<>>)]

NotAsked == [value |-> 0, error |-> FALSE]
OpensWith(l, c) ==
    /\ stack' = WithTop([Took(l) EXCEPT !.conds = CondPush(@, c.value # 0)])
    /\ hist' = IF Active THEN Judged(l, c) ELSE EndRun(hist)
    /\ status' = IF c.error THEN "error" ELSE "run"
IfDirective(l) ==
    /\ Directive(l, {"if", "ifdef", "ifndef"})
    /\ OpensWith(l, IF Active THEN Condition(l) ELSE NotAsked)
    /\ Consumed(l) /\ UNCHANGED <<tab, seen>>

GoesOnWith(l, c) ==
    /\ stack' = WithTop([Took(l) EXCEPT !.conds = CondElif(@, c.value # 0)])
    /\ hist' = IF ElifAsks(Top.conds) THEN Judged(l, c) ELSE EndRun(hist)
    /\ status' = IF c.error THEN "error" ELSE "run"
ElifDirective(l) ==
    /\ Directive(l, {"elif"})
    /\ IF CanBranch(Top.conds)
       THEN GoesOnWith(l, IF ElifAsks(Top.conds) THEN Condition(l) ELSE NotAsked)
       ELSE stack' = WithTop(Took(l)) /\ hist' = EndRun(hist) /\ status' = "error"
    /\ Consumed(l) /\ UNCHANGED <<tab, seen>>

ElseDirective(l) ==
    /\ Directive(l, {"else"})
    /\ IF CanBranch(Top.conds)
       THEN /\ stack' = WithTop([Took(l) EXCEPT !.conds = CondElse(@)])
            /\ UNCHANGED status
       ELSE stack' = WithTop(Took(l)) /\ status' = "error"
    /\ hist' = EndRun(hist)
    /\ Consumed(l) /\ UNCHANGED <<tab, seen>>

EndifDirective(l) ==
    /\ Directive(l, {"endif"})
    /\ IF Top.conds # <<>>
       THEN /\ stack' = WithTop([Took(l) EXCEPT !.conds = CondPop(@)])
            /\ UNCHANGED status
       ELSE stack' = WithTop(Took(l)) /\ status' = "error"
    /\ hist' = EndRun(hist)
    /\ Consumed(l) /\ UNCHANGED <<tab, seen>>

(* The rest matters in an active branch only.                              *)
ActiveDirective(l, kinds) == Directive(l, kinds) /\ Active /\ hist' = EndRun(hist)

DroppedDirective(l) ==
    /\ Directive(l, {"define", "undef", "include", "switch", "stdarg", "once", "pragma",
                     "error", "null", "other"})
    /\ ~Active
    /\ stack' = WithTop(Took(l)) /\ hist' = EndRun(hist)
    /\ Consumed(l) /\ UNCHANGED <<tab, seen, status>>

DefineDirective(l) ==
    /\ ActiveDirective(l, {"define"})
    /\ stack' = WithTop(Took(l))
    /\ LET defined == Define(tab, l.name, l.m)
           pass == PassThrough(defined.defs, l.name, theme.cmode, {})
       IN  IF ~BodyOk(l.m) THEN status' = "error" /\ UNCHANGED tab /\ Consumed(l)
           ELSE /\ tab' = defined
                /\ status' = IF pass = "forever" /\ ~Top.harvest THEN "crash" ELSE "run"
                /\ IF pass = "yes" THEN PassedOn(l, Took(l), 0) ELSE Consumed(l)
    /\ UNCHANGED seen

UndefDirective(l) ==
    /\ ActiveDirective(l, {"undef"})
    /\ stack' = WithTop(Took(l)) /\ tab' = Undef(tab, l.name)
    /\ PassedOn(l, Took(l), 0)
    /\ UNCHANGED <<seen, status>>

(* Mutant: #pragma once notes the name as it was spelled.                  *)
SpelledKey(spelling) == spelling
(* canonical_path: the file itself, however its name was spelled.          *)
OnceKey(spelling) == Files[spelling].id

PragmaDirective(l) ==
    /\ ActiveDirective(l, {"once", "pragma"})
    /\ stack' = WithTop(Took(l))
    /\ seen' = IF l.d = "once" THEN [seen EXCEPT !.once = @ \cup {OnceKey(Top.file)}] ELSE seen
    /\ Consumed(l) /\ UNCHANGED <<tab, status>>

(* #error stops the run; the null directive is dropped, a cart hint kept.  *)
OtherDirective(l) ==
    /\ ActiveDirective(l, {"error", "null", "other"})
    /\ stack' = WithTop(Took(l))
    /\ status' = IF l.d = "error" THEN "error" ELSE "run"
    /\ IF l.d = "other" THEN PassedOn(l, Took(l), 0) ELSE Consumed(l)
    /\ UNCHANGED <<tab, seen>>

(* <vector>, <array>: no such file, only a marker is written -- also when  *)
(* there is no stream to write to.  <stdarg.h>: a typedef, the first time. *)
SwitchDirective(l) ==
    /\ ActiveDirective(l, {"switch", "stdarg"})
    /\ stack' = WithTop(Took(l))
    /\ status' = IF l.d = "switch" /\ Top.harvest THEN "crash" ELSE "run"
    /\ seen' = IF l.d = "stdarg" /\ ~Top.harvest THEN [seen EXCEPT !.stdarg = TRUE] ELSE seen
    /\ lex' = IF Top.harvest THEN lex
              ELSE IF l.d = "switch" THEN Marker(lex, Took(l).line + 1, Top.file)
              ELSE IF seen.stdarg THEN Newlines(lex, l.phys)
              ELSE MarkedIf(Newlines(lex, 1), l.phys > 1, Took(l))
    /\ UNCHANGED <<tab, hoisted>>
-----------------------------------------------------------------------------
(* #include.                                                               *)

Found(l) == l.name \in DOMAIN Files
Expands(l) == l.kind = "hpp" \/ (theme.cmode /\ l.kind = "h" /\ Found(l))

(* expand_file: nothing for a #pragma once file already seen, an error for *)
(* one being expanded, a frame otherwise.                                  *)
IncludeExpanded(l) ==
    /\ Directive(l, {"include"}) /\ Active
    /\ ~Top.harvest /\ Expands(l)
    /\ UNCHANGED <<tab, seen, hoisted>>
    /\ hist' = [EndRun(hist) EXCEPT !.asked = @ \cup {l.name}]
    /\ IF ~Found(l) \/ (Files[l.name].id \notin seen.once /\ OnStack(Files[l.name].id))
       THEN stack' = WithTop(Took(l)) /\ status' = "error" /\ UNCHANGED lex
       ELSE IF Files[l.name].id \in seen.once
       THEN /\ stack' = WithTop(Took(l))
            /\ lex' = Marker(lex, Took(l).line + 1, Top.file) /\ UNCHANGED status
       ELSE /\ stack' = Append(WithTop(Took(l)), Opened(l.name, FALSE, [line |-> NoLine, types |-> {}]))
            /\ lex' = Marker(lex, 1, l.name) /\ UNCHANGED status

(* A header that passes through, read for its macros and types before its  *)
(* #include is written.  A .hpp inside one is not ours to read.            *)
IncludeHeader(l) ==
    /\ Directive(l, {"include"}) /\ Active
    /\ ~Top.harvest => ~Expands(l)
    /\ hist' = EndRun(hist) /\ UNCHANGED tab
    /\ LET id == Files[l.name].id
           stay == stack' = WithTop(Took(l)) /\ UNCHANGED status
       IN  IF l.kind = "hpp" THEN stay /\ Consumed(l) /\ UNCHANGED seen
           ELSE IF ~Found(l) THEN stay /\ PassedOn(l, Took(l), 0) /\ UNCHANGED seen
           ELSE IF id \in seen.verbatim THEN stay /\ Consumed(l) /\ UNCHANGED seen
           ELSE /\ seen' = [seen EXCEPT !.verbatim = @ \cup {id}]
                /\ IF id \in seen.once THEN stay /\ PassedOn(l, Took(l), 0)
                   ELSE IF OnStack(id)
                   THEN stack' = WithTop(Took(l)) /\ status' = "error" /\ UNCHANGED <<lex, hoisted>>
                   ELSE /\ stack' = Append(WithTop(Took(l)),
                                           Opened(l.name, TRUE, [line |-> l, types |-> seen.types]))
                        /\ UNCHANGED <<lex, hoisted, status>>

(* The end of a file; the file that included it goes on.                   *)
EndFile ==
    /\ status = "run" /\ pending = NoText /\ AtEnd
    /\ peeked' = NoLine
    /\ hist' = IF Top.harvest THEN EndRun(hist)
               ELSE [EndRun(hist) EXCEPT !.expanded = Append(@, Files[Top.file].id)]
    /\ UNCHANGED <<theme, pending, tab, seen>>
    /\ IF Top.conds # <<>> \/ Len(stack) = 1
       THEN /\ status' = IF Top.conds # <<>> THEN "error" ELSE "done"
            /\ UNCHANGED <<stack, lex, hoisted>>
       ELSE LET f == stack[Len(stack) - 1] IN
            /\ stack' = Front(stack)
            /\ UNCHANGED status
            /\ IF Top.harvest THEN PassedOn(Top.then.line, f, Cardinality(seen.types \ Top.then.types))
               ELSE lex' = Marker(lex, f.line + 1, f.file) /\ UNCHANGED hoisted
-----------------------------------------------------------------------------
(* prescan_expand: the command line's -D and -U, then the file.            *)
OnCmdline(t, n) ==
    FoldLeft(LAMBDA s, c :
        IF c.d = "undef" THEN [s EXCEPT !.tab = Undef(s.tab, c.name)]
        ELSE LET d == Define(s.tab, c.name, c.m) IN
             [tab |-> d, hoisted |-> IF PassedThrough(d.defs, c.name, t.cmode)
                                     THEN Append(s.hoisted, c) ELSE s.hoisted],
        n, t.cmdline)

Init ==
    /\ theme \in Themes
    /\ LET s == OnCmdline(theme, [tab |-> EmptyTable, hoisted |-> <<>>])
       IN  tab = s.tab /\ hoisted = s.hoisted
    /\ stack = <<Opened("top", FALSE, [line |-> NoLine, types |-> {}])>>
    /\ peeked = NoLine /\ pending = NoText
    /\ seen = [once |-> {}, verbatim |-> {}, types |-> {}, stdarg |-> FALSE]
    /\ lex = [file |-> "top", line |-> 1, comment |-> FALSE]
    /\ status = "run"
    /\ hist = [raw |-> <<>>, out |-> <<>>, named |-> {}, misjudged |-> FALSE,
               asked |-> {}, expanded |-> <<>>]

Lines == IF Len(stack) = 1 THEN theme.lines ELSE ToSet(Files[Top.file].lines)

Next ==
    \/ \E l \in Lines : CodeLine(l)
    \/ \E l \in Lines : JoinLine(l)
    \/ JoinStops
    \/ \E l \in Lines : SkipCode(l)
    \/ \E l \in Lines : IfDirective(l)
    \/ \E l \in Lines : ElifDirective(l)
    \/ \E l \in Lines : ElseDirective(l)
    \/ \E l \in Lines : EndifDirective(l)
    \/ \E l \in Lines : DroppedDirective(l)
    \/ \E l \in Lines : DefineDirective(l)
    \/ \E l \in Lines : UndefDirective(l)
    \/ \E l \in Lines : PragmaDirective(l)
    \/ \E l \in Lines : OtherDirective(l)
    \/ \E l \in Lines : SwitchDirective(l)
    \/ \E l \in Lines : IncludeExpanded(l)
    \/ \E l \in Lines : IncludeHeader(l)
    \/ EndFile

Spec == Init /\ [][Next]_vars
-----------------------------------------------------------------------------
(* The Vircon32 C compiler, reading the lines at the top of the generated  *)
(* C: the macros it ends up with.                                          *)
RECURSIVE Compiled(_, _)
Compiled(s, lines) ==
    LET l == Head(lines)
        on == CondActive(s.conds)
        truth == Holds(RefTruth(s.defs, l))
        then(t) == Compiled(t, Tail(lines))
        inner == Compiled([s EXCEPT !.conds = <<>>], Files[l.name].lines)
    IN  IF lines = <<>> THEN s
        ELSE IF l.d \in {"if", "ifdef", "ifndef"}
        THEN then([s EXCEPT !.conds = CondPush(@, on /\ truth)])
        ELSE IF l.d = "elif" THEN then([s EXCEPT !.conds = CondElif(@, truth)])
        ELSE IF l.d = "else" THEN then([s EXCEPT !.conds = CondElse(@)])
        ELSE IF l.d = "endif" THEN then([s EXCEPT !.conds = CondPop(@)])
        ELSE IF ~on THEN then(s)
        ELSE IF l.d = "define"
        THEN then([s EXCEPT !.defs = [x \in DOMAIN @ \cup {l.name} |-> IF x = l.name THEN l.m ELSE @[x]]])
        ELSE IF l.d = "undef"
        THEN then([s EXCEPT !.defs = [x \in DOMAIN @ \ {l.name} |-> @[x]]])
        ELSE IF l.d = "include" /\ Found(l) THEN then([inner EXCEPT !.conds = s.conds])
        ELSE then(s)

NoMacros == [n \in {} |-> n]
CompilerTable == Compiled([defs |-> NoMacros, conds |-> <<>>], hoisted).defs
-----------------------------------------------------------------------------
(* The lexer counts lines with the file being read: between two lines it   *)
(* is at the next one of the file the pre-scan is in.  Both know whether   *)
(* that is in a comment, as C reads the file; the lexer sees nothing of a  *)
(* branch that is left out.                                                *)
LexerFollows ==
    status = "run" /\ pending = NoText /\ peeked # EndLine /\ ~Top.harvest =>
        /\ lex = [file |-> Top.file, line |-> Top.line + 1, comment |-> Active /\ Top.inC]
        /\ Top.comment = Top.inC

(* A line counts as active exactly when, of every group that is open in C  *)
(* around it, it is in the first branch whose condition holds, and a       *)
(* condition is refused exactly when it has no value.                      *)
ActiveAsC ==
    /\ ~hist.misjudged
    /\ status # "error" =>
           \A i \in DOMAIN stack : ActiveIsFirstTrue(stack[i].conds, stack[i].groups)

(* What the parser gets of code between two directives is what the         *)
(* language says those lines expand to.                                    *)
Matches(out, expansion) == Refused.t \notin ToSet(expansion) => out = expansion
ExpandsAsC ==
    status = "run" /\ pending = NoText =>
        Matches(CodeOnly(hist.out, FALSE), Expansion(tab.defs, CodeOnly(hist.raw, FALSE)))

(* A literal that may be printed as the name of its macro: the C compiler  *)
(* ends up with that name meaning that literal.                            *)
MeansThere(defs, t) ==
    NameOf(t) \notin tab.unstable =>
        NameOf(t) \in DOMAIN defs /\ defs[NameOf(t)].body = <<Literal(t)>>
StableNames ==
    status = "done" => \A t \in hist.named : MeansThere(CompilerTable, t)

(* A file with #pragma once that the program includes is in the output     *)
(* once, and no header's #include is written twice.                        *)
Once(id) == \E s \in DOMAIN Files : Files[s].id = id /\ Files[s].lines # <<>>
                                    /\ Files[s].lines[1].d = "once"
IncludedOnce ==
    status = "done" =>
        /\ \A s \in hist.asked : Once(Files[s].id) =>
               Len(SelectSeq(hist.expanded, LAMBDA x : x = Files[s].id)) = 1
        /\ \A i, j \in {k \in DOMAIN hoisted : hoisted[k].d = "include" /\ Found(hoisted[k])} :
               Files[hoisted[i].name].id = Files[hoisted[j].name].id => i = j
=============================================================================
