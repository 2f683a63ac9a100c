---------------------------- MODULE BodyLowering ----------------------------
(***************************************************************************)
(* The way of a function body through the phases, in the order of          *)
(* lower_run(), and the runs of what comes out: the calls of a run are     *)
(* answered one by one, by an environment that knows nothing of the phases.*)
(***************************************************************************)
EXTENDS CallLowering, ByValue, Ternary, Compat

CONSTANTS Families,   \* sets of function bodies; see MCBodyLowering
          Params,     \* what their parameters, and memory, start with
          MaxAnswers  \* bound on the calls of a run

VARIABLES program, body, phase, answers

vars == <<program, body, phase, answers>>

(* What a C++ function starts with: its parameters are copies of the       *)
(* objects the caller passes.                                              *)
Copied == [v \in DOMAIN Params |-> IF v \in ObjectParams THEN Params[Params[ByValuePointer(v)]] ELSE Params[v]]

(* What a run of b leaves.  A body is C++ up to phase 9b, and the caller   *)
(* stores the object it returns; after that it is C, and after all phases  *)
(* what the console gets.                                                  *)
Returned(cpp, s) ==
  IF cpp /\ s.status = "return" /\ ReturnsObject(program) THEN [s EXCEPT !.vars[Params[RetPointer]] = s.val] ELSE s

Run(b, stage) ==
  LET cpp == stage \in {"source", "calls", "returns"}
  IN Returned(cpp, Exec(b, Start(IF cpp THEN Copied ELSE Params, answers, stage = "compat")))

SourceRun == Run(program, "source")
BodyRun   == Run(body, phase)

(* What a run did: its calls with their operands, the value it returned,   *)
(* what it left in the variables of others, and how it ended.              *)
Did(s) == [trace |-> s.trace,
           val |-> IF s.status = "return" /\ ~ReturnsObject(program) THEN s.val ELSE 0,
           vars |-> [v \in DOMAIN Params \ ObjectParams |-> s.vars[v]], status |-> s.status]

Init ==
  /\ \E family \in Families : program \in family
  /\ body = program
  /\ phase = "source"
  /\ answers = <<>>

Calls ==
  /\ phase = "source"
  /\ phase' = "calls"
  /\ body' = FinalizeCalls(body)
  /\ UNCHANGED <<program, answers>>

Returns ==
  /\ phase = "calls"
  /\ phase' = "returns"
  /\ body' = HoldReturns(body, <<>>)
  /\ UNCHANGED <<program, answers>>

ByAddress ==
  /\ phase = "returns"
  /\ phase' = "byvalue"
  /\ body' = EntryCopies(AbiBody(body, ReturnsObject(program)))
  /\ UNCHANGED <<program, answers>>

Ternaries ==
  /\ phase = "byvalue"
  /\ phase' = "ternaries"
  /\ body' = RewriteTernaries(body)
  /\ UNCHANGED <<program, answers>>

Compatible ==
  /\ phase = "ternaries"
  /\ phase' = "compat"
  /\ body' = CompatBody(body)
  /\ UNCHANGED <<program, answers>>

Answer ==
  /\ phase = "compat"
  /\ Len(answers) < MaxAnswers
  /\ SourceRun.status = "wait"
  /\ \E v \in {0, 1} : answers' = Append(answers, v)
  /\ UNCHANGED <<program, body, phase>>

Next == Calls \/ Returns \/ ByAddress \/ Ternaries \/ Compatible \/ Answer

Spec == Init /\ [][Next]_vars

-----------------------------------------------------------------------------
SameAs(source) == source.status # "undefined" => Did(BodyRun) = Did(source)

(* "The rewrite keeps C++'s evaluation rules, not just its values": a body *)
(* that has been through the phases makes the same calls with the same     *)
(* operands in the same order, leaves the same parameters and ends the     *)
(* same way, whatever the calls answer, if C++ defines what it does.       *)
SameRun == SameAs(SourceRun)

(* Nothing that the console's compiler refuses reaches it: no `?` and no   *)
(* comma operator, of the program or of phase 3's reference temporaries,   *)
(* no array as an operand, no copy of a const value, no object of several  *)
(* words as an argument or a result, and no temporary that is declared in  *)
(* a switch body after a case label.                                       *)
NothingLeft ==
  /\ phase = "compat" => ~HasTernary(body) /\ ~Refused(body) /\ ~PassesObject(body)
  /\ ~DeclaresInSwitch(program) => ~DeclaresInSwitch(body)
=============================================================================
