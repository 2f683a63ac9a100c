--------------------------- MODULE DestructScope ---------------------------
(***************************************************************************)
(* Phase 9 of lower.c: the destructor calls the compiler plants at every   *)
(* way out of a scope, and the program that executes them.                 *)
(*                                                                         *)
(* The compiler walks a function body once, in source order; one action is *)
(* one construct of the body, chosen freely, so a behaviour is a program.  *)
(* Along with the walk one execution of the compiled program is followed:  *)
(* control is at the walk's position ("here"), or has jumped and waits for *)
(* the walk to reach the place it jumped to.  A loop body is followed for  *)
(* one pass: control leaves it as it entered it, which is what a further   *)
(* pass starts from.                                                       *)
(*                                                                         *)
(* Only locals of a class with a destructor count, numbered in the order   *)
(* of their declarations.  A goto is not modelled: ast.h documents that    *)
(* the phase does not handle it.                                           *)
(***************************************************************************)
EXTENDS Integers, Sequences

CONSTANTS
  MaxLocals,   \* bound: destructible locals of the body
  MaxFrames,   \* bound: nesting of statements
  SwitchCtors  \* whether bodies declare, directly in a switch, locals of a
               \* class that has a constructor

ASSUME BoundsAssumption ==
  MaxLocals \in Nat /\ MaxFrames \in Nat \ {0} /\ SwitchCtors \in BOOLEAN

VARIABLES
  locals,  \* the scope chain's locals, outermost and oldest first
  frames,  \* the constructs the walk is inside
  live,    \* the objects constructed and not yet destroyed
  todo,    \* compiled code of the current exit not yet executed
  at       \* where control is

scopeVars == <<locals, frames, live, todo, at>>

Objects == 1 .. MaxLocals

(* The temporary __v32_ret_tmpN that holds the value of a return.          *)
Evaluate == 0

(* A frame is a block or a switch (a scope of its own) or a construct that *)
(* has one statement for a body.  mark: the locals declared outside it.    *)
(* loop, break: the boundaries, each as the number of locals that a        *)
(* continue or a break inside must leave alone (0 for NULL).               *)
Scopes == {"block", "switch"}
Bodies == {"loop", "then", "else", "label"}

Frame == [kind : Scopes \cup Bodies, mark : Nat, loop : Nat, break : Nat,
          done : BOOLEAN,     \* the one statement of a body is over
          returns : BOOLEAN,  \* stmt_always_returns of the last statement
          both : BOOLEAN]     \* ... of the then branch, in an else

NewFrame(kind, mark, loop, break) ==
  [kind |-> kind, mark |-> mark, loop |-> loop, break |-> break,
   done |-> FALSE, returns |-> FALSE, both |-> FALSE]

Here == [mode |-> "here", frame |-> 0]
Wait(i) == [mode |-> "wait", frame |-> i]      \* for the end of frame i
Select(i) == [mode |-> "select", frame |-> i]  \* for a case of the switch i
Returned == [mode |-> "returned", frame |-> 0]
Leave(i) == [mode |-> "leave", frame |-> i]    \* executing todo; 0: a return
Fall == [mode |-> "fall", frame |-> 0]         \* executing todo at a scope's end

Places == [mode : {"here", "wait", "select", "returned", "leave", "fall"}, frame : Nat]

ScopeInit ==
  /\ locals = <<>>
  /\ frames = <<NewFrame("block", 0, 0, 0)>>
  /\ live = {}
  /\ todo = <<>>
  /\ at = Here

----------------------------------------------------------------------------
Depth == Len(frames)

Top == frames[Depth]

(* The walk goes on when the code planted so far has been executed.        *)
Walking == Depth > 0 /\ at.mode \notin {"leave", "fall"}

(* The next statement may start here: in a scope, or as a body's only one. *)
Statement == Walking /\ ~Top.done

(* fs with a statement over in its last frame.                             *)
Over(fs, returns) ==
  IF fs = <<>> THEN fs
  ELSE [fs EXCEPT ![Len(fs)] = [fs[Len(fs)] EXCEPT
          !.done = fs[Len(fs)].kind \in Bodies, !.returns = returns]]

Outer == SubSeq(frames, 1, Depth - 1)

(* The innermost construct a continue, or a break, of the source leaves.   *)
Innermost(kinds) ==
  {i \in 1 .. Depth : frames[i].kind \in kinds
                      /\ \A j \in i + 1 .. Depth : frames[j].kind \notin kinds}

(* Mutant: ... the oldest first. *)
Unwind_OldestFirst(stop) == [k \in 1 .. Len(locals) - stop |-> locals[stop + k]]

(* The destructor calls for the locals of the chain beyond stop, the       *)
(* latest first: install_destructor_sequence.                              *)
Unwind(stop) == [k \in 1 .. Len(locals) - stop |-> locals[Len(locals) + 1 - k]]

(* Control goes from here to place, if it is here, on executing code.      *)
Execute(code, place) ==
  IF at = Here THEN todo' = code /\ at' = place ELSE UNCHANGED <<todo, at>>

----------------------------------------------------------------------------
(* The walk: statements                                                    *)

Expression ==
  /\ Statement
  /\ frames' = Over(frames, FALSE)
  /\ UNCHANGED <<locals, live, todo, at>>

(* In a block or a switch: as the unbraced body of an if or a loop, a      *)
(* declaration is neither constructed nor destroyed.  Phase 7 plants the   *)
(* constructor's call in a block, and does not in a switch; without a      *)
(* constructor the object is there once it is declared.                    *)
Declare ==
  /\ Statement /\ Top.kind \in Scopes
  /\ \E o \in Objects, ctor \in BOOLEAN :
       /\ ctor /\ Top.kind = "switch" => SwitchCtors
       /\ \A k \in 1 .. Len(locals) : locals[k] < o
       /\ locals' = Append(locals, o)
       /\ live' = IF at = Here /\ (ctor => Top.kind = "block") THEN live \cup {o} ELSE live
       /\ \A p \in live : p < o
  /\ frames' = Over(frames, FALSE)
  /\ UNCHANGED <<todo, at>>

Break ==
  /\ Statement
  /\ \E i \in Innermost({"loop", "switch"}) : Execute(Unwind(Top.break), Leave(i))
  /\ frames' = Over(frames, FALSE)
  /\ UNCHANGED <<locals, live>>

Continue ==
  /\ Statement
  /\ \E i \in Innermost({"loop"}) : Execute(Unwind(Top.loop), Leave(i))
  /\ frames' = Over(frames, FALSE)
  /\ UNCHANGED <<locals, live>>

Return ==
  /\ Statement
  /\ Execute(Unwind(0), Leave(0))
  /\ frames' = Over(frames, TRUE)
  /\ UNCHANGED <<locals, live>>

(* Mutant: the value is computed by the return statement itself. *)
ReturnValue_Late ==
  /\ Statement
  /\ Execute(Unwind(0) \o <<Evaluate>>, Leave(0))
  /\ frames' = Over(frames, TRUE)
  /\ UNCHANGED <<locals, live>>

ReturnValue ==
  /\ Statement
  /\ Execute(<<Evaluate>> \o Unwind(0), Leave(0))
  /\ frames' = Over(frames, TRUE)
  /\ UNCHANGED <<locals, live>>

(* A case label.  A declaration before it would be jumped over, which C++  *)
(* does not allow.                                                         *)
Case ==
  /\ Statement /\ Top.kind = "switch" /\ Len(locals) = Top.mark
  /\ at' \in IF at = Select(Depth) THEN {at, Here} ELSE {at}
  /\ frames' = Over(frames, FALSE)
  /\ UNCHANGED <<locals, live, todo>>

----------------------------------------------------------------------------
(* The walk: constructs, entered and left                                  *)

Enter(kind, loop, break, places) ==
  /\ Statement /\ Depth < MaxFrames
  /\ frames' = Append(frames, NewFrame(kind, Len(locals), loop, break))
  /\ at' \in IF at = Here THEN places ELSE {at}
  /\ UNCHANGED <<locals, live, todo>>

Within == Depth + 1

EnterBlock == Enter("block", Top.loop, Top.break, {Here})

(* Mutant: a switch is no target for break. *)
EnterSwitch_NoBoundary == Enter("switch", Top.loop, Top.break, {Select(Within)})

EnterSwitch == Enter("switch", Top.loop, Len(locals), {Select(Within)})

EnterIf == Enter("then", Top.loop, Top.break, {Here, Wait(Within)})

EnterLabel == Enter("label", Top.loop, Top.break, {Here})

EnterLoop == Enter("loop", Len(locals), Len(locals), {Here, Wait(Within)})

(* Control that waited for the end of the frame goes on behind it.         *)
Arrive == IF at \in {Wait(Depth), Select(Depth)} THEN Here ELSE at

(* After the then branch: an else, skipped if the branch was taken.        *)
EnterElse ==
  /\ Walking /\ Top.kind = "then" /\ Top.done
  /\ frames' = [frames EXCEPT ![Depth] =
                  [NewFrame("else", Top.mark, Top.loop, Top.break) EXCEPT !.both = Top.returns]]
  /\ at' = IF at = Here THEN Wait(Depth) ELSE Arrive
  /\ UNCHANGED <<locals, live, todo>>

(* Mutant: an if whose else returns is taken to return. *)
LeaveBody_ElseOnly ==
  /\ Walking /\ Top.done
  /\ frames' = Over(Outer, Top.kind = "else" /\ Top.returns)
  /\ at' = Arrive
  /\ UNCHANGED <<locals, live, todo>>

LeaveBody ==
  /\ Walking /\ Top.done
  /\ frames' = Over(Outer, Top.kind = "else" /\ Top.returns /\ Top.both)
  /\ at' = Arrive
  /\ UNCHANGED <<locals, live, todo>>

(* The end of a block or of a switch body.  Its own locals are destroyed,  *)
(* unless its last statement always returns.                               *)
LeaveScope ==
  /\ Walking /\ Top.kind \in Scopes
  /\ IF at = Here
       THEN /\ todo' = IF Top.returns THEN <<>> ELSE Unwind(Top.mark)
            /\ at' = Fall
       ELSE at' = Arrive /\ UNCHANGED todo
  /\ locals' = SubSeq(locals, 1, Top.mark)
  /\ frames' = Over(Outer, Top.kind = "block" /\ Top.returns)
  /\ UNCHANGED live

----------------------------------------------------------------------------
(* The execution of an exit's code, one call at a time                     *)

Step ==
  /\ todo # <<>>
  /\ todo' = Tail(todo)
  /\ live' = live \ {Head(todo)}
  /\ UNCHANGED <<locals, frames, at>>

Jump ==
  /\ todo = <<>>
  /\ \/ at.mode = "leave" /\ at' = IF at.frame = 0 THEN Returned ELSE Wait(at.frame)
     \/ at.mode = "fall" /\ at' = IF Depth = 0 THEN Returned ELSE Here
  /\ UNCHANGED <<locals, frames, live, todo>>

ScopeNext ==
  \/ Expression \/ Declare \/ Break \/ Continue \/ Return \/ ReturnValue \/ Case
  \/ EnterBlock \/ EnterSwitch \/ EnterIf \/ EnterLabel \/ EnterLoop
  \/ EnterElse \/ LeaveBody \/ LeaveScope
  \/ Step \/ Jump

ScopeSpec == ScopeInit /\ [][ScopeNext]_scopeVars

----------------------------------------------------------------------------
InChain == {locals[k] : k \in 1 .. Len(locals)}

(* At every statement control reaches, the objects alive are exactly the   *)
(* ones the compiler has in its scope chain there, whatever path led to    *)
(* it: so every exit planted at that statement destroys the right ones.    *)
(* Control that left a loop, a switch or a branch has destroyed what was   *)
(* declared inside it and nothing else; control that left the function,    *)
(* everything.                                                             *)
ChainIsLive ==
  /\ at = Here => live = InChain
  /\ at.mode \in {"wait", "select"} => live = {locals[k] : k \in 1 .. frames[at.frame].mark}
  /\ at = Returned => live = {}

(* Every destructor call finds its object alive, and no younger one: each  *)
(* object is destroyed once, in the reverse order of construction.  The    *)
(* value of a return is computed before any destructor has run.            *)
DestroysYoungest ==
  /\ todo # <<>> /\ Head(todo) # Evaluate =>
       Head(todo) \in live /\ \A o \in live : o <= Head(todo)
  /\ todo # <<>> /\ Head(todo) = Evaluate => live = InChain

(* A statement taken to always return is never left by its end: this is    *)
(* why no destructor call is planted behind it.                            *)
ReturnsDoNotFall == Walking /\ Top.returns => at # Here
=============================================================================
