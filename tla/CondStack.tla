----------------------------- MODULE CondStack -----------------------------
(***************************************************************************)
(* prescan.c: the stack of open #if groups of one file.  The code keeps    *)
(* four flags for a group and never looks below the top; what they must    *)
(* add up to is the language's rule, stated over the conditions of all the *)
(* branches seen so far, which the code does not keep.                     *)
(***************************************************************************)
EXTENDS Naturals, Sequences

Cond == [parent_active : BOOLEAN, active : BOOLEAN, taken : BOOLEAN, seen_else : BOOLEAN]

CondActive(conds) == conds # <<>> => conds[Len(conds)].active

CondPush(conds, value) ==
    LET on == CondActive(conds) /\ value
    IN  Append(conds, [parent_active |-> CondActive(conds), active |-> on,
                       taken |-> on, seen_else |-> FALSE])

(* #elif asks for its condition only when this holds.                      *)
ElifAsks(conds) == conds[Len(conds)].parent_active /\ ~conds[Len(conds)].taken

(* Mutant: any branch whose condition holds is compiled.                   *)
BranchTakenTwice(conds, value, isElse) ==
    [conds EXCEPT ![Len(conds)] =
        [@ EXCEPT !.active = conds[Len(conds)].parent_active /\ value, !.seen_else = isElse]]

Branch(conds, value, isElse) ==
    LET c  == conds[Len(conds)]
        on == c.parent_active /\ ~c.taken /\ value
    IN  [conds EXCEPT ![Len(conds)] =
            [c EXCEPT !.active = on, !.taken = c.taken \/ on, !.seen_else = isElse]]

CondElif(conds, value) == Branch(conds, value, FALSE)
CondElse(conds) == Branch(conds, TRUE, TRUE)
CondPop(conds) == SubSeq(conds, 1, Len(conds) - 1)

CanBranch(conds) == conds # <<>> /\ ~conds[Len(conds)].seen_else
-----------------------------------------------------------------------------
(* A group is the conditions of its branches so far, that of #else TRUE.   *)
(* The branch we are in is the one to compile when it is the first that    *)
(* holds, and a line is compiled when that is so of every group around it. *)

FirstTrue(group) == group[Len(group)] /\ \A i \in 1..(Len(group) - 1) : ~group[i]
AllFirstTrue(groups) == \A k \in 1..Len(groups) : FirstTrue(groups[k])

OpenGroup(groups, value) == Append(groups, <<value>>)
NextBranch(groups, value) ==
    [groups EXCEPT ![Len(groups)] = Append(groups[Len(groups)], value)]
CloseGroup(groups) == SubSeq(groups, 1, Len(groups) - 1)

ActiveIsFirstTrue(conds, groups) ==
    Len(conds) = Len(groups) /\ (CondActive(conds) <=> AllFirstTrue(groups))
=============================================================================
