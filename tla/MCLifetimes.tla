---------------------------- MODULE MCLifetimes ----------------------------
(***************************************************************************)
(* Questions of one subject, by theme.  "bodies": every function body of   *)
(* at most MaxLocals destructible locals, nested at most MaxFrames deep,   *)
(* and every path through it.  "objects": programs of two or three         *)
(* classes, and the life of one object of the last class.  "vectors" and   *)
(* "strings": what a program does with two vectors, or with a string.      *)
(***************************************************************************)
EXTENDS DestructScope, ObjectLife, Vector, StdString

VARIABLE theme

Family(classes, fields, shapes, storages) ==
  [classes |-> classes, fields |-> fields, shapes |-> shapes, storages |-> storages]

(* Three classes, each with a base and a member; and two classes with the  *)
(* members and objects declared in every way the compiler treats alike.    *)
MCFamilies ==
  {Family(3, 1, {"value", "array"}, {"array", "new"}),
   Family(2, 2, {"value", "const", "array", "const array", "pointer"},
          {"value", "array", "typedef", "pointer", "new", "global"})}

ASSUME MCAlikeAssumption == TreatedAlike

MCInit ==
  /\ ScopeInit /\ LifeInit /\ VectorInit /\ StringInit
  /\ theme \in {"bodies", "objects", "vectors", "strings"}
  /\ theme # "objects" => family.classes = 3
MCNext ==
  /\ UNCHANGED theme
  /\ \/ theme = "bodies" /\ ScopeNext /\ UNCHANGED <<lifeVars, vectorVars, str>>
     \/ theme = "objects" /\ LifeNext /\ UNCHANGED <<scopeVars, vectorVars, str>>
     \/ theme = "vectors" /\ VectorNext /\ UNCHANGED <<scopeVars, lifeVars, str>>
     \/ theme = "strings" /\ StringNext /\ UNCHANGED <<scopeVars, lifeVars, vectorVars>>
MCSpec == MCInit /\ [][MCNext]_<<scopeVars, lifeVars, vectorVars, str, theme>>
=============================================================================
