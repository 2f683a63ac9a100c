----------------------------- MODULE MCLibrary -----------------------------
(***************************************************************************)
(* Algorithms of the C library.  In theme "room" every sound directory of  *)
(* three entries on a card of four words, and some that no call wrote, with*)
(* every size and every skipped entry; in theme "text" one and two         *)
(* directives, words of nine bits; in theme "date" every day of three      *)
(* years; in theme "line" lines of up to seven characters on a screen of   *)
(* two rows of three.                                                      *)
(***************************************************************************)
EXTENDS V32FindRoom, Libc

VARIABLE theme

MCEntries(starts, sizes) ==
  [Entries -> [name : Names \cup {NoName}, start : starts, size : sizes]]
MCSearchDirs ==
  {d \in MCEntries(0 .. CardWords, 0 .. CardWords - DataStart) : Sound(d)}
    \cup MCEntries({-2, 2, 5}, {2, 5})

MCDirective(conv, flags, width, precision, modifier, arg) ==
  <<"directive", [conv |-> conv, flags |-> flags, width |-> width, precision |-> precision,
                  modifier |-> modifier, arg |-> arg]>>

MCValues == {-256, -255, -100, -17, -1, 0, 7, 9, 10, 15, 16, 99, 255}
MCFlags == {<<>>, <<45>>, <<48>>, <<45, 48>>, <<48, 45>>, <<43, 48>>}
MCWidths == {Absent} \cup {<<"digits", n>> : n \in {1, 3, 4, 6, 12}} \cup {<<"star", n>> : n \in {0, 4, -6}}
MCPrecisions == {Absent, <<"digits", 0>>, <<"digits", 1>>, <<"star", 2>>, <<"star", -1>>, <<"digits", 9>>}

MCNumbers ==
  {MCDirective(c, f, w, p, m, v) :
     c \in {100, 120}, f \in MCFlags, w \in MCWidths, p \in {Absent, <<"star", 1>>}, m \in {<<>>, <<108>>}, v \in MCValues}
MCTexts ==
  {MCDirective(115, f, w, p, <<>>, v) :
     f \in {<<>>, <<45>>}, w \in MCWidths, p \in MCPrecisions \ {<<"digits", 0>>}, v \in {<<97>>, <<97, 98, 99>>}}
  \cup {MCDirective(99, f, w, Absent, <<>>, 97) : f \in {<<>>, <<45>>}, w \in MCWidths}
MCSome ==
  {MCDirective(c, f, w, Absent, <<>>, v) :
     c \in {105, 120, 117}, f \in {<<>>, <<45>>, <<48>>}, w \in {Absent, <<"digits", 4>>, <<"star", 5>>}, v \in {-17, 0, 16}}
  \cup {MCDirective(115, <<>>, w, p, <<>>, <<97, 98, 99>>) : w \in {Absent, <<"star", 5>>}, p \in {Absent, <<"star", 2>>}}
MCFormats ==
  {<<d>> : d \in MCNumbers \cup MCTexts}
  \cup {<<d, <<"char", Space>>, e>> : d \in MCSome, e \in MCSome}

MCPrompts == {<<>>, <<63>>, <<63, 32, 62>>}

MCInit ==
  /\ theme \in {"room", "text", "date", "line"}
  /\ LibcInit
  /\ theme # "line" => line = NewLine(1, <<>>, 0)
  /\ IF theme = "room" THEN Init
     ELSE /\ dir = [e \in Entries |-> FreeEntry] /\ size = 0 /\ skip = 1
          /\ start = DataStart /\ i = 1 /\ moved = FALSE /\ result = DataStart
MCNext ==
  /\ UNCHANGED theme
  /\ \/ theme = "room" /\ Next /\ UNCHANGED libcVars
     \/ theme = "text" /\ SayAny /\ UNCHANGED vars
     \/ theme = "date" /\ AskAnyDate /\ UNCHANGED vars
     \/ theme = "line" /\ TypeAny /\ UNCHANGED vars
MCSpec == MCInit /\ [][MCNext]_<<vars, libcVars, theme>> /\ WF_vars(Next)
=============================================================================
