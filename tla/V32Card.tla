------------------------------ MODULE V32Card ------------------------------
(***************************************************************************)
(* The layout of the memory card that libc/v32file.c keeps its files on:   *)
(* a directory of MaxFiles entries, each a name, a start and a size, and   *)
(* the files, each one contiguous run of words between DataStart and       *)
(* CardWords.  Constant-level: the state is in the modules that extend it. *)
(***************************************************************************)
EXTENDS Integers, FiniteSets

CONSTANTS
  Names,      \* the file names programs use
  NoName,     \* name[0] = 0: a free directory entry
  MaxFiles,   \* V32FILE_MAX_FILES
  DataStart,  \* V32FILE_DATA_START, the first word a file can occupy
  CardWords,  \* V32FILE_CARD_WORDS, the first word beyond the card
  MaxSize     \* bound: the largest file a program holds open

ASSUME LayoutAssumption ==
  /\ NoName \notin Names
  /\ MaxFiles \in Nat \ {0}
  /\ DataStart \in Nat
  /\ CardWords \in Nat
  /\ DataStart < CardWords
  /\ MaxSize \in Nat

NoRoom == -1

Entries == 1 .. MaxFiles

(* The words of an entry.  This code writes places on the card; what lies  *)
(* on a card in another format may name any place and any length from 0 up.*)
Entry == [name : Names \cup {NoName}, start : Int, size : Nat]

Directories == [Entries -> Entry]

FreeEntry == [name |-> NoName, start |-> 0, size |-> 0]

(* v32file_find_room's "continue": a free entry and an empty file hold no  *)
(* words of the card.                                                      *)
Occupies(e) == e.name # NoName /\ e.size # 0

(* A directory as this code writes them: live entries lie in the data area *)
(* and do not share a word.                                                *)
Overlap(e, f) ==
  /\ Occupies(e)
  /\ Occupies(f)
  /\ e.start < f.start + f.size
  /\ f.start < e.start + e.size

InArea(e) == Occupies(e) => DataStart <= e.start /\ e.start + e.size <= CardWords

Sound(d) ==
  /\ \A k \in Entries : InArea(d[k])
  /\ \A j, k \in Entries : j # k => ~Overlap(d[j], d[k])

(* The overlap test of v32file_find_room for a file of n words at s. *)
Collides(e, s, n) ==
  /\ Occupies(e)
  /\ s < e.start + e.size
  /\ e.start < s + n

(* n words at s are clear of every entry but k. *)
Clear(d, k, s, n) == \A j \in Entries : j = k \/ ~Collides(d[j], s, n)

Free(d, k, s, n) == s + n <= CardWords /\ Clear(d, k, s, n)

(* The lowest free position, NoRoom if there is none. *)
FirstFit(d, k, n) ==
  LET fits == {s \in DataStart .. CardWords : Free(d, k, s, n)}
  IN  IF fits = {} THEN NoRoom
      ELSE CHOOSE s \in fits : \A t \in fits : s <= t
=============================================================================
