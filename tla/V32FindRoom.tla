---------------------------- MODULE V32FindRoom ----------------------------
(***************************************************************************)
(* The search for free space on the memory card: v32file_find_room of      *)
(* libc/v32file.c, one action per step of its do/while loop.               *)
(*                                                                         *)
(* A call is given the size of the file to store and the directory entry   *)
(* that is about to be rewritten (its own room counts as free).  The       *)
(* candidate position only ever moves up, to the end of an entry it        *)
(* collides with; the scan is repeated until a whole pass moves nothing.   *)
(***************************************************************************)
EXTENDS V32Card

CONSTANT SearchDirs  \* the directories to search: sound or not

ASSUME SearchAssumption == SearchDirs \subseteq Directories

VARIABLES
  dir,     \* v32file_dir, fixed during a call
  size,    \* the argument: words to store
  skip,    \* the argument: the entry whose own room is not counted
  start,   \* the candidate position
  i,       \* the loop index
  moved,   \* whether this pass moved the candidate
  result   \* what the call returned, Searching before that

vars == <<dir, size, skip, start, i, moved, result>>

Searching == -2

Init ==
  /\ dir \in SearchDirs
  /\ size \in 0 .. MaxSize
  /\ skip \in Entries
  /\ start = DataStart
  /\ i = 1
  /\ moved = FALSE
  /\ result = Searching

(* Mutants of the search, for the runs that show its properties can fail. *)
Scan(collides, to, m) ==
  /\ result = Searching
  /\ i <= MaxFiles
  /\ i' = i + 1
  /\ IF i # skip /\ collides THEN start' = to /\ moved' = m ELSE UNCHANGED <<start, moved>>
  /\ UNCHANGED <<dir, size, skip, result>>

Past(e) == e.start + e.size

(* ... an entry that ends where the file would begin counts as in the way *)
ScanEntry_Stuck ==
  Scan(Occupies(dir[i]) /\ start <= Past(dir[i]) /\ dir[i].start < start + size,
       Past(dir[i]), TRUE)

(* ... the last word of the card is never used *)
Return_LastWord ==
  /\ result = Searching
  /\ i = MaxFiles + 1
  /\ ~moved
  /\ result' = IF start + size >= CardWords THEN NoRoom ELSE start
  /\ UNCHANGED <<dir, size, skip, start, i, moved>>

(* One iteration of the for loop over the directory. *)
ScanEntry ==
  /\ result = Searching
  /\ i <= MaxFiles
  /\ i' = i + 1
  /\ IF i # skip /\ Collides(dir[i], start, size)
       THEN start' = dir[i].start + dir[i].size /\ moved' = TRUE
       ELSE UNCHANGED <<start, moved>>
  /\ UNCHANGED <<dir, size, skip, result>>

(* The while condition: another pass if this one moved the candidate. *)
NextPass ==
  /\ result = Searching
  /\ i = MaxFiles + 1
  /\ moved
  /\ i' = 1
  /\ moved' = FALSE
  /\ UNCHANGED <<dir, size, skip, start, result>>

(* A pass moved nothing: the candidate is free, if it ends on the card. *)
Return ==
  /\ result = Searching
  /\ i = MaxFiles + 1
  /\ ~moved
  /\ result' = IF start + size > CardWords THEN NoRoom ELSE start
  /\ UNCHANGED <<dir, size, skip, start, i, moved>>

Next == ScanEntry \/ NextPass \/ Return

Spec == Init /\ [][Next]_vars /\ WF_vars(Next)

----------------------------------------------------------------------------
(* The candidate position never falls below the data area, and the index   *)
(* stays within the directory (v32file_find_room).                         *)
TypeOK ==
  /\ dir \in Directories
  /\ size \in 0 .. MaxSize
  /\ skip \in Entries
  /\ start \in Nat /\ start >= DataStart
  /\ i \in 1 .. MaxFiles + 1
  /\ moved \in BOOLEAN
  /\ result \in Nat \cup {NoRoom, Searching}

(* Nothing below the candidate fits: the loop never skips over a gap that  *)
(* is large enough, however the entries are ordered in the directory.      *)
NoGapSkipped ==
  \A s \in DataStart .. start - 1 : ~Free(dir, skip, s, size)

(* In a pass that has moved nothing, every entry scanned so far is clear   *)
(* of the candidate: this is why a pass without a move ends the search.    *)
PassClear ==
  ~moved => \A k \in 1 .. i - 1 :
              k = skip \/ ~Collides(dir[k], start, size)

(* What the call returns is the first fit of the abstract definition the   *)
(* rest of the file system is specified with, and it says "nowhere" only   *)
(* when no position on the card is free.                                   *)
FindsFirstFit ==
  result # Searching => result = FirstFit(dir, skip, size)

(* The inductive invariant. *)
IInv == TypeOK /\ NoGapSkipped /\ PassClear /\ FindsFirstFit

(* The search ends, whatever the directory holds. *)
Terminates == <>(result # Searching)
=============================================================================
