------------------------------ MODULE V32File ------------------------------
(***************************************************************************)
(* libc/v32file.c: stdio on a Vircon32 memory card.  One action per call a *)
(* program can make; the hardware adds the player changing cards and the   *)
(* power going off, also in the middle of a save or of a format.           *)
(*                                                                         *)
(* A call is one step: the console runs nothing else meanwhile.  Inside it *)
(* the card is written in the code's order (data, then directory), which   *)
(* is what the PowerOffIn... actions cut short.                            *)
(***************************************************************************)
EXTENDS V32Card, Sequences

CONSTANTS
  Words,      \* the values of one word of a file
  Cards,      \* the memory cards the player owns
  NoCard,     \* an empty card slot
  MaxOpen,    \* V32FILE_MAX_OPEN
  Modes,      \* the fopen modes programs use, from AllModes
  Kinds,      \* what the cards hold when the game starts
  OldDirs,    \* what the words of a card in another format are, read as a
              \* directory: anything
  AllocFails, \* whether realloc may return NULL
  Absent,     \* in the abstract store: no file of that name
  Closed      \* in the abstract store: a handle that is not open

AllModes == {"r", "w", "a", "r+", "w+", "a+"}

ASSUME FileAssumption ==
  /\ MaxOpen \in Nat \ {0}
  /\ NoCard \notin Cards
  /\ Modes \subseteq AllModes
  /\ Kinds \subseteq {"blank", "stale", "foreign"}
  /\ OldDirs \subseteq Directories
  /\ AllocFails \in BOOLEAN
  /\ Words # {}
  /\ Absent \notin Seq(Words)
  /\ Closed \notin [name : Names, data : Seq(Words)]

VARIABLES
  cards,  \* [Cards -> kind of header, directory words, data words]
  slot,   \* the card in the console, or NoCard
  ram,    \* v32file_dir, the copy of the directory in RAM
  pool,   \* v32file_pool, the open files
  last    \* the last call whose result a property speaks of

vars == <<cards, slot, ram, pool, last>>

Handles == 1 .. MaxOpen

DataArea == DataStart .. CardWords - 1

(* The first 22 words of a card.  "stale": this program's signature over   *)
(* another magic number or version.  "halfway": signature, magic number    *)
(* and version, but a directory that no v32file_format ever wrote; the     *)
(* code cannot tell it from "ready".                                       *)
CardKinds == {"blank", "stale", "foreign", "halfway", "ready"}

Card == [kind : CardKinds, dir : Directories, data : [DataArea -> Words]]

EmptyDir == [k \in Entries |-> FreeEntry]

File == [open : BOOLEAN, readable : BOOLEAN, writable : BOOLEAN,
         dirty : BOOLEAN, error : BOOLEAN, eof : BOOLEAN,
         pos : Nat, data : Seq(Words), name : Names \cup {NoName}]

(* The fields of a closed FILE are dead: fopen clears the whole struct.    *)
ClosedFile == [open |-> FALSE, readable |-> FALSE, writable |-> FALSE,
               dirty |-> FALSE, error |-> FALSE, eof |-> FALSE,
               pos |-> 0, data |-> <<>>, name |-> NoName]

ClosedPool == [h \in Handles |-> ClosedFile]

Other == [call |-> "other", result |-> 0]

EOF == -1

(* A card fresh from the shop is all zeroes; one in another format holds   *)
(* whatever its game left there.                                           *)
FirstCards ==
  [kind : Kinds \cap {"blank"}, dir : {EmptyDir}, data : [DataArea -> Words]]
    \cup [kind : Kinds \ {"blank"}, dir : OldDirs, data : [DataArea -> Words]]

Init ==
  /\ cards \in [Cards -> FirstCards]
  /\ slot \in Cards \cup {NoCard}
  /\ ram = EmptyDir
  /\ pool = ClosedPool
  /\ last = Other

----------------------------------------------------------------------------
(* Reading the card                                                        *)

(* What v32file_card answers. *)
CardState ==
  IF slot = NoCard THEN "no_card"
  ELSE IF cards[slot].kind = "stale" THEN "blank"
  ELSE IF cards[slot].kind = "halfway" THEN "ready"
  ELSE cards[slot].kind

(* Mutant: the copy in RAM is trusted to be the card's. *)
LoadedDir_Cached == ram

(* The directory in RAM after v32file_card: only a ready card is read.     *)
LoadedDir == IF CardState = "ready" THEN cards[slot].dir ELSE ram

(* v32file_lookup: the first entry of that name, 0 if there is none.       *)
Lookup(d, n) ==
  LET named == {k \in Entries : d[k].name = n}
  IN  IF n = NoName \/ named = {} THEN 0
      ELSE CHOOSE k \in named : \A j \in named : k <= j

FirstUnused(d) ==
  LET unused == {k \in Entries : d[k].name = NoName}
  IN  IF unused = {} THEN 0 ELSE CHOOSE k \in unused : \A j \in unused : k <= j

----------------------------------------------------------------------------
(* Writing the card                                                        *)

(* Mutant: any card that is connected may be written. *)
CanWrite_AnyCard == slot # NoCard

(* v32file_writable_card: a ready card, or a blank one, formatted.         *)
CanWrite == CardState \in {"ready", "blank"}

WritableDir == IF CardState = "blank" THEN EmptyDir ELSE LoadedDir

Formatted(card) == [card EXCEPT !.kind = "ready", !.dir = EmptyDir]

(* The card after v32file_writable_card, given that it answers 1.          *)
WritableCard ==
  IF CardState = "blank" THEN Formatted(cards[slot]) ELSE cards[slot]

(* The first m words of f's contents, written at word s of the card.       *)
WriteData(data, s, f, m) ==
  [a \in DataArea |-> IF a \in s .. s + m - 1 THEN f.data[a - s + 1] ELSE data[a]]

(* Mutant: a save takes a free entry though the file has one. *)
SaveEntry_AlwaysUnused(f) == FirstUnused(WritableDir)

(* v32file_commit's choice of an entry (its own, else a free one, else 0)  *)
(* and of a place for the words.                                           *)
SaveEntry(f) ==
  LET own == Lookup(WritableDir, f.name)
  IN  IF own # 0 THEN own ELSE FirstUnused(WritableDir)

SavePlace(f) ==
  IF SaveEntry(f) = 0 THEN NoRoom
  ELSE FirstFit(WritableDir, SaveEntry(f), Len(f.data))

CommitSucceeds(f) == ~f.dirty \/ (CanWrite /\ SavePlace(f) # NoRoom)

SavedDir(f) ==
  [WritableDir EXCEPT ![SaveEntry(f)] =
     [name |-> f.name, start |-> SavePlace(f), size |-> Len(f.data)]]

(* v32file_commit: the cards and the RAM directory after it.  A commit     *)
(* that finds no room has still formatted a blank card.                    *)
CommittedCards(f) ==
  IF ~f.dirty \/ ~CanWrite THEN cards
  ELSE IF SavePlace(f) = NoRoom THEN [cards EXCEPT ![slot] = WritableCard]
  ELSE [cards EXCEPT ![slot] =
          [WritableCard EXCEPT
             !.dir = SavedDir(f),
             !.data = WriteData(cards[slot].data, SavePlace(f), f, Len(f.data))]]

CommittedRam(f) ==
  IF ~f.dirty THEN ram
  ELSE IF ~CanWrite THEN LoadedDir
  ELSE IF SavePlace(f) = NoRoom THEN WritableDir
  ELSE SavedDir(f)

(* Mutant: the change is forgotten though it could not be saved. *)
Committed_AlwaysClean(f) == [f EXCEPT !.dirty = FALSE, !.error = ~CommitSucceeds(f)]

Committed(f) ==
  IF CommitSucceeds(f) THEN [f EXCEPT !.dirty = FALSE] ELSE [f EXCEPT !.error = TRUE]

Commit(h) ==
  /\ cards' = CommittedCards(pool[h])
  /\ ram' = CommittedRam(pool[h])

(* Mutants: the result hides a failure, or counts the words that were saved. *)
CommitResult_Hidden(f) == 0

CommitResult_Words(f) == IF CommitSucceeds(f) THEN Len(f.data) ELSE EOF

CommitResult(f) == IF CommitSucceeds(f) THEN 0 ELSE EOF

----------------------------------------------------------------------------
(* The calls                                                               *)

(* v32file_format, called by a program: any card, whatever it holds.       *)
v32file_format ==
  /\ slot # NoCard
  /\ cards' = [cards EXCEPT ![slot] = Formatted(cards[slot])]
  /\ ram' = EmptyDir
  /\ last' = Other
  /\ UNCHANGED <<slot, pool>>

Reading(m) == m \in {"r", "r+"}

Opened(n, m, data) ==
  [open |-> TRUE,
   readable |-> m \in {"r", "r+", "w+", "a+"},
   writable |-> m # "r",
   dirty |-> FALSE, error |-> FALSE, eof |-> FALSE,
   pos |-> IF m \in {"a", "a+"} THEN Len(data) ELSE 0,
   data |-> data, name |-> n]

(* The words of the file in entry e, which lies in the data area.          *)
FileWords(data, e) == [k \in 1 .. e.size |-> data[e.start + k - 1]]

(* What reading entry e may answer: its words, and anything at all for an  *)
(* entry that reaches beyond the data area.                                *)
FileReads(data, e) ==
  IF InArea(e) THEN {FileWords(data, e)} ELSE [1 .. e.size -> Words]

FreeHandle(h) == ~pool[h].open /\ \A g \in Handles : g < h => pool[g].open

(* "r", "r+" and the existing file of "a": the contents are read in; a     *)
(* blank card is formatted first by the modes that write.                  *)
fopen_existing(n, m) ==
  /\ CardState = "ready" /\ Lookup(LoadedDir, n) # 0
  /\ m \notin {"w", "w+"}
  /\ \E h \in Handles :
       /\ FreeHandle(h)
       /\ \E w \in FileReads(cards[slot].data, LoadedDir[Lookup(LoadedDir, n)]) :
            pool' = [pool EXCEPT ![h] = Opened(n, m, w)]
  /\ ram' = LoadedDir
  /\ last' = Other
  /\ UNCHANGED <<cards, slot>>

(* "w", and "a" without a file: it exists, empty, once closed.             *)
fopen_new(n, m) ==
  /\ ~Reading(m) /\ CanWrite
  /\ m \in {"w", "w+"} \/ CardState = "blank" \/ Lookup(LoadedDir, n) = 0
  /\ \E h \in Handles :
       /\ FreeHandle(h)
       /\ pool' = [pool EXCEPT ![h] = [Opened(n, m, <<>>) EXCEPT !.dirty = TRUE]]
  /\ cards' = [cards EXCEPT ![slot] = WritableCard]
  /\ ram' = WritableDir
  /\ last' = Other
  /\ UNCHANGED slot

(* ENOENT, ENODEV, EACCES: the card does not have the file, or may not be  *)
(* written.                                                                *)
fopen_refused(n, m) ==
  /\ IF Reading(m) THEN CardState # "ready" \/ Lookup(LoadedDir, n) = 0 ELSE ~CanWrite
  /\ ram' = LoadedDir
  /\ last' = Other
  /\ UNCHANGED <<cards, slot, pool>>

(* EMFILE and ENOMEM: refused after the card was made ready to be written. *)
fopen_no_room(n, m) ==
  /\ IF Reading(m) THEN CardState = "ready" /\ Lookup(LoadedDir, n) # 0 ELSE CanWrite
  /\ \/ \A h \in Handles : pool[h].open
     \/ /\ AllocFails
        /\ CardState = "ready" /\ m \notin {"w", "w+"}
        /\ Lookup(LoadedDir, n) # 0 /\ LoadedDir[Lookup(LoadedDir, n)].size > 0
  /\ cards' = IF Reading(m) THEN cards ELSE [cards EXCEPT ![slot] = WritableCard]
  /\ ram' = IF Reading(m) THEN LoadedDir ELSE WritableDir
  /\ last' = Other
  /\ UNCHANGED <<slot, pool>>

v32file_close(h) ==
  /\ pool[h].open
  /\ Commit(h)
  /\ pool' = [pool EXCEPT ![h] = ClosedFile]
  /\ last' = [call |-> "save", result |-> CommitResult(pool[h])]
  /\ UNCHANGED slot

v32file_flush(h) ==
  /\ pool[h].open
  /\ Commit(h)
  /\ pool' = [pool EXCEPT ![h] = Committed(pool[h])]
  /\ last' = [call |-> "save", result |-> CommitResult(pool[h])]
  /\ UNCHANGED slot

rewind(h) ==
  /\ pool[h].open
  /\ Commit(h)
  /\ pool' = [pool EXCEPT ![h] =
                [Committed(pool[h]) EXCEPT !.pos = 0, !.eof = FALSE, !.error = FALSE]]
  /\ last' = Other
  /\ UNCHANGED slot

v32file_getc(h) ==
  /\ pool[h].open /\ pool[h].readable
  /\ pool' = IF pool[h].pos >= Len(pool[h].data)
               THEN [pool EXCEPT ![h].eof = TRUE]
               ELSE [pool EXCEPT ![h].pos = @ + 1]
  /\ last' = Other
  /\ UNCHANGED <<cards, slot, ram>>

(* C division truncates towards zero. *)
Quotient(a, b) == IF a >= 0 THEN a \div b ELSE -((-a) \div b)

(* fread of cnt items of sz words: the words it moves.  Beyond the end of  *)
(* the file (fseek goes there) Left is negative, and so is what it returns.*)
Left(f) == Len(f.data) - f.pos

FreadWords(f, sz, cnt) ==
  IF sz * cnt > Left(f) THEN Quotient(Left(f), sz) * sz ELSE sz * cnt

fread(h, sz, cnt) ==
  LET f     == pool[h]
      words == FreadWords(f, sz, cnt)
  IN  /\ f.open /\ f.readable
      /\ pool' = [pool EXCEPT ![h] =
                    [f EXCEPT !.eof = f.eof \/ sz * cnt > Left(f),
                              !.pos = IF words > 0 THEN f.pos + words ELSE f.pos]]
      /\ last' = Other
      /\ UNCHANGED <<cards, slot, ram>>

(* The file's buffer with ws stored at its position.  The words between an *)
(* end of file and a position beyond it are whatever realloc returned.     *)
Stored(f, ws, gap) ==
  LET end == f.pos + Len(ws)
      len == IF end > Len(f.data) THEN end ELSE Len(f.data)
  IN  [f EXCEPT
         !.data = [k \in 1 .. len |->
                     IF k \in f.pos + 1 .. end THEN ws[k - f.pos]
                     ELSE IF k <= Len(f.data) THEN f.data[k] ELSE gap[k]],
         !.pos = end,
         !.dirty = TRUE]

WriteWords(h, ws) ==
  /\ pool[h].open /\ pool[h].writable
  /\ pool[h].pos + Len(ws) <= MaxSize
  /\ \E gap \in [Len(pool[h].data) + 1 .. pool[h].pos -> Words] :
       pool' = [pool EXCEPT ![h] = Stored(pool[h], ws, gap)]
  /\ last' = Other
  /\ UNCHANGED <<cards, slot, ram>>

v32file_putc(h, w) == WriteWords(h, <<w>>)

fwrite(h, ws) == WriteWords(h, ws)

(* v32file_reserve: a buffer that has to grow and cannot; putc, fwrite and *)
(* fseek then change nothing else.                                         *)
ReserveFails(h) ==
  /\ AllocFails
  /\ pool[h].open
  /\ pool' = [pool EXCEPT ![h].error = TRUE]
  /\ last' = Other
  /\ UNCHANGED <<cards, slot, ram>>

(* Any position a whence and an offset can name, at most MaxSize.          *)
fseek(h, p) ==
  /\ pool[h].open
  /\ p \in 0 .. MaxSize
  /\ pool' = [pool EXCEPT ![h] = [pool[h] EXCEPT !.pos = p, !.eof = FALSE]]
  /\ last' = Other
  /\ UNCHANGED <<cards, slot, ram>>

(* The directory d becomes the card's, in RAM and on the card.             *)
WriteDir(d) ==
  /\ cards' = [cards EXCEPT ![slot].dir = d]
  /\ ram' = d

(* Mutant: the words of the file are freed and its entry is not. *)
Removed_KeepsName(d, k) == [d EXCEPT ![k].size = 0]

(* Freed: the name and the size are zeroed, the start stays. *)
Removed(d, k) == [d EXCEPT ![k] = [name |-> NoName, start |-> @.start, size |-> 0]]

remove(n) ==
  /\ LET k == Lookup(LoadedDir, n)
     IN  IF CardState = "ready" /\ k # 0
           THEN WriteDir(Removed(LoadedDir, k))
           ELSE ram' = LoadedDir /\ UNCHANGED cards
  /\ last' = Other
  /\ UNCHANGED <<slot, pool>>

(* The entry of the new name, if there is one, is freed; the new name may  *)
(* be empty, and then so is the entry.                                     *)
Renamed(d, k, new) ==
  LET j == Lookup(d, new)
      freed == IF j # 0 /\ j # k THEN [d EXCEPT ![j].name = NoName] ELSE d
  IN  [freed EXCEPT ![k].name = new]

rename(old, new) ==
  /\ LET k == Lookup(LoadedDir, old)
     IN  IF CardState = "ready" /\ k # 0
           THEN WriteDir(Renamed(LoadedDir, k, new))
           ELSE ram' = LoadedDir /\ UNCHANGED cards
  /\ last' = Other
  /\ UNCHANGED <<slot, pool>>

----------------------------------------------------------------------------
(* The hardware                                                            *)

InsertCard(c) ==
  /\ slot' = c
  /\ UNCHANGED <<cards, ram, pool, last>>

EjectCard ==
  /\ slot' = NoCard
  /\ UNCHANGED <<cards, ram, pool, last>>

LoseRam ==
  /\ ram' = EmptyDir
  /\ pool' = ClosedPool
  /\ last' = Other
  /\ UNCHANGED slot

PowerOff == LoseRam /\ UNCHANGED cards

(* In v32file_commit, after m words of data and before the directory.      *)
PowerOffInCommit(h, m) ==
  /\ pool[h].open /\ pool[h].dirty /\ CommitSucceeds(pool[h])
  /\ m <= Len(pool[h].data)
  /\ cards' = [cards EXCEPT ![slot] =
                 [WritableCard EXCEPT
                    !.data = WriteData(cards[slot].data, SavePlace(pool[h]), pool[h], m)]]
  /\ LoseRam

(* What a header written over the words of a card makes of it: they are    *)
(* the card's directory from then on.                                      *)
HeaderKind(card) ==
  IF card.kind \in {"ready", "halfway"} THEN card.kind
  ELSE IF card.dir = EmptyDir THEN "ready" ELSE "halfway"

(* In v32file_format: the signature alone is written, or the signature and *)
(* the header but not the directory.                                       *)
PowerOffInFormat ==
  /\ slot # NoCard
  /\ \/ /\ cards[slot].kind \notin {"ready", "halfway"}
        /\ cards' = [cards EXCEPT ![slot].kind = "stale"]
     \/ cards' = [cards EXCEPT ![slot].kind = HeaderKind(cards[slot])]
  /\ LoseRam

Next ==
  \/ v32file_format
  \/ \E n \in Names, m \in Modes :
       fopen_existing(n, m) \/ fopen_new(n, m) \/ fopen_refused(n, m) \/ fopen_no_room(n, m)
  \/ \E h \in Handles :
       \/ v32file_close(h) \/ v32file_flush(h) \/ rewind(h)
       \/ v32file_getc(h) \/ ReserveFails(h)
       \/ \E w \in Words : v32file_putc(h, w)
       \/ \E w, x \in Words : fwrite(h, <<w, x>>)
       \/ \E sz, cnt \in 1 .. 2 : fread(h, sz, cnt)
       \/ \E p \in 0 .. MaxSize : fseek(h, p)
  \/ \E n \in Names : remove(n) \/ \E b \in Names \cup {NoName} : rename(n, b)
  \/ \E c \in Cards : InsertCard(c)
  \/ EjectCard
  \/ PowerOff
  \/ \E h \in Handles, m \in 0 .. CardWords - DataStart : PowerOffInCommit(h, m)
  \/ PowerOffInFormat

Spec == Init /\ [][Next]_vars

----------------------------------------------------------------------------
(* Properties                                                              *)

(* Cards, the directory in RAM and the open files keep their types: no     *)
(* call stores a place or a size beyond the card (v32file.c).              *)
TypeOK ==
  /\ cards \in [Cards -> Card]
  /\ slot \in Cards \cup {NoCard}
  /\ ram \in Directories
  /\ pool \in [Handles -> File]
  /\ last \in [call : {"other", "save"}, result : {0, EOF}]

UniqueNames(d) ==
  \A j, k \in Entries : j # k /\ d[j].name # NoName => d[j].name # d[k].name

(* On every card with a directory of this code's, whatever was saved,      *)
(* removed, renamed, interrupted or swapped since: the files lie in the    *)
(* data area, no two share a word, and no two have the same name           *)
(* (v32file_find_room, v32file_commit, remove, rename).  Nothing is said   *)
(* of a card whose first format was cut short after the header and showed  *)
(* the words of another format as files.                                   *)
DirectoriesSound ==
  \A c \in Cards : cards[c].kind = "ready" =>
    Sound(cards[c].dir) /\ UniqueNames(cards[c].dir)

(* What a card holds under each name, and what the program holds open.     *)
FileOn(card, n) ==
  LET k == Lookup(card.dir, n)
  IN  IF card.kind \in {"ready", "halfway"} /\ k # 0 /\ InArea(card.dir[k])
        THEN FileWords(card.data, card.dir[k])
        ELSE Absent

Files == [c \in Cards |-> [n \in Names |-> FileOn(cards[c], n)]]

(* The files a card keeps: none of those that an interrupted format showed.*)
Kept(card, n) == IF card.kind = "ready" THEN FileOn(card, n) ELSE Absent

KeptFiles == [c \in Cards |-> [n \in Names |-> Kept(cards[c], n)]]

Spoiled == {c \in Cards : cards[c].kind = "halfway"}

Copies ==
  [h \in Handles |->
     IF pool[h].open THEN [name |-> pool[h].name, data |-> pool[h].data] ELSE Closed]

Store == INSTANCE FileStore WITH files <- KeptFiles, copies <- Copies, spoiled <- Spoiled

(* The file system implements the abstract store: every call, on any card, *)
(* touches only the file it names, a save stores exactly the words held    *)
(* open, a power cut in the middle of one spoils at most that file, and    *)
(* one in the middle of a format at most a card that held no file.         *)
ImplementsStore == Store!Spec

(* Another game's card is changed by nothing but the program's own call of *)
(* v32file_format: not by fopen, a late fclose or a swap of cards          *)
(* ("A card that is missing, or that belongs to another game is never      *)
(* written", libc/v32file.c:28).                                           *)
ForeignNeverWritten ==
  [][v32file_format \/ PowerOffInFormat
     \/ \A c \in Cards : cards[c].kind = "foreign" => cards'[c] = cards[c]]_vars

(* A handle loses its dirty flag only when the card in the slot holds its  *)
(* words: a flush or rewind that fails (no card, another game's, no room)  *)
(* leaves the change to be saved by a later call.                          *)
CleanMeansSaved ==
  [][\A h \in Handles :
       /\ pool[h].open /\ pool[h].dirty
       /\ pool'[h].open /\ ~pool'[h].dirty
       => slot # NoCard /\ Files'[slot][pool[h].name] = pool[h].data]_vars

(* fclose and fflush tell the truth: 0 means the words are on the card,    *)
(* EOF that no file on any card has changed, though space was searched and *)
(* a blank card may have been formatted.                                   *)
SaveTellsTheTruth ==
  [][\A h \in Handles :
       pool[h].open /\ pool[h].dirty /\ pool'[h] # pool[h] /\ last'.call = "save"
       => IF last'.result = 0
            THEN slot # NoCard /\ Files'[slot][pool[h].name] = pool[h].data
            ELSE Files' = Files]_vars
=============================================================================
