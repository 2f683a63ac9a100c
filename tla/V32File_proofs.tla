--------------------------- MODULE V32File_proofs ---------------------------
(***************************************************************************)
(* The memory card, for every number of cards, files, handles and words    *)
(* and every sequence of calls, swaps and power cuts: its directory stays  *)
(* sound, other games' cards are left alone, a save says what it did, and  *)
(* the whole implements the store of named files in FileStore.             *)
(***************************************************************************)
EXTENDS V32File, WellFoundedInduction, TLAPS

DirOK(d) == d \in Directories /\ Sound(d) /\ UniqueNames(d)

CardOK(x) == x \in Card /\ (x.kind = "ready" => DirOK(x.dir))

CardsOK(cs) == cs \in [Cards -> Card] /\ \A c \in Cards : CardOK(cs[c])

(* The inductive invariant: a card with a directory of this code's has a   *)
(* sound one.  Nothing is asked of the words on any other card, nor of     *)
(* those that an interrupted format shows as a directory.                  *)
IInv == TypeOK /\ CardsOK(cards)

----------------------------------------------------------------------------
(* The operators the calls are built from                                  *)

(* A nonempty set of natural numbers has a least element. *)
LEMMA LeastElement ==
  ASSUME NEW T \in SUBSET Nat, T # {}
  PROVE  \E m \in T : \A k \in T : m <= k
<1> DEFINE R == OpToRel(<, Nat)
<1>1. IsWellFoundedOn(R, Nat)
  BY NatLessThanWellFounded
<1> HIDE DEF R
<1>2. PICK m \in T : \A k \in T : ~(<<k, m>> \in R)
  BY <1>1, WFMin
<1>3. \A k \in T : ~(k < m)
  BY <1>2 DEF R, OpToRel
<1> QED
  BY <1>3

(* FirstFit answers NoRoom or a place where n words are free. *)
LEMMA FirstFitSpec ==
  ASSUME NEW d, NEW k, NEW n, FirstFit(d, k, n) # NoRoom
  PROVE  FirstFit(d, k, n) \in DataStart .. CardWords /\ Free(d, k, FirstFit(d, k, n), n)
<1> DEFINE fits == {s \in DataStart .. CardWords : Free(d, k, s, n)}
<1>1. fits # {} /\ FirstFit(d, k, n) = CHOOSE s \in fits : \A t \in fits : s <= t
  BY DEF FirstFit
<1>2. fits \in SUBSET Nat
  BY LayoutAssumption DEF LayoutAssumption
<1> HIDE DEF fits
<1>3. \E s \in fits : \A t \in fits : s <= t
  BY <1>1, <1>2, LeastElement
<1>4. FirstFit(d, k, n) \in fits
  BY <1>1, <1>3
<1> QED
  BY <1>4 DEF fits

(* Lookup answers 0, if there is no entry of that name, or the first one.  *)
LEMMA LookupSpec ==
  ASSUME NEW d, NEW n
  PROVE  \/ Lookup(d, n) = 0 /\ (n = NoName \/ \A k \in Entries : d[k].name # n)
         \/ /\ Lookup(d, n) \in Entries /\ d[Lookup(d, n)].name = n /\ n # NoName
            /\ \A j \in Entries : d[j].name = n => Lookup(d, n) <= j
<1> DEFINE named == {k \in Entries : d[k].name = n}
<1>1. CASE n = NoName \/ named = {}
  BY <1>1 DEF Lookup
<1>2. CASE n # NoName /\ named # {}
  <2>1. Lookup(d, n) = CHOOSE k \in named : \A j \in named : k <= j
    BY <1>2 DEF Lookup
  <2>2. named \in SUBSET Nat
    BY LayoutAssumption DEF LayoutAssumption, Entries
  <2> HIDE DEF named
  <2>3. Lookup(d, n) \in named /\ \A j \in named : Lookup(d, n) <= j
    BY <1>2, <2>1, <2>2, LeastElement
  <2> QED
    BY <1>2, <2>3 DEF named
<1> QED
  BY <1>1, <1>2

(* FirstUnused answers 0 or a free entry.                                  *)
LEMMA FirstUnusedSpec ==
  ASSUME NEW d, FirstUnused(d) # 0
  PROVE  FirstUnused(d) \in Entries /\ d[FirstUnused(d)].name = NoName
<1> DEFINE unused == {k \in Entries : d[k].name = NoName}
<1>1. unused # {} /\ FirstUnused(d) = CHOOSE k \in unused : \A j \in unused : k <= j
  BY DEF FirstUnused
<1>2. unused \in SUBSET Nat
  BY LayoutAssumption DEF LayoutAssumption, Entries
<1> HIDE DEF unused
<1>3. FirstUnused(d) \in unused
  BY <1>1, <1>2, LeastElement
<1> QED
  BY <1>3 DEF unused

----------------------------------------------------------------------------
(* What the calls do to a directory                                        *)

(* A formatted card has a sound directory.                                 *)
LEMMA EmptyDirOK == DirOK(EmptyDir)
BY LayoutAssumption
DEF LayoutAssumption, DirOK, EmptyDir, FreeEntry, Directories, Entry, Entries,
    Sound, InArea, Overlap, Occupies, UniqueNames

(* Storing n words, under a name no other entry has, where they are free.  *)
LEMMA StoreEntryOK ==
  ASSUME NEW d, DirOK(d), NEW k \in Entries, NEW nm \in Names \cup {NoName},
         NEW n \in Nat, NEW s \in DataStart .. CardWords, Free(d, k, s, n),
         \A j \in Entries : j # k => d[j].name # nm \/ nm = NoName
  PROVE  DirOK([d EXCEPT ![k] = [name |-> nm, start |-> s, size |-> n]])
<1> USE LayoutAssumption DEF LayoutAssumption
<1> DEFINE e == [name |-> nm, start |-> s, size |-> n]
           d2 == [d EXCEPT ![k] = e]
<1>0. d \in [Entries -> Entry]
  BY DEF DirOK, Directories
<1>1. e \in Entry
  BY DEF Free, Entry
<1>2. d2 \in Directories
  BY <1>0, <1>1 DEF Directories
<1>3. d2[k] = e /\ \A j \in Entries : j # k => d2[j] = d[j]
  BY <1>0
<1>4. InArea(e)
  BY DEF InArea, Free
<1>5. \A j \in Entries : j # k => ~Overlap(d[j], e) /\ ~Overlap(e, d[j])
  BY DEF Overlap, Free, Clear, Collides
<1> HIDE DEF d2
<1>6. Sound(d2)
  BY <1>3, <1>4, <1>5 DEF Sound, DirOK
<1>7. UniqueNames(d2)
  <2> HIDE DEF e
  <2>1. e.name = nm
    BY DEF e
  <2> QED
    BY <1>3, <2>1 DEF UniqueNames, DirOK
<1> QED
  BY <1>2, <1>6, <1>7 DEF DirOK, d2

(* Freeing an entry keeps a directory sound.                               *)
LEMMA RemovedOK ==
  ASSUME NEW d, DirOK(d), NEW k \in Entries
  PROVE  DirOK(Removed(d, k))
<1> USE LayoutAssumption DEF LayoutAssumption
<1> DEFINE e == [name |-> NoName, start |-> d[k].start, size |-> 0]
           d2 == [d EXCEPT ![k] = e]
<1>0. d \in [Entries -> Entry] /\ Removed(d, k) = d2
  BY DEF DirOK, Directories, Removed
<1>1. d2 \in Directories
  BY <1>0 DEF Directories, Entry
<1>2. d2[k].name = NoName /\ \A j \in Entries : j # k => d2[j] = d[j]
  BY <1>0
<1> HIDE DEF d2
<1>3. Sound(d2)
  BY <1>2 DEF Sound, DirOK, InArea, Overlap, Occupies
<1>4. UniqueNames(d2)
  BY <1>2 DEF UniqueNames, DirOK
<1> QED
  BY <1>0, <1>1, <1>3, <1>4 DEF DirOK

(* An entry without a name is an entry.                                    *)
LEMMA FreeEntryOK ==
  ASSUME NEW d, DirOK(d), NEW k \in Entries
  PROVE  DirOK([d EXCEPT ![k].name = NoName])
<1> DEFINE d2 == [d EXCEPT ![k].name = NoName]
<1>0. d \in [Entries -> Entry]
  BY DEF DirOK, Directories
<1>1. d2 \in Directories
  BY <1>0 DEF Directories, Entry
<1>2. d2[k].name = NoName /\ \A j \in Entries : j # k => d2[j] = d[j]
  BY <1>0 DEF Entry
<1> HIDE DEF d2
<1>3. Sound(d2)
  BY <1>2 DEF Sound, DirOK, InArea, Overlap, Occupies
<1>4. UniqueNames(d2)
  BY <1>2 DEF UniqueNames, DirOK
<1> QED
  BY <1>1, <1>3, <1>4 DEF DirOK, d2

(* Renaming a live entry to a name no other entry has. *)
LEMMA NameEntryOK ==
  ASSUME NEW d, DirOK(d), NEW k \in Entries, d[k].name # NoName,
         NEW nm \in Names \cup {NoName},
         \A j \in Entries : j # k => d[j].name # nm \/ nm = NoName
  PROVE  DirOK([d EXCEPT ![k].name = nm])
<1> DEFINE d2 == [d EXCEPT ![k].name = nm]
<1>0. d \in [Entries -> Entry]
  BY DEF DirOK, Directories
<1>1. d2 \in Directories
  BY <1>0 DEF Directories, Entry
<1>2. /\ d2[k].name = nm /\ d2[k].start = d[k].start /\ d2[k].size = d[k].size
      /\ \A j \in Entries : j # k => d2[j] = d[j]
  BY <1>0 DEF Entry
<1> HIDE DEF d2
<1>3. Sound(d2)
  BY <1>2 DEF Sound, DirOK, InArea, Overlap, Occupies
<1>4. UniqueNames(d2)
  BY <1>2 DEF UniqueNames, DirOK
<1> QED
  BY <1>1, <1>3, <1>4 DEF DirOK, d2

(* Freeing and naming an entry leave a directory, sound or not.            *)
LEMMA EntriesTyped ==
  ASSUME NEW d \in Directories, NEW k \in Entries, NEW nm \in Names \cup {NoName}
  PROVE  Removed(d, k) \in Directories /\ Renamed(d, k, nm) \in Directories
<1>0. d \in [Entries -> Entry] /\ 0 \in 0 .. CardWords - DataStart
  BY LayoutAssumption DEF LayoutAssumption, Directories
<1>1. Removed(d, k) \in Directories
  BY <1>0 DEF Removed, Directories, Entry
<1>2. ASSUME NEW g \in [Entries -> Entry], NEW j, NEW n \in Names \cup {NoName}
      PROVE  [g EXCEPT ![j].name = n] \in [Entries -> Entry]
  BY <1>2 DEF Entry
<1>3. Renamed(d, k, nm) \in Directories
  BY <1>0, <1>2 DEF Renamed, Directories
<1> QED
  BY <1>1, <1>3

(* Renaming an entry keeps a directory sound if no entry has the new name. *)
LEMMA RenamedOK ==
  ASSUME NEW d, DirOK(d), NEW k \in Entries, d[k].name # NoName,
         NEW nm \in Names \cup {NoName}
  PROVE  DirOK(Renamed(d, k, nm))
<1> DEFINE j == Lookup(d, nm)
<1>0. d \in [Entries -> Entry]
  BY DEF DirOK, Directories
<1>1. CASE j # 0 /\ j # k
  <2> DEFINE d1 == [d EXCEPT ![j].name = NoName]
  <2>1. j \in Entries /\ d[j].name = nm
    BY <1>1, LookupSpec
  <2>2. DirOK(d1)
    BY <2>1, FreeEntryOK
  <2>3. d1[k].name # NoName
    BY <1>0, <1>1, <2>1
  <2>4. \A i \in Entries : i # k => d1[i].name # nm \/ nm = NoName
    BY <1>0, <2>1 DEF DirOK, UniqueNames, Entry
  <2>5. Renamed(d, k, nm) = [d1 EXCEPT ![k].name = nm]
    BY <1>1 DEF Renamed
  <2> HIDE DEF d1
  <2>6. DirOK([d1 EXCEPT ![k].name = nm])
    BY <2>2, <2>3, <2>4, NameEntryOK
  <2> QED
    BY <2>5, <2>6
<1>2. CASE ~(j # 0 /\ j # k)
  <2>1. ASSUME NEW i \in Entries, i # k, nm # NoName
        PROVE  d[i].name # nm
    <3>1. CASE j = 0
      <4>1. ~(j \in Entries)
        BY <3>1, LayoutAssumption DEF LayoutAssumption, Entries
      <4> QED
        BY <2>1, <4>1, LookupSpec
    <3>2. CASE j = k
      <4>1. d[k].name = nm
        BY <3>2, LookupSpec, LayoutAssumption DEF LayoutAssumption, Entries
      <4> QED
        BY <2>1, <4>1 DEF DirOK, UniqueNames
    <3> QED
      BY <1>2, <3>1, <3>2
  <2>2. Renamed(d, k, nm) = [d EXCEPT ![k].name = nm]
    BY <1>2 DEF Renamed
  <2>3. DirOK([d EXCEPT ![k].name = nm])
    BY <2>1, NameEntryOK
  <2> QED
    BY <2>2, <2>3
<1> QED
  BY <1>1, <1>2

----------------------------------------------------------------------------
(* What the calls do to the cards                                          *)

(* One card may be replaced by one that is sound.                          *)
LEMMA UpdateCardOK ==
  ASSUME NEW cs, CardsOK(cs), NEW c, NEW x, CardOK(x)
  PROVE  CardsOK([cs EXCEPT ![c] = x])
BY DEF CardsOK, CardOK

(* v32file_card reads a directory from a card that is ready, and a sound   *)
(* one unless a format was cut short there.                                *)
LEMMA LoadedOK ==
  ASSUME IInv
  PROVE  /\ LoadedDir \in Directories
         /\ CardState = "ready" =>
              /\ slot \in Cards /\ cards[slot] \in Card /\ LoadedDir = cards[slot].dir
              /\ cards[slot].kind \in {"ready", "halfway"}
              /\ cards[slot].kind = "ready" => DirOK(LoadedDir)
<1>1. CASE CardState = "ready"
  <2>1. slot # NoCard /\ cards[slot].kind \in {"ready", "halfway"}
    BY <1>1 DEF CardState
  <2>2. slot \in Cards /\ CardOK(cards[slot]) /\ LoadedDir = cards[slot].dir
    BY <1>1, <2>1 DEF IInv, TypeOK, CardsOK, LoadedDir
  <2> QED
    BY <2>1, <2>2 DEF CardOK, Card
<1>2. CASE CardState # "ready"
  BY <1>2 DEF IInv, TypeOK, LoadedDir
<1> QED
  BY <1>1, <1>2

(* v32file_format leaves a sound card, and its data as it was.             *)
LEMMA FormattedOK ==
  ASSUME NEW x \in Card
  PROVE  /\ Formatted(x) \in Card /\ Formatted(x).kind = "ready"
         /\ Formatted(x).dir = EmptyDir /\ Formatted(x).data = x.data
BY EmptyDirOK DEF Formatted, Card, CardKinds, DirOK

(* v32file_writable_card leaves a card with a directory in the slot, sound *)
(* unless it took the card for ready and was wrong, and its words alone.   *)
LEMMA WritableOK ==
  ASSUME IInv, CanWrite
  PROVE  /\ slot \in Cards /\ cards[slot] \in Card
         /\ CardOK(WritableCard)
         /\ WritableCard.dir = WritableDir /\ WritableDir \in Directories
         /\ WritableCard.kind = "ready" => DirOK(WritableDir)
         /\ WritableCard.kind = IF cards[slot].kind = "halfway" THEN "halfway" ELSE "ready"
         /\ WritableCard.data = cards[slot].data
<1>1. CASE CardState = "blank"
  <2>1. slot # NoCard /\ cards[slot].kind \in {"blank", "stale"}
    BY <1>1 DEF CardState
  <2>2. slot \in Cards /\ cards[slot] \in Card
    BY <2>1 DEF IInv, TypeOK
  <2>3. WritableCard = Formatted(cards[slot]) /\ WritableDir = EmptyDir
    BY <1>1 DEF WritableCard, WritableDir
  <2> QED
    BY <2>1, <2>2, <2>3, EmptyDirOK, FormattedOK DEF CardOK, DirOK
<1>2. CASE CardState = "ready"
  <2>1. slot \in Cards /\ CardOK(cards[slot]) /\ cards[slot].kind \in {"ready", "halfway"}
    BY <1>2, LoadedOK DEF IInv, CardsOK
  <2>2. WritableCard = cards[slot] /\ WritableDir = LoadedDir
    BY <1>2 DEF WritableCard, WritableDir
  <2> QED
    BY <1>2, <2>1, <2>2, LoadedOK
<1> QED
  BY <1>1, <1>2 DEF CanWrite

(* The data write of a save leaves the directory alone.                    *)
LEMMA WriteDataOK ==
  ASSUME NEW data \in [DataArea -> Words], NEW f \in File, NEW s \in Nat,
         NEW m \in 0 .. Len(f.data)
  PROVE  WriteData(data, s, f, m) \in [DataArea -> Words]
<1>1. f.data \in Seq(Words)
  BY DEF File
<1>2. ASSUME NEW a \in DataArea, a \in s .. s + m - 1
      PROVE  f.data[a - s + 1] \in Words
  <2>1. a - s + 1 \in 1 .. Len(f.data)
    BY <1>1, <1>2
  <2> QED
    BY <1>1, <2>1
<1> QED
  BY <1>2 DEF WriteData

(* The directory that v32file_commit writes is sound if the one it changes *)
(* was, and a directory in any case.                                       *)
LEMMA SavedOK ==
  ASSUME IInv, CanWrite, NEW f \in File, SavePlace(f) # NoRoom
  PROVE  /\ SaveEntry(f) \in Entries
         /\ SavePlace(f) \in DataStart .. CardWords
         /\ Free(WritableDir, SaveEntry(f), SavePlace(f), Len(f.data))
         /\ SavedDir(f) \in Directories
         /\ WritableCard.kind = "ready" => DirOK(SavedDir(f))
<1> DEFINE d == WritableDir
           k == SaveEntry(f)
           s == SavePlace(f)
           n == Len(f.data)
<1>1. k # 0 /\ s = FirstFit(d, k, n)
  BY DEF SavePlace
<1>2. s \in DataStart .. CardWords /\ Free(d, k, s, n)
  BY <1>1, FirstFitSpec
<1>3. n \in Nat /\ f.name \in Names \cup {NoName}
  BY DEF File
<1>4. k \in Entries
  <2>1. CASE Lookup(d, f.name) # 0
    BY <2>1, LookupSpec DEF SaveEntry
  <2>2. CASE Lookup(d, f.name) = 0
    BY <1>1, <2>2, FirstUnusedSpec DEF SaveEntry
  <2> QED
    BY <2>1, <2>2
<1>5. SavedDir(f) \in Directories
  <2>1. [name |-> f.name, start |-> s, size |-> n] \in Entry
    BY <1>2, <1>3, LayoutAssumption DEF LayoutAssumption, Free, Entry
  <2>2. d \in Directories
    BY WritableOK
  <2> HIDE DEF d, k, s, n
  <2>3. [d EXCEPT ![k] = [name |-> f.name, start |-> s, size |-> n]] \in Directories
    BY <2>1, <2>2 DEF Directories
  <2> QED
    BY <2>3 DEF SavedDir, d, k, s, n
<1>6. ASSUME DirOK(d)
      PROVE  DirOK([d EXCEPT ![k] = [name |-> f.name, start |-> s, size |-> n]])
  <2>1. \A j \in Entries : j # k => d[j].name # f.name \/ f.name = NoName
    <3>1. CASE Lookup(d, f.name) # 0
      <4>1. k = Lookup(d, f.name) /\ d[k].name = f.name
        BY <3>1, LookupSpec DEF SaveEntry
      <4> QED
        BY <1>4, <1>6, <4>1 DEF DirOK, UniqueNames
    <3>2. CASE Lookup(d, f.name) = 0
      <4>1. 0 \notin Entries
        BY LayoutAssumption DEF LayoutAssumption, Entries
      <4> QED
        BY <3>2, <4>1, LookupSpec
    <3> QED
      BY <3>1, <3>2
  <2> HIDE DEF d, k, s, n
  <2> QED
    BY <1>2, <1>3, <1>4, <1>6, <2>1, StoreEntryOK
<1> QED
  BY <1>2, <1>4, <1>5, <1>6, WritableOK DEF SavedDir

(* The card with some of a file's words written, under directory d.        *)
LEMMA WrittenCardOK ==
  ASSUME IInv, CanWrite, NEW f \in File, SavePlace(f) # NoRoom,
         NEW m \in 0 .. Len(f.data),
         NEW d \in Directories, WritableCard.kind = "ready" => DirOK(d),
         NEW x, x = [WritableCard EXCEPT
                       !.dir = d,
                       !.data = WriteData(cards[slot].data, SavePlace(f), f, m)]
  PROVE  CardsOK([cards EXCEPT ![slot] = x])
<1>1. WritableCard \in Card /\ cards[slot].data \in [DataArea -> Words]
  BY WritableOK DEF CardOK, Card
<1>2. SavePlace(f) \in Nat
  BY SavedOK, LayoutAssumption DEF LayoutAssumption
<1>3. WriteData(cards[slot].data, SavePlace(f), f, m) \in [DataArea -> Words]
  BY <1>1, <1>2, WriteDataOK
<1>4. x \in Card /\ x.dir = d /\ x.kind = WritableCard.kind
  BY <1>1, <1>3 DEF Card
<1> QED
  BY <1>4, UpdateCardOK DEF IInv, CardOK

(* A save, successful or not, leaves every card sound.                     *)
LEMMA CommittedOK ==
  ASSUME IInv, NEW f \in File
  PROVE  CardsOK(CommittedCards(f)) /\ CommittedRam(f) \in Directories
<1>1. CASE ~f.dirty \/ ~CanWrite
  BY <1>1, LoadedOK DEF CommittedCards, CommittedRam, IInv, TypeOK
<1>2. CASE f.dirty /\ CanWrite /\ SavePlace(f) = NoRoom
  <2>1. CardsOK([cards EXCEPT ![slot] = WritableCard])
    BY <1>2, WritableOK, UpdateCardOK DEF IInv
  <2> QED
    BY <1>2, <2>1, WritableOK DEF CommittedCards, CommittedRam
<1>3. CASE f.dirty /\ CanWrite /\ SavePlace(f) # NoRoom
  <2>1. Len(f.data) \in 0 .. Len(f.data)
    BY DEF File
  <2>2. SavedDir(f) \in Directories /\ (WritableCard.kind = "ready" => DirOK(SavedDir(f)))
    BY <1>3, SavedOK
  <2>3. CardsOK(CommittedCards(f))
    BY <1>3, <2>1, <2>2, WrittenCardOK DEF CommittedCards
  <2> QED
    BY <1>3, <2>2, <2>3 DEF CommittedRam
<1> QED
  BY <1>1, <1>2, <1>3

----------------------------------------------------------------------------
(* What the calls do to an open file                                       *)

(* A closed handle is a handle.                                            *)
LEMMA ClosedFileOK == ClosedFile \in File
BY DEF ClosedFile, File

(* A save changes a handle to a handle.                                    *)
LEMMA CommittedFileOK ==
  ASSUME NEW f \in File
  PROVE  Committed(f) \in File
BY DEF Committed, File

(* The words of an entry in the data area are a file's contents.           *)
LEMMA FileWordsOK ==
  ASSUME NEW card \in Card, NEW k \in Entries, card.dir[k].name # NoName,
         InArea(card.dir[k])
  PROVE  FileWords(card.data, card.dir[k]) \in Seq(Words)
<1> USE LayoutAssumption DEF LayoutAssumption
<1> DEFINE e == card.dir[k]
<1>1. e \in Entry /\ card.data \in [DataArea -> Words]
  BY DEF Card, Directories
<1>2. e.size \in Nat /\ e.start \in Int
  BY <1>1 DEF Entry
<1>3. e.size # 0 => DataStart <= e.start /\ e.start + e.size <= CardWords
  BY <1>1 DEF InArea, Occupies
<1> HIDE DEF e
<1>4. ASSUME NEW i \in 1 .. e.size
      PROVE  card.data[e.start + i - 1] \in Words
  <2>1. e.start + i - 1 \in DataArea
    BY <1>2, <1>3 DEF DataArea
  <2> QED
    BY <1>1, <2>1
<1>5. FileWords(card.data, e) \in Seq(Words)
  BY <1>2, <1>4 DEF FileWords
<1> QED
  BY <1>5 DEF e

(* So is whatever may be read from any entry.                              *)
LEMMA FileReadsOK ==
  ASSUME NEW card \in Card, NEW k \in Entries, card.dir[k].name # NoName,
         NEW w \in FileReads(card.data, card.dir[k])
  PROVE  w \in Seq(Words)
<1>1. CASE InArea(card.dir[k])
  BY <1>1, FileWordsOK DEF FileReads
<1>2. CASE ~InArea(card.dir[k])
  <2> DEFINE n == card.dir[k].size
  <2>1. n \in Nat
    BY LayoutAssumption DEF LayoutAssumption, Card, Directories, Entry
  <2>2. w \in [1 .. n -> Words]
    BY <1>2 DEF FileReads
  <2> HIDE DEF n
  <2> QED
    BY <2>1, <2>2
<1> QED
  BY <1>1, <1>2

(* fopen fills a handle.                                                   *)
LEMMA OpenedOK ==
  ASSUME NEW n \in Names, NEW m, NEW w \in Seq(Words)
  PROVE  /\ Opened(n, m, w) \in File
         /\ [Opened(n, m, w) EXCEPT !.dirty = TRUE] \in File
<1>1. Len(w) \in Nat
  OBVIOUS
<1>2. (m # "r") \in BOOLEAN /\ (m \in {"r", "r+", "w+", "a+"}) \in BOOLEAN
  OBVIOUS
<1>3. Opened(n, m, w) \in File
  BY <1>1, <1>2 DEF Opened, File
<1> QED
  BY <1>3 DEF File

(* A write leaves a handle of its type, whatever is in the gap.            *)
LEMMA StoredOK ==
  ASSUME NEW f \in File, NEW ws \in Seq(Words),
         NEW gap \in [Len(f.data) + 1 .. f.pos -> Words]
  PROVE  Stored(f, ws, gap) \in File
<1> DEFINE end == f.pos + Len(ws)
           len == IF end > Len(f.data) THEN end ELSE Len(f.data)
           w(k) == IF k \in f.pos + 1 .. end THEN ws[k - f.pos]
                   ELSE IF k <= Len(f.data) THEN f.data[k] ELSE gap[k]
<1>1. f.pos \in Nat /\ f.data \in Seq(Words) /\ Len(f.data) \in Nat /\ Len(ws) \in Nat
  BY DEF File
<1>2. len \in Nat /\ end \in Nat
  BY <1>1
<1>3. ASSUME NEW k \in 1 .. len
      PROVE  w(k) \in Words
  <2>1. CASE k \in f.pos + 1 .. end
    <3>1. k - f.pos \in 1 .. Len(ws)
      BY <1>1, <2>1
    <3> QED
      BY <2>1, <3>1
  <2>2. CASE k \notin f.pos + 1 .. end /\ k <= Len(f.data)
    BY <1>1, <2>2
  <2>3. CASE k \notin f.pos + 1 .. end /\ ~(k <= Len(f.data))
    <3>1. k \in Len(f.data) + 1 .. f.pos
      BY <1>1, <1>2, <1>3, <2>3
    <3> QED
      BY <2>3, <3>1
  <2> QED
    BY <2>1, <2>2, <2>3
<1>4. [k \in 1 .. len |-> w(k)] \in Seq(Words)
  <2> HIDE DEF len, w
  <2> QED
    BY <1>2, <1>3
<1>5. Stored(f, ws, gap) =
        [f EXCEPT !.data = [k \in 1 .. len |-> w(k)], !.pos = end, !.dirty = TRUE]
  BY DEF Stored
<1> HIDE DEF end, len, w
<1> QED
  BY <1>2, <1>4, <1>5 DEF File

(* One handle may be replaced by another.                                  *)
LEMMA PoolOK ==
  ASSUME IInv, NEW h \in Handles, NEW f \in File
  PROVE  [pool EXCEPT ![h] = f] \in [Handles -> File]
BY DEF IInv, TypeOK

(* Every step that leaves the last result as it was, or sets it. *)
LEMMA ResultOK ==
  /\ Other \in [call : {"other", "save"}, result : {0, EOF}]
  /\ \A f : [call |-> "save", result |-> CommitResult(f)]
             \in [call : {"other", "save"}, result : {0, EOF}]
BY DEF Other, CommitResult

----------------------------------------------------------------------------
(* Every step preserves the invariant                                      *)

(* The invariant holds of whatever cards the game starts with.             *)
LEMMA InitIInv == Init => IInv
<1> SUFFICES ASSUME Init PROVE IInv
  OBVIOUS
<1>1. \A x \in FirstCards : CardOK(x)
  BY EmptyDirOK, FileAssumption
  DEF FileAssumption, FirstCards, CardOK, Card, CardKinds, DirOK
<1>2. CardsOK(cards)
  BY <1>1 DEF Init, CardsOK, CardOK
<1>3. pool \in [Handles -> File]
  BY ClosedFileOK DEF Init, ClosedPool
<1> QED
  BY <1>2, <1>3, ResultOK, EmptyDirOK DEF Init, IInv, TypeOK, CardsOK, CardOK, DirOK

(* v32file_format, remove, rename and the refused or formatting fopen.     *)
LEMMA FormatIInv == IInv /\ v32file_format => IInv'
<1> SUFFICES ASSUME IInv, v32file_format PROVE IInv'
  OBVIOUS
<1>1. slot \in Cards /\ cards[slot] \in Card
  BY DEF IInv, TypeOK, v32file_format
<1>2. CardsOK(cards')
  <2>1. CardOK(Formatted(cards[slot]))
    BY <1>1, FormattedOK, EmptyDirOK DEF CardOK
  <2>2. CardsOK([cards EXCEPT ![slot] = Formatted(cards[slot])])
    BY <1>1, <2>1, UpdateCardOK DEF IInv
  <2> QED
    BY <2>2 DEF v32file_format
<1> QED
  BY <1>2, ResultOK, EmptyDirOK DEF v32file_format, IInv, TypeOK, CardsOK, DirOK

(* fopen of a file that is there takes a free handle for its words.        *)
LEMMA FopenReads ==
  ASSUME IInv, NEW n \in Names, NEW m \in Modes, fopen_existing(n, m)
  PROVE  \E h \in Handles, w \in Seq(Words) :
           /\ FreeHandle(h) /\ pool' = [pool EXCEPT ![h] = Opened(n, m, w)]
           /\ w \in FileReads(cards[slot].data, LoadedDir[Lookup(LoadedDir, n)])
<1> DEFINE k == Lookup(LoadedDir, n)
<1>1. slot \in Cards /\ cards[slot] \in Card /\ LoadedDir = cards[slot].dir
  BY LoadedOK DEF fopen_existing
<1>2. k \in Entries /\ LoadedDir[k].name # NoName
  BY LookupSpec DEF fopen_existing
<1>3. PICK h \in Handles, w \in FileReads(cards[slot].data, LoadedDir[k]) :
        FreeHandle(h) /\ pool' = [pool EXCEPT ![h] = Opened(n, m, w)]
  BY DEF fopen_existing
<1> HIDE DEF k
<1>4. w \in Seq(Words)
  BY <1>1, <1>2, <1>3, FileReadsOK
<1> QED
  BY <1>3, <1>4 DEF k

(* fopen of a file that is there keeps the invariant.                      *)
LEMMA FopenExistingIInv ==
  ASSUME IInv, NEW n \in Names, NEW m \in Modes, fopen_existing(n, m)
  PROVE  IInv'
<1>1. PICK h \in Handles, w \in Seq(Words) : pool' = [pool EXCEPT ![h] = Opened(n, m, w)]
  BY FopenReads
<1>4. pool' \in [Handles -> File]
  <2>1. Opened(n, m, w) \in File
    BY OpenedOK
  <2> QED
    BY <1>1, <2>1, PoolOK
<1>5. ram' \in Directories
  BY LoadedOK DEF fopen_existing
<1> QED
  BY <1>4, <1>5, ResultOK DEF fopen_existing, IInv, TypeOK

(* fopen of a file that is not there keeps it.                             *)
LEMMA FopenNewIInv ==
  ASSUME IInv, NEW n \in Names, NEW m \in Modes, fopen_new(n, m)
  PROVE  IInv'
<1>1. CanWrite
  BY DEF fopen_new
<1>2. CardsOK(cards')
  <2>1. CardsOK([cards EXCEPT ![slot] = WritableCard])
    BY <1>1, WritableOK, UpdateCardOK DEF IInv
  <2> QED
    BY <2>1 DEF fopen_new
<1>3. ram' \in Directories
  BY <1>1, WritableOK DEF fopen_new
<1>4. pool' \in [Handles -> File]
  <2>1. PICK h \in Handles :
          pool' = [pool EXCEPT ![h] = [Opened(n, m, <<>>) EXCEPT !.dirty = TRUE]]
    BY DEF fopen_new
  <2>2. [Opened(n, m, <<>>) EXCEPT !.dirty = TRUE] \in File
    <3>1. <<>> \in Seq(Words)
      OBVIOUS
    <3> QED
      BY <3>1, OpenedOK
  <2> QED
    BY <2>1, <2>2, PoolOK
<1> QED
  BY <1>2, <1>3, <1>4, ResultOK DEF fopen_new, IInv, TypeOK, CardsOK

(* fopen that is refused before it looks at the pool keeps it.             *)
LEMMA FopenRefusedIInv ==
  ASSUME IInv, NEW n \in Names, NEW m \in Modes, fopen_refused(n, m)
  PROVE  IInv'
BY LoadedOK, ResultOK DEF fopen_refused, IInv, TypeOK

(* fopen without a handle or memory left keeps it, formatted card or not.  *)
LEMMA FopenNoRoomIInv ==
  ASSUME IInv, NEW n \in Names, NEW m \in Modes, fopen_no_room(n, m)
  PROVE  IInv'
<1>1. CASE Reading(m)
  BY <1>1, LoadedOK, ResultOK DEF fopen_no_room, IInv, TypeOK
<1>2. CASE ~Reading(m)
  <2>1. CanWrite /\ cards' = [cards EXCEPT ![slot] = WritableCard] /\ ram' = WritableDir
    BY <1>2 DEF fopen_no_room
  <2>2. CardsOK(cards')
    BY <2>1, WritableOK, UpdateCardOK DEF IInv
  <2>3. ram' \in Directories
    BY <2>1, WritableOK
  <2> QED
    BY <2>2, <2>3, ResultOK DEF fopen_no_room, IInv, TypeOK, CardsOK
<1> QED
  BY <1>1, <1>2

(* The three calls that commit: fclose, fflush and rewind.                 *)
LEMMA SaveIInv ==
  ASSUME IInv, NEW h \in Handles,
         v32file_close(h) \/ v32file_flush(h) \/ rewind(h)
  PROVE  IInv'
<1> DEFINE f == pool[h]
<1>1. f \in File
  BY DEF IInv, TypeOK
<1>2. cards' = CommittedCards(f) /\ ram' = CommittedRam(f) /\ slot' = slot
  BY DEF v32file_close, v32file_flush, rewind, Commit
<1>3. CardsOK(cards') /\ ram' \in Directories
  BY <1>1, <1>2, CommittedOK
<1>4. pool' \in [Handles -> File]
  <2>1. Committed(f) \in File
    BY <1>1, CommittedFileOK
  <2>2. [Committed(f) EXCEPT !.pos = 0, !.eof = FALSE, !.error = FALSE] \in File
    BY <2>1 DEF File
  <2>3. CASE v32file_close(h)
    BY <2>3, ClosedFileOK, PoolOK DEF v32file_close
  <2>4. CASE v32file_flush(h)
    BY <2>1, <2>4, PoolOK DEF v32file_flush
  <2>5. CASE rewind(h)
    BY <2>2, <2>5, PoolOK DEF rewind
  <2> QED
    BY <2>3, <2>4, <2>5
<1>5. last' \in [call : {"other", "save"}, result : {0, EOF}]
  BY ResultOK DEF v32file_close, v32file_flush, rewind
<1> QED
  BY <1>2, <1>3, <1>4, <1>5 DEF IInv, TypeOK, CardsOK

(* A call that leaves a file open leaves it its name, and its changes to   *)
(* be saved.                                                               *)
Keeps(f, g) == g.open = f.open /\ g.name = f.name /\ (f.dirty => g.dirty)

KeepsHandle(h) == \E g \in File : pool' = [pool EXCEPT ![h] = g] /\ Keeps(pool[h], g)

(* The calls that touch nothing but an open file. *)
LEMMA BufferStep ==
  ASSUME IInv, NEW h \in Handles,
         \/ v32file_getc(h)
         \/ ReserveFails(h)
         \/ \E w \in Words : v32file_putc(h, w)
         \/ \E w, x \in Words : fwrite(h, <<w, x>>)
         \/ \E sz, cnt \in 1 .. 2 : fread(h, sz, cnt)
         \/ \E p \in 0 .. MaxSize : fseek(h, p)
  PROVE  /\ UNCHANGED <<cards, slot, ram>> /\ last' = Other
         /\ pool[h].open /\ KeepsHandle(h)
<1> DEFINE f == pool[h]
<1>1. f \in File /\ pool \in [Handles -> File]
  BY DEF IInv, TypeOK
<1>2. UNCHANGED <<cards, slot, ram>> /\ last' = Other /\ f.open
  BY DEF v32file_getc, ReserveFails, v32file_putc, fwrite, WriteWords, fread, fseek
<1>3. KeepsHandle(h)
  <2>1. CASE v32file_getc(h)
    <3>1. CASE f.pos >= Len(f.data)
      <4> DEFINE g == [f EXCEPT !.eof = TRUE]
      <4>1. pool' = [pool EXCEPT ![h] = g]
        BY <1>1, <2>1, <3>1 DEF v32file_getc
      <4>2. g \in File /\ Keeps(f, g)
        BY <1>1 DEF File, Keeps
      <4> HIDE DEF g
      <4> QED
        BY <4>1, <4>2 DEF KeepsHandle
    <3>2. CASE ~(f.pos >= Len(f.data))
      <4> DEFINE g == [f EXCEPT !.pos = f.pos + 1]
      <4>1. pool' = [pool EXCEPT ![h] = g]
        BY <1>1, <2>1, <3>2 DEF v32file_getc
      <4>2. f.pos + 1 \in Nat
        BY <1>1 DEF File
      <4>3. g \in File /\ Keeps(f, g)
        BY <1>1, <4>2 DEF File, Keeps
      <4> HIDE DEF g
      <4> QED
        BY <4>1, <4>3 DEF KeepsHandle
    <3> QED
      BY <3>1, <3>2
  <2>2. CASE ReserveFails(h)
    <3> DEFINE g == [f EXCEPT !.error = TRUE]
    <3>1. pool' = [pool EXCEPT ![h] = g]
      BY <1>1, <2>2 DEF ReserveFails
    <3>2. g \in File /\ Keeps(f, g)
      BY <1>1 DEF File, Keeps
    <3> HIDE DEF g
    <3> QED
      BY <3>1, <3>2 DEF KeepsHandle
  <2>3. ASSUME NEW ws \in Seq(Words), WriteWords(h, ws)
        PROVE  KeepsHandle(h)
    <3>1. PICK gap \in [Len(f.data) + 1 .. f.pos -> Words] :
            pool' = [pool EXCEPT ![h] = Stored(f, ws, gap)]
      BY <2>3 DEF WriteWords
    <3>2. Stored(f, ws, gap) \in File
      BY <1>1, StoredOK
    <3>3. Keeps(f, Stored(f, ws, gap))
      BY <1>1 DEF Stored, Keeps, File
    <3> QED
      BY <3>1, <3>2, <3>3 DEF KeepsHandle
  <2>4. CASE \E w \in Words : v32file_putc(h, w)
    <3>1. PICK w \in Words : WriteWords(h, <<w>>)
      BY <2>4 DEF v32file_putc
    <3>2. <<w>> \in Seq(Words)
      OBVIOUS
    <3> QED
      BY <2>3, <3>1, <3>2
  <2>5. CASE \E w, x \in Words : fwrite(h, <<w, x>>)
    <3>1. PICK w \in Words, x \in Words : WriteWords(h, <<w, x>>)
      BY <2>5 DEF fwrite
    <3>2. <<w, x>> \in Seq(Words)
      OBVIOUS
    <3> QED
      BY <2>3, <3>1, <3>2
  <2>6. CASE \E sz, cnt \in 1 .. 2 : fread(h, sz, cnt)
    <3>1. PICK sz \in 1 .. 2, cnt \in 1 .. 2 : fread(h, sz, cnt)
      BY <2>6
    <3> DEFINE words == FreadWords(f, sz, cnt)
               e == f.eof \/ sz * cnt > Left(f)
               p == IF words > 0 THEN f.pos + words ELSE f.pos
               g == [f EXCEPT !.eof = e, !.pos = p]
    <3>2. pool' = [pool EXCEPT ![h] = g]
      BY <3>1 DEF fread
    <3>3. p \in Nat
      <4>1. f.pos \in Nat /\ Left(f) \in Int
        BY <1>1 DEF File, Left
      <4>2. words \in Int
        BY <4>1 DEF FreadWords, Quotient
      <4> HIDE DEF words
      <4> QED
        BY <4>1, <4>2
    <3>4. e \in BOOLEAN
      OBVIOUS
    <3>5. g \in File /\ Keeps(f, g)
      <4> HIDE DEF e, p
      <4> QED
        BY <1>1, <3>3, <3>4 DEF File, Keeps
    <3> HIDE DEF g
    <3> QED
      BY <3>2, <3>5 DEF KeepsHandle
  <2>7. CASE \E p \in 0 .. MaxSize : fseek(h, p)
    <3>1. PICK p \in 0 .. MaxSize : fseek(h, p)
      BY <2>7
    <3> DEFINE g == [f EXCEPT !.pos = p, !.eof = FALSE]
    <3>2. pool' = [pool EXCEPT ![h] = g]
      BY <3>1 DEF fseek
    <3>3. p \in Nat
      BY LayoutAssumption DEF LayoutAssumption
    <3>4. g \in File /\ Keeps(f, g)
      BY <1>1, <3>3 DEF File, Keeps
    <3> HIDE DEF g
    <3> QED
      BY <3>2, <3>4 DEF KeepsHandle
  <2> QED
    BY <2>1, <2>2, <2>4, <2>5, <2>6, <2>7
<1> QED
  BY <1>2, <1>3

(* The calls that touch nothing but an open file keep the invariant.       *)
LEMMA BufferIInv ==
  ASSUME IInv, NEW h \in Handles,
         \/ v32file_getc(h)
         \/ ReserveFails(h)
         \/ \E w \in Words : v32file_putc(h, w)
         \/ \E w, x \in Words : fwrite(h, <<w, x>>)
         \/ \E sz, cnt \in 1 .. 2 : fread(h, sz, cnt)
         \/ \E p \in 0 .. MaxSize : fseek(h, p)
  PROVE  IInv'
<1>1. UNCHANGED <<cards, slot, ram>> /\ last' = Other /\ KeepsHandle(h)
  BY BufferStep
<1>2. pool' \in [Handles -> File]
  BY <1>1, PoolOK DEF KeepsHandle
<1> QED
  BY <1>1, <1>2, ResultOK DEF IInv, TypeOK

(* Writing a sound directory leaves every card sound, and on a card that   *)
(* was taken for ready any directory will do.                              *)
LEMMA WriteDirOK ==
  ASSUME IInv, CardState = "ready", NEW d \in Directories, WriteDir(d),
         cards[slot].kind = "ready" => DirOK(d)
  PROVE  CardsOK(cards') /\ ram' \in Directories
<1> DEFINE x == [cards[slot] EXCEPT !.dir = d]
<1>1. slot \in Cards /\ cards[slot] \in Card
  BY LoadedOK
<1>2. x \in Card /\ x.dir = d /\ x.kind = cards[slot].kind
  BY <1>1 DEF Card
<1>3. cards' = [cards EXCEPT ![slot] = x]
  BY DEF WriteDir
<1> HIDE DEF x
<1>4. CardsOK(cards')
  BY <1>2, <1>3, UpdateCardOK DEF IInv, CardOK
<1>5. ram' \in Directories
  BY DEF WriteDir
<1> QED
  BY <1>4, <1>5

(* remove keeps the invariant.                                             *)
LEMMA RemoveIInv ==
  ASSUME IInv, NEW n \in Names, remove(n)
  PROVE  IInv'
<1> DEFINE k == Lookup(LoadedDir, n)
<1>1. CASE CardState = "ready" /\ k # 0
  <2>1. k \in Entries /\ LoadedDir \in Directories
    BY <1>1, LookupSpec, LoadedOK
  <2>2. Removed(LoadedDir, k) \in Directories
    BY <2>1, EntriesTyped
  <2>3. cards[slot].kind = "ready" => DirOK(Removed(LoadedDir, k))
    BY <1>1, <2>1, LoadedOK, RemovedOK
  <2>4. CardsOK(cards') /\ ram' \in Directories
    BY <1>1, <2>2, <2>3, WriteDirOK DEF remove
  <2> QED
    BY <2>4, ResultOK DEF remove, IInv, TypeOK, CardsOK
<1>2. CASE ~(CardState = "ready" /\ k # 0)
  BY <1>2, LoadedOK, ResultOK DEF remove, IInv, TypeOK
<1> QED
  BY <1>1, <1>2

(* rename keeps the invariant.                                             *)
LEMMA RenameIInv ==
  ASSUME IInv, NEW n \in Names, NEW b \in Names \cup {NoName}, rename(n, b)
  PROVE  IInv'
<1> DEFINE k == Lookup(LoadedDir, n)
<1>1. CASE CardState = "ready" /\ k # 0
  <2>1. k \in Entries /\ LoadedDir[k].name # NoName /\ LoadedDir \in Directories
    BY <1>1, LookupSpec, LoadedOK
  <2>2. Renamed(LoadedDir, k, b) \in Directories
    BY <2>1, EntriesTyped
  <2>3. cards[slot].kind = "ready" => DirOK(Renamed(LoadedDir, k, b))
    BY <1>1, <2>1, LoadedOK, RenamedOK
  <2>4. CardsOK(cards') /\ ram' \in Directories
    BY <1>1, <2>2, <2>3, WriteDirOK DEF rename
  <2> QED
    BY <2>4, ResultOK DEF rename, IInv, TypeOK, CardsOK
<1>2. CASE ~(CardState = "ready" /\ k # 0)
  BY <1>2, LoadedOK, ResultOK DEF rename, IInv, TypeOK
<1> QED
  BY <1>1, <1>2

(* Inserting and ejecting a card keeps the invariant.                      *)
LEMMA ChangeCardIInv ==
  ASSUME IInv, EjectCard \/ \E c \in Cards : InsertCard(c)
  PROVE  IInv'
BY DEF IInv, TypeOK, EjectCard, InsertCard

(* Losing what is in RAM keeps the invariant if the cards are sound.       *)
LEMMA LoseRamOK ==
  ASSUME IInv, LoseRam, CardsOK(cards')
  PROVE  IInv'
<1>1. pool' \in [Handles -> File]
  BY ClosedFileOK DEF LoseRam, ClosedPool
<1>2. ram' \in Directories
  BY EmptyDirOK DEF LoseRam, DirOK
<1> QED
  BY <1>1, <1>2, ResultOK DEF LoseRam, IInv, TypeOK, CardsOK

(* A power cut, also within a save or a format, keeps the invariant.       *)
LEMMA PowerOffIInv ==
  ASSUME IInv,
         PowerOff \/ PowerOffInFormat \/ \E h \in Handles, m \in 0 .. CardWords - DataStart : PowerOffInCommit(h, m)
  PROVE  IInv'
<1>1. CASE PowerOff
  BY <1>1, LoseRamOK DEF PowerOff, IInv
<1>2. CASE PowerOffInFormat
  <2>1. slot \in Cards /\ cards[slot] \in Card
    BY <1>2 DEF PowerOffInFormat, IInv, TypeOK
  <2>2. PICK t \in {"stale", HeaderKind(cards[slot])} :
          cards' = [cards EXCEPT ![slot].kind = t]
    BY <1>2 DEF PowerOffInFormat
  <2> DEFINE x == [cards[slot] EXCEPT !.kind = t]
  <2>3. x \in Card /\ x.kind = t /\ x.dir = cards[slot].dir
    BY <2>1 DEF Card, CardKinds, HeaderKind
  <2>4. t = "ready" => DirOK(cards[slot].dir)
    BY <2>1, EmptyDirOK DEF HeaderKind, IInv, CardsOK, CardOK
  <2>5. CardsOK(cards')
    <3>1. cards' = [cards EXCEPT ![slot] = x]
      BY <2>2
    <3> HIDE DEF x
    <3> QED
      BY <2>3, <2>4, <3>1, UpdateCardOK DEF IInv, CardOK
  <2> QED
    BY <1>2, <2>5, LoseRamOK DEF PowerOffInFormat
<1>3. CASE \E h \in Handles, m \in 0 .. CardWords - DataStart : PowerOffInCommit(h, m)
  <2>1. PICK h \in Handles, m \in 0 .. CardWords - DataStart : PowerOffInCommit(h, m)
    BY <1>3
  <2> DEFINE f == pool[h]
             x == [WritableCard EXCEPT
                     !.data = WriteData(cards[slot].data, SavePlace(f), f, m)]
             y == [WritableCard EXCEPT
                     !.dir = WritableDir,
                     !.data = WriteData(cards[slot].data, SavePlace(f), f, m)]
  <2>2. f \in File /\ CanWrite /\ SavePlace(f) # NoRoom /\ m \in 0 .. Len(f.data)
    BY <2>1 DEF PowerOffInCommit, CommitSucceeds, IInv, TypeOK
  <2>3. WritableCard \in Card /\ WritableCard.dir = WritableDir /\ WritableDir \in Directories
        /\ (WritableCard.kind = "ready" => DirOK(WritableDir))
    BY <2>2, WritableOK DEF CardOK
  <2>4. CardsOK([cards EXCEPT ![slot] = y])
    BY <2>2, <2>3, WrittenCardOK
  <2>5. x = y
    BY <2>3 DEF Card
  <2>6. cards' = [cards EXCEPT ![slot] = x]
    BY <2>1 DEF PowerOffInCommit
  <2>7. CardsOK(cards')
    <3> HIDE DEF x, y
    <3> QED
      BY <2>4, <2>5, <2>6
  <2> QED
    BY <2>1, <2>7, LoseRamOK DEF PowerOffInCommit
<1> QED
  BY <1>1, <1>2, <1>3

(* Every call and every act of the player keeps the invariant.             *)
LEMMA NextIInv == IInv /\ [Next]_vars => IInv'
<1> SUFFICES ASSUME IInv, [Next]_vars PROVE IInv'
  OBVIOUS
<1>1. CASE UNCHANGED vars
  BY <1>1 DEF vars, IInv, TypeOK
<1>2. CASE v32file_format
  BY <1>2, FormatIInv
<1>3. CASE \E n \in Names, m \in Modes :
             fopen_existing(n, m) \/ fopen_new(n, m) \/ fopen_refused(n, m) \/ fopen_no_room(n, m)
  BY <1>3, FopenExistingIInv, FopenNewIInv, FopenRefusedIInv, FopenNoRoomIInv
<1>4. ASSUME NEW h \in Handles,
             \/ v32file_close(h) \/ v32file_flush(h) \/ rewind(h)
             \/ v32file_getc(h) \/ ReserveFails(h)
             \/ \E w \in Words : v32file_putc(h, w)
             \/ \E w, x \in Words : fwrite(h, <<w, x>>)
             \/ \E sz, cnt \in 1 .. 2 : fread(h, sz, cnt)
             \/ \E p \in 0 .. MaxSize : fseek(h, p)
      PROVE  IInv'
  <2>1. CASE v32file_close(h) \/ v32file_flush(h) \/ rewind(h)
    BY <2>1, SaveIInv
  <2>2. CASE ~(v32file_close(h) \/ v32file_flush(h) \/ rewind(h))
    BY <1>4, <2>2, BufferIInv
  <2> QED
    BY <2>1, <2>2
<1>5. CASE \E n \in Names : remove(n) \/ \E b \in Names \cup {NoName} : rename(n, b)
  BY <1>5, RemoveIInv, RenameIInv
<1>6. CASE EjectCard \/ \E c \in Cards : InsertCard(c)
  BY <1>6, ChangeCardIInv
<1>7. CASE PowerOff \/ PowerOffInFormat
           \/ \E h \in Handles, m \in 0 .. CardWords - DataStart : PowerOffInCommit(h, m)
  BY <1>7, PowerOffIInv
<1> QED
  BY <1>1, <1>2, <1>3, <1>4, <1>5, <1>6, <1>7 DEF Next

----------------------------------------------------------------------------
(* Theorems                                                                *)

(* Every variable keeps its type, for every instance of the file system.   *)
THEOREM TypeCorrect == Spec => []TypeOK
<1>1. IInv => TypeOK
  BY DEF IInv
<1> QED
  BY <1>1, InitIInv, NextIInv, PTL DEF Spec

(* Whatever a program saves, removes and renames, whichever cards the      *)
(* player swaps, wherever the power goes off and whatever the cards held   *)
(* before: the files of a card with a directory of this code's never share *)
(* a word, never leave the data area and never share a name.               *)
THEOREM DirectoriesStaySound == Spec => []DirectoriesSound
<1>1. IInv => DirectoriesSound
  BY DEF IInv, CardsOK, CardOK, DirOK, DirectoriesSound
<1> QED
  BY <1>1, InitIInv, NextIInv, PTL DEF Spec
----------------------------------------------------------------------------
(* What a program sees: the files on the cards and the copies it has open  *)

(* An open file has a name a program gave it.                              *)
OpenNamed == \A h \in Handles : pool[h].open => pool[h].name \in Names

(* A directory without two files of one name finds the one there is.       *)
LEMMA LookupFinds ==
  ASSUME NEW d, UniqueNames(d), NEW k \in Entries, NEW n \in Names, d[k].name = n
  PROVE  Lookup(d, n) = k
<1>1. n # NoName /\ 0 \notin Entries
  BY LayoutAssumption DEF LayoutAssumption, Entries
<1>2. Lookup(d, n) \in Entries /\ d[Lookup(d, n)].name = n
  BY <1>1, LookupSpec
<1> QED
  BY <1>1, <1>2 DEF UniqueNames

(* A name no entry has is not found.                                       *)
LEMMA LookupMisses ==
  ASSUME NEW d, NEW n, \A k \in Entries : d[k].name # n
  PROVE  Lookup(d, n) = 0
  BY LookupSpec

(* The first entry of a name is found, whatever else the directory holds.  *)
LEMMA LookupFirst ==
  ASSUME NEW d, NEW k \in Entries, NEW n \in Names, d[k].name = n,
         \A j \in Entries : j < k => d[j].name # n
  PROVE  Lookup(d, n) = k
<1>1. n # NoName /\ \A j \in Entries : j \in Nat /\ j # 0
  BY LayoutAssumption DEF LayoutAssumption, Entries
<1>2. Lookup(d, n) \in Entries /\ d[Lookup(d, n)].name = n /\ Lookup(d, n) <= k
  BY <1>1, LookupSpec
<1> QED
  BY <1>1, <1>2

(* The file of an entry, and no file where no entry has the name.          *)
LEMMA FileOfEntry ==
  ASSUME NEW x, x.kind = "ready", DirOK(x.dir),
         NEW k \in Entries, NEW n \in Names, x.dir[k].name = n
  PROVE  Kept(x, n) = FileWords(x.data, x.dir[k])
<1>1. Lookup(x.dir, n) = k /\ k # 0 /\ InArea(x.dir[k])
  BY LookupFinds, LayoutAssumption DEF LayoutAssumption, Entries, DirOK, Sound
<1> QED
  BY <1>1 DEF Kept, FileOn

(* No file is read where no entry has the name.                            *)
LEMMA NoFileOfName ==
  ASSUME NEW x, NEW n, x.kind # "ready" \/ \A k \in Entries : x.dir[k].name # n
  PROVE  Kept(x, n) = Absent
  BY LookupMisses DEF Kept, FileOn

(* A step changes no card but c, and one file of it but n, which holds w.  *)
OnlyCard(c) == \A b \in Cards \ {c} : cards'[b] = cards[b]

SameFiles(x, y) == \A n \in Names : Kept(x, n) = Kept(y, n)

SameButFile(x, y, n) == \A m \in Names \ {n} : Kept(x, m) = Kept(y, m)

FileBecomes(c, n, w) == KeptFiles' = [KeptFiles EXCEPT ![c][n] = w]

(* A card replaced by one that shows the same files.                       *)
LEMMA CardShowsSame ==
  ASSUME NEW c, OnlyCard(c), SameFiles(cards'[c], cards[c])
  PROVE  KeptFiles' = KeptFiles
<1>1. \A b \in Cards : [n \in Names |-> Kept(cards'[b], n)] = [n \in Names |-> Kept(cards[b], n)]
  <2> SUFFICES ASSUME NEW b \in Cards
               PROVE  [n \in Names |-> Kept(cards'[b], n)] = [n \in Names |-> Kept(cards[b], n)]
    OBVIOUS
  <2>1. CASE b = c
    BY <2>1 DEF SameFiles
  <2>2. CASE b # c
    BY <2>2 DEF OnlyCard
  <2> QED
    BY <2>1, <2>2
<1>2. KeptFiles' = [b \in Cards |-> [n \in Names |-> Kept(cards'[b], n)]]
  BY DEF KeptFiles, Kept, FileOn
<1> QED
  BY <1>1, <1>2 DEF KeptFiles

(* One file of one card replaced.                                          *)
LEMMA FileReplaced ==
  ASSUME NEW c \in Cards, OnlyCard(c), NEW n \in Names, NEW w,
         Kept(cards'[c], n) = w, SameButFile(cards'[c], cards[c], n)
  PROVE  FileBecomes(c, n, w)
<1> DEFINE g == [m \in Names |-> Kept(cards[c], m)]
           t == [KeptFiles EXCEPT ![c][n] = w]
<1>1. KeptFiles' = [b \in Cards |-> [m \in Names |-> Kept(cards'[b], m)]]
  BY DEF KeptFiles, Kept, FileOn
<1>2. [m \in Names |-> Kept(cards'[c], m)] = [g EXCEPT ![n] = w]
  BY DEF SameButFile
<1>3. t = [KeptFiles EXCEPT ![c] = [g EXCEPT ![n] = w]]
  BY DEF KeptFiles
<1>4. DOMAIN KeptFiles = Cards /\ KeptFiles = [b \in Cards |-> KeptFiles[b]]
  BY DEF KeptFiles
<1>5. \A b \in Cards \ {c} : KeptFiles'[b] = KeptFiles[b]
  BY <1>1 DEF KeptFiles, OnlyCard
<1> HIDE DEF g
<1>6. t = [b \in Cards |-> IF b = c THEN [g EXCEPT ![n] = w] ELSE KeptFiles[b]]
  <2> HIDE DEF KeptFiles
  <2> QED
    BY <1>3, <1>4
<1>7. \A b \in Cards : KeptFiles'[b] = IF b = c THEN [g EXCEPT ![n] = w] ELSE KeptFiles[b]
  BY <1>1, <1>2, <1>5
<1>8. KeptFiles' = [b \in Cards |-> KeptFiles'[b]]
  BY <1>1
<1>9. KeptFiles' = t
  <2> HIDE DEF t
  <2> QED
    BY <1>6, <1>7, <1>8
<1> QED
  BY <1>9 DEF FileBecomes

(* Cards that are not written hold the files they held.                    *)
LEMMA FilesUnchanged ==
  ASSUME cards' = cards
  PROVE  KeptFiles' = KeptFiles /\ Spoiled' = Spoiled
  BY DEF KeptFiles, Kept, FileOn, Spoiled

(* A card that stays spoiled, or not, spoils no other.                     *)
LEMMA SpoiledSame ==
  ASSUME NEW c, OnlyCard(c), cards'[c].kind = "halfway" <=> cards[c].kind = "halfway"
  PROVE  Spoiled' = Spoiled
BY DEF OnlyCard, Spoiled

(* Whatever is written on a spoiled card, it keeps no file.                *)
LEMMA SpoiledKeepsNone ==
  ASSUME NEW c, OnlyCard(c), cards[c].kind = "halfway", cards'[c].kind = "halfway"
  PROVE  KeptFiles' = KeptFiles /\ Spoiled' = Spoiled
<1>1. SameFiles(cards'[c], cards[c])
  BY DEF SameFiles, Kept
<1> QED
  BY <1>1, CardShowsSame, SpoiledSame

(* A formatted card shows no file.                                         *)
LEMMA FormattedShowsNone ==
  ASSUME NEW x \in Card, NEW n \in Names
  PROVE  Kept(Formatted(x), n) = Absent /\ FileOn(Formatted(x), n) = Absent
<1>1. Formatted(x).dir = EmptyDir
  BY FormattedOK
<1>2. \A k \in Entries : EmptyDir[k].name # n
  BY LayoutAssumption DEF EmptyDir, FreeEntry, LayoutAssumption
<1>3. Lookup(Formatted(x).dir, n) = 0
  BY <1>1, <1>2, LookupMisses
<1> QED
  BY <1>3 DEF Kept, FileOn

(* To make a card ready to be written changes none of its files.           *)
LEMMA WritableShowsSame ==
  ASSUME IInv, CanWrite, NEW n \in Names
  PROVE  /\ Kept(WritableCard, n) = Kept(cards[slot], n)
         /\ FileOn(WritableCard, n) = FileOn(cards[slot], n)
<1>1. slot \in Cards /\ cards[slot] \in Card
  BY WritableOK
<1>2. CASE CardState = "blank"
  <2>1. cards[slot].kind \notin {"ready", "halfway"} /\ WritableCard = Formatted(cards[slot])
    BY <1>1, <1>2 DEF CardState, WritableCard
  <2>2. Kept(cards[slot], n) = Absent /\ FileOn(cards[slot], n) = Absent
    BY <2>1 DEF Kept, FileOn
  <2> QED
    BY <1>1, <2>1, <2>2, FormattedShowsNone
<1>3. CASE CardState = "ready"
  BY <1>3 DEF WritableCard
<1> QED
  BY <1>2, <1>3 DEF CanWrite

(* The words of entry e lie in the data area, and none of them among the n *)
(* at s.                                                                   *)
Elsewhere(e, s, n) ==
  /\ e.size \in Nat /\ e.start \in Int
  /\ e.size # 0 => DataStart <= e.start /\ e.start + e.size <= CardWords
  /\ e.size # 0 => ~(s < e.start + e.size /\ e.start < s + n)

(* Space that is free for entry k is no part of another file.              *)
LEMMA OthersElsewhere ==
  ASSUME NEW d, DirOK(d), NEW k, NEW s, NEW n, Free(d, k, s, n),
         NEW j \in Entries, j # k, d[j].name # NoName
  PROVE  Elsewhere(d[j], s, n)
<1> DEFINE e == d[j]
<1>1. e \in Entry /\ e.name # NoName
  BY DEF DirOK, Directories
<1>2. e.size \in Nat /\ e.start \in Int
  BY <1>1 DEF Entry
<1>3. e.size # 0 => DataStart <= e.start /\ e.start + e.size <= CardWords
  BY <1>1 DEF DirOK, Sound, InArea, Occupies
<1>4. e.size # 0 => ~(s < e.start + e.size /\ e.start < s + n)
  BY <1>1 DEF Free, Clear, Collides, Occupies
<1> QED
  BY <1>2, <1>3, <1>4 DEF Elsewhere

(* A save does not write the words that lie elsewhere.                     *)
LEMMA OthersNotWritten ==
  ASSUME NEW data, NEW f \in File, NEW s \in DataStart .. CardWords,
         NEW m \in 0 .. Len(f.data),
         NEW e, Elsewhere(e, s, Len(f.data))
  PROVE  FileWords(WriteData(data, s, f, m), e) = FileWords(data, e)
<1> DEFINE w == WriteData(data, s, f, m)
<1>1. Len(f.data) \in Nat /\ s \in Nat /\ DataStart \in Nat /\ CardWords \in Nat
  BY LayoutAssumption DEF File, LayoutAssumption
<1>2. ASSUME NEW i \in 1 .. e.size
      PROVE  w[e.start + i - 1] = data[e.start + i - 1]
  <2>1. /\ i \in Nat /\ 1 <= i /\ i <= e.size /\ e.start \in Int /\ e.size \in Nat
        /\ DataStart <= e.start /\ e.start + e.size <= CardWords
        /\ ~(s < e.start + e.size /\ e.start < s + Len(f.data))
    BY DEF Elsewhere
  <2>2. e.start + i - 1 \in DataArea
    BY <1>1, <2>1 DEF DataArea
  <2>3. e.start + i - 1 \notin s .. s + m - 1
    BY <1>1, <2>1
  <2> QED
    BY <2>2, <2>3 DEF WriteData
<1> HIDE DEF w
<1>3. FileWords(w, e) = FileWords(data, e)
  BY <1>2 DEF FileWords
<1> QED
  BY <1>3 DEF w

(* The whole of a file's words are read back from where they were written. *)
LEMMA WrittenReadsBack ==
  ASSUME NEW data \in [DataArea -> Words], NEW f \in File, NEW s \in DataStart .. CardWords,
         s + Len(f.data) <= CardWords,
         NEW e, e.start = s, e.size = Len(f.data)
  PROVE  FileWords(WriteData(data, s, f, Len(f.data)), e) = f.data
<1>1. Len(f.data) \in Nat /\ s \in Nat /\ DataStart \in Nat /\ CardWords \in Nat /\ f.data \in Seq(Words)
  BY LayoutAssumption DEF File, LayoutAssumption
<1> DEFINE n == Len(f.data)
           w == WriteData(data, s, f, n)
<1>2. ASSUME NEW i \in 1 .. n
      PROVE  w[s + i - 1] = f.data[i]
  <2>1. s + i - 1 \in DataArea /\ s + i - 1 \in s .. s + n - 1 /\ (s + i - 1) - s + 1 = i
    BY <1>1 DEF DataArea
  <2> QED
    BY <2>1 DEF WriteData
<1>3. f.data = [i \in 1 .. n |-> f.data[i]]
  BY <1>1
<1>4. FileWords(w, e) = [i \in 1 .. n |-> w[s + i - 1]]
  BY DEF FileWords
<1> HIDE DEF w
<1>5. FileWords(w, e) = f.data
  BY <1>2, <1>3, <1>4
<1> QED
  BY <1>5 DEF w

(* A save takes the file's own entry or a free one.                        *)
LEMMA SaveEntryName ==
  ASSUME NEW f, SaveEntry(f) # 0
  PROVE  WritableDir[SaveEntry(f)].name \in {f.name, NoName}
BY LookupSpec, FirstUnusedSpec DEF SaveEntry

(* A card made ready to be written shows the files it showed.              *)
LEMMA WritableSeen ==
  ASSUME IInv, CanWrite, cards' = [cards EXCEPT ![slot] = WritableCard]
  PROVE  KeptFiles' = KeptFiles /\ Spoiled' = Spoiled /\ Files' = Files
<1>1. cards \in [Cards -> Card] /\ slot \in Cards
  BY WritableOK DEF IInv, CardsOK
<1>2. cards'[slot] = WritableCard /\ OnlyCard(slot)
  BY <1>1 DEF OnlyCard
<1>3. SameFiles(cards'[slot], cards[slot])
  BY <1>2, WritableShowsSame DEF SameFiles
<1>4. Spoiled' = Spoiled
  BY <1>2, WritableOK, SpoiledSame
<1>5. \A c \in Cards : \A n \in Names : FileOn(cards'[c], n) = FileOn(cards[c], n)
  BY <1>2, WritableShowsSame DEF OnlyCard
<1>6. Files' = [c \in Cards |-> [n \in Names |-> FileOn(cards'[c], n)]]
  BY DEF Files, FileOn
<1>7. Files' = Files
  BY <1>5, <1>6 DEF Files
<1> QED
  BY <1>2, <1>3, <1>4, <1>7, CardShowsSame

(* A save puts the words that were held open on the card, under the name   *)
(* they were opened by, also on a card that was wrongly taken for ready.   *)
LEMMA SavedIsFound ==
  ASSUME IInv, CanWrite, NEW f \in File, f.name \in Names, SavePlace(f) # NoRoom,
         NEW x,
         x = [WritableCard EXCEPT
                !.dir = SavedDir(f),
                !.data = WriteData(cards[slot].data, SavePlace(f), f, Len(f.data))]
  PROVE  /\ FileOn(x, f.name) = f.data
         /\ x.kind = WritableCard.kind /\ x.dir = SavedDir(f)
         /\ x.data = WriteData(cards[slot].data, SavePlace(f), f, Len(f.data))
<1> DEFINE d == WritableDir
           k == SaveEntry(f)
           s == SavePlace(f)
           new == WriteData(cards[slot].data, s, f, Len(f.data))
           e == [name |-> f.name, start |-> s, size |-> Len(f.data)]
<1>1. /\ WritableCard \in Card /\ d \in Directories
      /\ WritableCard.kind \in {"ready", "halfway"} /\ cards[slot] \in Card
  BY WritableOK DEF CardOK
<1>2. /\ k \in Entries /\ s \in DataStart .. CardWords
      /\ Free(d, k, s, Len(f.data))
  BY SavedOK
<1>3. x.kind = WritableCard.kind /\ x.dir = SavedDir(f) /\ x.data = new
  BY <1>1 DEF Card
<1>4. SavedDir(f)[k] = e /\ \A j \in Entries : j # k => SavedDir(f)[j] = d[j]
  BY <1>1, <1>2 DEF SavedDir, Directories
<1>5. cards[slot].data \in [DataArea -> Words] /\ s + Len(f.data) <= CardWords
  BY <1>1, <1>2 DEF Card, Free
<1>6. k # 0 /\ \A j \in Entries : j \in Nat /\ j # 0
  BY <1>2, LayoutAssumption DEF LayoutAssumption, Entries
<1>7. \A j \in Entries : j < k => d[j].name # f.name
  <2>1. CASE Lookup(d, f.name) # 0
    <3>1. k = Lookup(d, f.name)
      BY <2>1 DEF SaveEntry
    <3>2. \A j \in Entries : d[j].name = f.name => k <= j
      BY <2>1, <3>1, LookupSpec
    <3> QED
      BY <1>2, <1>6, <3>2
  <2>2. CASE Lookup(d, f.name) = 0
    <3>1. f.name # NoName
      BY LayoutAssumption DEF LayoutAssumption
    <3> QED
      BY <1>6, <2>2, <3>1, LookupSpec
  <2> QED
    BY <2>1, <2>2
<1> HIDE DEF d, k, s, new
<1>8. Lookup(x.dir, f.name) = k
  <2>1. x.dir[k].name = f.name
    BY <1>3, <1>4
  <2>2. \A j \in Entries : j < k => x.dir[j].name # f.name
    BY <1>2, <1>3, <1>4, <1>6, <1>7
  <2> QED
    BY <1>2, <2>1, <2>2, LookupFirst
<1>9. x.dir[k] = e /\ InArea(e)
  BY <1>2, <1>3, <1>4, <1>5 DEF InArea
<1>10. FileWords(new, e) = f.data
  BY <1>2, <1>5, WrittenReadsBack DEF new
<1>11. FileOn(x, f.name) = FileWords(x.data, x.dir[k])
  BY <1>1, <1>3, <1>6, <1>8, <1>9 DEF FileOn
<1> QED
  BY <1>3, <1>9, <1>10, <1>11 DEF new, s

(* A card after a save: every other file holds the words it held.          *)
LEMMA CommitStores ==
  ASSUME IInv, CanWrite, NEW f \in File, f.name \in Names, SavePlace(f) # NoRoom,
         WritableCard.kind = "ready",
         NEW x,
         x = [WritableCard EXCEPT
                !.dir = SavedDir(f),
                !.data = WriteData(cards[slot].data, SavePlace(f), f, Len(f.data))]
  PROVE  /\ Kept(x, f.name) = f.data
         /\ \A n \in Names : n # f.name => Kept(x, n) = Kept(cards[slot], n)
<1> DEFINE d == WritableDir
           k == SaveEntry(f)
           s == SavePlace(f)
           old == cards[slot].data
           new == WriteData(old, s, f, Len(f.data))
<1>1. /\ WritableCard.dir = d /\ DirOK(d)
      /\ WritableCard.kind = "ready" /\ WritableCard.data = old /\ cards[slot] \in Card
  BY WritableOK
<1>2. /\ k \in Entries /\ s \in DataStart .. CardWords
      /\ Free(d, k, s, Len(f.data)) /\ DirOK(SavedDir(f))
  BY SavedOK
<1>3. x.kind = "ready" /\ x.dir = SavedDir(f) /\ x.data = new /\ FileOn(x, f.name) = f.data
  BY <1>1, SavedIsFound
<1>4. SavedDir(f)[k].name = f.name /\ \A j \in Entries : j # k => SavedDir(f)[j] = d[j]
  BY <1>1, <1>2 DEF SavedDir, DirOK, Directories
<1>5. old \in [DataArea -> Words] /\ Len(f.data) \in 0 .. Len(f.data)
  BY <1>1 DEF Card, File
<1>7. d[k].name \in {f.name, NoName}
  <2>1. k # 0
    BY <1>2, LayoutAssumption DEF LayoutAssumption, Entries
  <2> QED
    BY <2>1, SaveEntryName
<1> HIDE DEF d, k, s, old, new
<1>8. Kept(x, f.name) = f.data
  BY <1>3 DEF Kept
<1>9. ASSUME NEW n \in Names, n # f.name
      PROVE  Kept(x, n) = Kept(WritableCard, n)
  <2>1. n # NoName
    BY LayoutAssumption DEF LayoutAssumption
  <2>2. CASE \E j \in Entries : d[j].name = n
    <3>1. PICK j \in Entries : d[j].name = n
      BY <2>2
    <3>2. j # k /\ SavedDir(f)[j] = d[j]
      BY <1>4, <1>7, <1>9, <2>1, <3>1
    <3>3. Kept(x, n) = FileWords(new, d[j])
      BY <1>2, <1>3, <3>1, <3>2, FileOfEntry
    <3>4. FileWords(new, d[j]) = FileWords(old, d[j])
      <4>1. DirOK(d) /\ Free(d, k, s, Len(f.data)) /\ d[j].name # NoName
        BY <1>1, <1>2, <2>1, <3>1
      <4>2. Elsewhere(d[j], s, Len(f.data))
        BY <3>2, <4>1, OthersElsewhere
      <4>3. FileWords(WriteData(old, s, f, Len(f.data)), d[j]) = FileWords(old, d[j])
        BY <1>2, <1>5, <4>2, OthersNotWritten
      <4> QED
        BY <4>3 DEF new
    <3>5. Kept(WritableCard, n) = FileWords(old, d[j])
      BY <1>1, <3>1, FileOfEntry
    <3> QED
      BY <3>3, <3>4, <3>5
  <2>3. CASE \A j \in Entries : d[j].name # n
    <3>1. \A j \in Entries : x.dir[j].name # n
      BY <1>3, <1>4, <1>9, <2>3
    <3>2. \A j \in Entries : WritableCard.dir[j].name # n
      BY <1>1, <2>3
    <3>3. Kept(x, n) = Absent
      BY <3>1, NoFileOfName
    <3>4. Kept(WritableCard, n) = Absent
      BY <3>2, NoFileOfName
    <3> QED
      BY <3>3, <3>4
  <2> QED
    BY <2>2, <2>3
<1> QED
  BY <1>8, <1>9, WritableShowsSame

(* What v32file_commit does to the files of the cards.                     *)
LEMMA CommittedFiles ==
  ASSUME IInv, NEW f \in File, f.name \in Names, cards' = CommittedCards(f)
  PROVE  /\ Spoiled' = Spoiled
         /\ \/ KeptFiles' = KeptFiles
            \/ /\ slot \in Cards \ Spoiled
               /\ FileBecomes(slot, f.name, f.data)
<1>0. cards \in [Cards -> Card]
  BY DEF IInv, CardsOK
<1>1. CASE ~f.dirty \/ ~CanWrite
  <2>1. cards' = cards
    BY <1>1 DEF CommittedCards
  <2> QED
    BY <2>1, FilesUnchanged
<1>2. CASE f.dirty /\ CanWrite /\ SavePlace(f) = NoRoom
  <2>1. cards' = [cards EXCEPT ![slot] = WritableCard]
    BY <1>2 DEF CommittedCards
  <2> QED
    BY <1>2, <2>1, WritableSeen
<1>3. CASE f.dirty /\ CanWrite /\ SavePlace(f) # NoRoom
  <2> DEFINE x == [WritableCard EXCEPT
                     !.dir = SavedDir(f),
                     !.data = WriteData(cards[slot].data, SavePlace(f), f, Len(f.data))]
  <2>1. cards' = [cards EXCEPT ![slot] = x] /\ slot \in Cards
    BY <1>3, WritableOK DEF CommittedCards
  <2>2. x.kind = IF cards[slot].kind = "halfway" THEN "halfway" ELSE "ready"
    BY <1>3, WritableOK, SavedIsFound
  <2>3. WritableCard.kind = "ready" => Kept(x, f.name) = f.data /\ SameButFile(x, cards[slot], f.name)
    BY <1>3, CommitStores DEF SameButFile
  <2> HIDE DEF x
  <2>4. cards'[slot] = x /\ OnlyCard(slot)
    BY <1>0, <2>1 DEF OnlyCard
  <2>5. Spoiled' = Spoiled
    BY <2>2, <2>4, SpoiledSame
  <2>6. CASE cards[slot].kind = "halfway"
    BY <2>2, <2>4, <2>6, SpoiledKeepsNone
  <2>7. CASE cards[slot].kind # "halfway"
    <3>1. Kept(x, f.name) = f.data /\ SameButFile(x, cards[slot], f.name)
      BY <1>3, <2>3, <2>7, WritableOK
    <3>2. FileBecomes(slot, f.name, f.data)
      BY <2>1, <2>4, <3>1, FileReplaced
    <3> QED
      BY <2>1, <2>5, <2>7, <3>2 DEF Spoiled
  <2> QED
    BY <2>6, <2>7
<1> QED
  BY <1>1, <1>2, <1>3

----------------------------------------------------------------------------
(* Another game's card                                                     *)

(* The calls that write a card write the one in the slot, and only if it   *)
(* is this program's or blank.                                             *)
ForeignKept == \A c \in Cards : cards[c].kind = "foreign" => cards'[c] = cards[c]

(* The card that may be written is not another game's.                     *)
LEMMA CanWriteOwn ==
  ASSUME CanWrite \/ CardState = "ready"
  PROVE  cards[slot].kind # "foreign"
BY DEF CanWrite, CardState

(* A commit, successful or not, keeps other games' cards.                  *)
LEMMA CommitKeepsForeign ==
  ASSUME DOMAIN cards = Cards, NEW f, cards' = CommittedCards(f)
  PROVE  ForeignKept
<1>1. CASE ~f.dirty \/ ~CanWrite
  BY <1>1 DEF CommittedCards, ForeignKept
<1>2. CASE f.dirty /\ CanWrite
  <2>1. cards[slot].kind # "foreign"
    BY <1>2, CanWriteOwn
  <2>2. CASE SavePlace(f) = NoRoom
    <3>1. cards' = [cards EXCEPT ![slot] = WritableCard]
      BY <1>2, <2>2 DEF CommittedCards
    <3> QED
      BY <2>1, <3>1 DEF ForeignKept
  <2>3. CASE SavePlace(f) # NoRoom
    <3> DEFINE x == [WritableCard EXCEPT
                       !.dir = SavedDir(f),
                       !.data = WriteData(cards[slot].data, SavePlace(f), f, Len(f.data))]
    <3>1. cards' = [cards EXCEPT ![slot] = x]
      BY <1>2, <2>3 DEF CommittedCards
    <3> HIDE DEF x
    <3> QED
      BY <2>1, <3>1 DEF ForeignKept
  <2> QED
    BY <2>2, <2>3
<1> QED
  BY <1>1, <1>2

(* fopen keeps them, though it may format a blank card.                    *)
LEMMA FopenKeepsForeign ==
  ASSUME DOMAIN cards = Cards, NEW n, NEW m,
         fopen_existing(n, m) \/ fopen_new(n, m) \/ fopen_refused(n, m) \/ fopen_no_room(n, m)
  PROVE  ForeignKept
<1>1. cards' = cards \/ (CanWrite /\ cards' = [cards EXCEPT ![slot] = WritableCard])
  BY DEF fopen_existing, fopen_new, fopen_refused, fopen_no_room
<1> QED
  BY <1>1, CanWriteOwn DEF ForeignKept

(* remove and rename keep them.                                            *)
LEMMA WriteDirKeepsForeign ==
  ASSUME DOMAIN cards = Cards, CardState = "ready", NEW d, WriteDir(d)
  PROVE  ForeignKept
BY CanWriteOwn DEF WriteDir, ForeignKept

(* Every step keeps another game's card, or is the program's own format.   *)
LEMMA NextKeepsForeign ==
  ASSUME DOMAIN cards = Cards, Next
  PROVE  v32file_format \/ PowerOffInFormat \/ ForeignKept
<1>1. CASE \E n \in Names, m \in Modes :
             fopen_existing(n, m) \/ fopen_new(n, m) \/ fopen_refused(n, m) \/ fopen_no_room(n, m)
  BY <1>1, FopenKeepsForeign
<1>2. ASSUME NEW h \in Handles, v32file_close(h) \/ v32file_flush(h) \/ rewind(h)
      PROVE  ForeignKept
  BY <1>2, CommitKeepsForeign DEF v32file_close, v32file_flush, rewind, Commit
<1>3. ASSUME NEW h \in Handles,
             \/ v32file_getc(h) \/ ReserveFails(h)
             \/ \E w \in Words : v32file_putc(h, w)
             \/ \E w, x \in Words : fwrite(h, <<w, x>>)
             \/ \E sz, cnt \in 1 .. 2 : fread(h, sz, cnt)
             \/ \E p \in 0 .. MaxSize : fseek(h, p)
      PROVE  ForeignKept
  <2>1. cards' = cards
    BY <1>3 DEF v32file_getc, ReserveFails, v32file_putc, fwrite, WriteWords, fread, fseek
  <2> QED
    BY <2>1 DEF ForeignKept
<1>4. CASE \E n \in Names : remove(n) \/ \E b \in Names \cup {NoName} : rename(n, b)
  <2>1. cards' = cards \/ (CardState = "ready" /\ \E d : WriteDir(d))
    BY <1>4 DEF remove, rename
  <2> QED
    BY <2>1, WriteDirKeepsForeign DEF ForeignKept
<1>5. CASE EjectCard \/ PowerOff \/ \E c \in Cards : InsertCard(c)
  BY <1>5 DEF EjectCard, InsertCard, PowerOff, ForeignKept
<1>6. ASSUME NEW h \in Handles, NEW m \in 0 .. CardWords - DataStart, PowerOffInCommit(h, m)
      PROVE  ForeignKept
  <2> DEFINE f == pool[h]
             x == [WritableCard EXCEPT
                     !.data = WriteData(cards[slot].data, SavePlace(f), f, m)]
  <2>1. CanWrite /\ cards' = [cards EXCEPT ![slot] = x]
    BY <1>6 DEF PowerOffInCommit, CommitSucceeds
  <2> HIDE DEF x
  <2> QED
    BY <2>1, CanWriteOwn DEF ForeignKept
<1> QED
  BY <1>1, <1>2, <1>3, <1>4, <1>5, <1>6 DEF Next

(* No step adds or loses a card.                                           *)
LEMMA CommitKeepsCards ==
  ASSUME NEW f, cards' = CommittedCards(f)
  PROVE  DOMAIN cards' = DOMAIN cards
<1>1. CASE f.dirty /\ CanWrite /\ SavePlace(f) # NoRoom
  <2> DEFINE x == [WritableCard EXCEPT
                     !.dir = SavedDir(f),
                     !.data = WriteData(cards[slot].data, SavePlace(f), f, Len(f.data))]
  <2>1. cards' = [cards EXCEPT ![slot] = x]
    BY <1>1 DEF CommittedCards
  <2> HIDE DEF x
  <2> QED
    BY <2>1
<1>2. CASE ~(f.dirty /\ CanWrite /\ SavePlace(f) # NoRoom)
  BY <1>2 DEF CommittedCards
<1> QED
  BY <1>1, <1>2

(* Neither does any step.                                                  *)
LEMMA NextKeepsCards == [Next]_vars => DOMAIN cards' = DOMAIN cards
<1> SUFFICES ASSUME [Next]_vars PROVE DOMAIN cards' = DOMAIN cards
  OBVIOUS
<1>1. CASE UNCHANGED vars
  BY <1>1 DEF vars
<1>2. CASE v32file_format \/ PowerOffInFormat
  BY <1>2 DEF v32file_format, PowerOffInFormat
<1>3. CASE \E n \in Names, m \in Modes :
             fopen_existing(n, m) \/ fopen_new(n, m) \/ fopen_refused(n, m) \/ fopen_no_room(n, m)
  <2>1. cards' = cards \/ cards' = [cards EXCEPT ![slot] = WritableCard]
    BY <1>3 DEF fopen_existing, fopen_new, fopen_refused, fopen_no_room
  <2> QED
    BY <2>1
<1>4. ASSUME NEW h \in Handles, v32file_close(h) \/ v32file_flush(h) \/ rewind(h)
      PROVE  DOMAIN cards' = DOMAIN cards
  BY <1>4, CommitKeepsCards DEF v32file_close, v32file_flush, rewind, Commit
<1>5. ASSUME NEW h \in Handles,
             \/ v32file_getc(h) \/ ReserveFails(h)
             \/ \E w \in Words : v32file_putc(h, w)
             \/ \E w, x \in Words : fwrite(h, <<w, x>>)
             \/ \E sz, cnt \in 1 .. 2 : fread(h, sz, cnt)
             \/ \E p \in 0 .. MaxSize : fseek(h, p)
      PROVE  DOMAIN cards' = DOMAIN cards
  BY <1>5 DEF v32file_getc, ReserveFails, v32file_putc, fwrite, WriteWords, fread, fseek
<1>6. CASE \E n \in Names : remove(n) \/ \E b \in Names \cup {NoName} : rename(n, b)
  <2>1. cards' = cards \/ \E d : cards' = [cards EXCEPT ![slot].dir = d]
    BY <1>6 DEF remove, rename, WriteDir
  <2> QED
    BY <2>1
<1>7. CASE EjectCard \/ PowerOff \/ \E c \in Cards : InsertCard(c)
  BY <1>7 DEF EjectCard, InsertCard, PowerOff
<1>8. ASSUME NEW h \in Handles, NEW m \in 0 .. CardWords - DataStart, PowerOffInCommit(h, m)
      PROVE  DOMAIN cards' = DOMAIN cards
  <2> DEFINE f == pool[h]
             x == [WritableCard EXCEPT
                     !.data = WriteData(cards[slot].data, SavePlace(f), f, m)]
  <2>1. cards' = [cards EXCEPT ![slot] = x]
    BY <1>8 DEF PowerOffInCommit
  <2> HIDE DEF x
  <2> QED
    BY <2>1
<1> QED
  BY <1>1, <1>2, <1>3, <1>4, <1>5, <1>6, <1>7, <1>8 DEF Next

(* Whatever the program calls and whenever the player swaps the card: what *)
(* another game left on a card is changed by v32file_format alone, which   *)
(* the program has to call itself.                                         *)
THEOREM ForeignCardsAreSafe == Spec => ForeignNeverWritten
<1> DEFINE Safe == v32file_format \/ PowerOffInFormat
                   \/ \A c \in Cards : cards[c].kind = "foreign" => cards'[c] = cards[c]
           KeepsCards == DOMAIN cards = Cards
<1>1. Init => KeepsCards
  BY DEF Init
<1>2. KeepsCards /\ [Next]_vars => KeepsCards'
  BY NextKeepsCards
<1>3. KeepsCards /\ [Next]_vars => [Safe]_vars
  BY NextKeepsForeign DEF ForeignKept
<1>4. Spec => [][Safe]_vars
  <2> HIDE DEF Safe, KeepsCards
  <2> QED
    BY <1>1, <1>2, <1>3, PTL DEF Spec
<1> QED
  BY <1>4 DEF ForeignNeverWritten

----------------------------------------------------------------------------
(* What a call does to the open files                                      *)

Saves(h) == v32file_close(h) \/ v32file_flush(h) \/ rewind(h)

(* A handle after a commit: closed, or clean if its words were saved.      *)
After(f, g) ==
  g.open => /\ g.name = f.name /\ g.data = f.data
            /\ g.dirty <=> ~CommitSucceeds(f)

(* fclose, fflush and rewind: one commit, one handle.                      *)
LEMMA SaveStep ==
  ASSUME IInv, NEW h \in Handles, Saves(h)
  PROVE  /\ pool[h] \in File /\ pool[h].open
         /\ cards' = CommittedCards(pool[h]) /\ slot' = slot
         /\ \E g \in File : pool' = [pool EXCEPT ![h] = g] /\ After(pool[h], g)
<1> DEFINE f == pool[h]
<1>1. f \in File /\ f.open
  BY DEF IInv, TypeOK, Saves, v32file_close, v32file_flush, rewind
<1>2. cards' = CommittedCards(f) /\ slot' = slot
  BY DEF Saves, v32file_close, v32file_flush, rewind, Commit
<1>3. Committed(f) \in File /\ After(f, Committed(f))
  BY <1>1, CommittedFileOK DEF After, Committed, CommitSucceeds, File
<1>4. \E g \in File : pool' = [pool EXCEPT ![h] = g] /\ After(f, g)
  <2>1. CASE v32file_close(h)
    <3>1. After(f, ClosedFile)
      BY DEF After, ClosedFile
    <3> QED
      BY <2>1, <3>1, ClosedFileOK DEF v32file_close
  <2>2. CASE v32file_flush(h)
    BY <1>3, <2>2 DEF v32file_flush
  <2>3. CASE rewind(h)
    <3> DEFINE c == Committed(f)
               g == [c EXCEPT !.pos = 0, !.eof = FALSE, !.error = FALSE]
    <3>1. pool' = [pool EXCEPT ![h] = g]
      BY <2>3 DEF rewind
    <3>2. g \in File /\ g.open = c.open /\ g.name = c.name /\ g.data = c.data /\ g.dirty = c.dirty
      <4>1. c \in File
        BY <1>3
      <4> HIDE DEF c
      <4> QED
        BY <4>1 DEF File
    <3>3. After(f, g)
      <4> HIDE DEF g
      <4> QED
        BY <1>3, <3>2 DEF After
    <3> HIDE DEF g
    <3> QED
      BY <3>1, <3>2, <3>3
  <2> QED
    BY <2>1, <2>2, <2>3 DEF Saves
<1> QED
  BY <1>1, <1>2, <1>4

(* Every step opens, edits or saves one handle, or closes them all.        *)
OpensHandle(h) ==
  FreeHandle(h) /\ \E g \in File : pool' = [pool EXCEPT ![h] = g] /\ g.name \in Names

(* fopen takes a free handle, if any.                                      *)
LEMMA FopenStep ==
  ASSUME IInv, NEW n \in Names, NEW m \in Modes,
         fopen_existing(n, m) \/ fopen_new(n, m) \/ fopen_refused(n, m) \/ fopen_no_room(n, m)
  PROVE  last' = Other /\ (pool' = pool \/ \E h \in Handles : OpensHandle(h))
<1>1. CASE fopen_existing(n, m)
  <2>1. PICK h \in Handles, w \in Seq(Words) :
          FreeHandle(h) /\ pool' = [pool EXCEPT ![h] = Opened(n, m, w)]
    BY <1>1, FopenReads
  <2>5. Opened(n, m, w) \in File /\ Opened(n, m, w).name = n
    BY OpenedOK DEF Opened
  <2>6. OpensHandle(h)
    BY <2>1, <2>5 DEF OpensHandle
  <2> QED
    BY <1>1, <2>6 DEF fopen_existing
<1>2. CASE fopen_new(n, m)
  <2> DEFINE g == [Opened(n, m, <<>>) EXCEPT !.dirty = TRUE]
  <2>1. PICK h \in Handles : FreeHandle(h) /\ pool' = [pool EXCEPT ![h] = g]
    BY <1>2 DEF fopen_new
  <2>2. g \in File /\ g.name = n
    <3>1. <<>> \in Seq(Words)
      OBVIOUS
    <3>2. Opened(n, m, <<>>) \in File /\ g \in File
      BY <3>1, OpenedOK
    <3>3. g.name = n
      BY DEF Opened
    <3> QED
      BY <3>2, <3>3
  <2> HIDE DEF g
  <2>3. OpensHandle(h)
    BY <2>1, <2>2 DEF OpensHandle
  <2> QED
    BY <1>2, <2>3 DEF fopen_new
<1>3. CASE fopen_refused(n, m) \/ fopen_no_room(n, m)
  BY <1>3 DEF fopen_refused, fopen_no_room
<1> QED
  BY <1>1, <1>2, <1>3

(* What a step may do to the open files.                                   *)
LEMMA PoolStep ==
  ASSUME IInv, Next
  PROVE  \/ pool' = pool
         \/ pool' = ClosedPool /\ last' = Other
         \/ \E h \in Handles : last' = Other /\ OpensHandle(h)
         \/ \E h \in Handles : last' = Other /\ KeepsHandle(h)
         \/ \E h \in Handles : Saves(h)
<1>1. CASE v32file_format
  BY <1>1 DEF v32file_format
<1>2. CASE \E n \in Names, m \in Modes :
             fopen_existing(n, m) \/ fopen_new(n, m) \/ fopen_refused(n, m) \/ fopen_no_room(n, m)
  BY <1>2, FopenStep
<1>3. ASSUME NEW h \in Handles, v32file_close(h) \/ v32file_flush(h) \/ rewind(h)
      PROVE  Saves(h)
  BY <1>3 DEF Saves
<1>4. ASSUME NEW h \in Handles,
             \/ v32file_getc(h) \/ ReserveFails(h)
             \/ \E w \in Words : v32file_putc(h, w)
             \/ \E w, x \in Words : fwrite(h, <<w, x>>)
             \/ \E sz, cnt \in 1 .. 2 : fread(h, sz, cnt)
             \/ \E p \in 0 .. MaxSize : fseek(h, p)
      PROVE  last' = Other /\ KeepsHandle(h)
  BY <1>4, BufferStep
<1>5. CASE \E n \in Names : remove(n) \/ \E b \in Names \cup {NoName} : rename(n, b)
  BY <1>5 DEF remove, rename
<1>6. CASE EjectCard \/ \E c \in Cards : InsertCard(c)
  BY <1>6 DEF EjectCard, InsertCard
<1>7. CASE PowerOff \/ PowerOffInFormat
           \/ \E h \in Handles, m \in 0 .. CardWords - DataStart : PowerOffInCommit(h, m)
  BY <1>7 DEF PowerOff, PowerOffInFormat, PowerOffInCommit, LoseRam
<1> QED
  BY <1>1, <1>2, <1>3, <1>4, <1>5, <1>6, <1>7 DEF Next

(* Open files keep their names.                                            *)
LEMMA HandleNamed ==
  ASSUME IInv, OpenNamed, NEW h \in Handles, NEW g, g.open => g.name \in Names,
         pool' = [pool EXCEPT ![h] = g]
  PROVE  OpenNamed'
<1>1. pool \in [Handles -> File]
  BY DEF IInv, TypeOK
<1>2. \A k \in Handles : pool'[k] = IF k = h THEN g ELSE pool[k]
  BY <1>1
<1> QED
  BY <1>2 DEF OpenNamed, Handles

(* No file is open when the game starts.                                   *)
LEMMA InitNamed == Init => OpenNamed
BY DEF Init, ClosedPool, ClosedFile, OpenNamed

(* Every step keeps a name with every open file.                           *)
LEMMA NextNamed ==
  ASSUME IInv, OpenNamed, [Next]_vars
  PROVE  OpenNamed'
<1>1. CASE pool' = pool
  BY <1>1 DEF OpenNamed, Handles
<1>2. CASE pool' = ClosedPool
  BY <1>2 DEF OpenNamed, ClosedPool, ClosedFile, Handles
<1>3. ASSUME NEW h \in Handles, OpensHandle(h)
      PROVE  OpenNamed'
  BY <1>3, HandleNamed DEF OpensHandle
<1>4. ASSUME NEW h \in Handles, KeepsHandle(h)
      PROVE  OpenNamed'
  <2>1. PICK g \in File : pool' = [pool EXCEPT ![h] = g] /\ Keeps(pool[h], g)
    BY <1>4 DEF KeepsHandle
  <2>2. g.open => g.name \in Names
    BY <2>1 DEF Keeps, OpenNamed
  <2> QED
    BY <2>1, <2>2, HandleNamed
<1>5. ASSUME NEW h \in Handles, Saves(h)
      PROVE  OpenNamed'
  <2>1. PICK g \in File : pool' = [pool EXCEPT ![h] = g] /\ After(pool[h], g)
    BY <1>5, SaveStep
  <2>2. g.open => g.name \in Names
    BY <1>5, <2>1, SaveStep DEF After, OpenNamed
  <2> QED
    BY <2>1, <2>2, HandleNamed
<1>6. CASE UNCHANGED vars
  BY <1>1, <1>6 DEF vars
<1> QED
  BY <1>1, <1>2, <1>3, <1>4, <1>5, <1>6, PoolStep

----------------------------------------------------------------------------
(* What a save tells the program                                           *)

(* A file that has become w is w.                                          *)
LEMMA BecomesHolds ==
  ASSUME NEW c \in Cards, NEW n \in Names, NEW w, FileBecomes(c, n, w)
  PROVE  KeptFiles'[c][n] = w
<1>1. KeptFiles = [b \in Cards |-> [m \in Names |-> Kept(cards[b], m)]]
  BY DEF KeptFiles
<1> DEFINE g == [m \in Names |-> Kept(cards[c], m)]
<1>2. KeptFiles[c] = g
  BY <1>1
<1>3. [KeptFiles EXCEPT ![c][n] = w] = [KeptFiles EXCEPT ![c] = [g EXCEPT ![n] = w]]
  BY <1>1
<1>4. [g EXCEPT ![n] = w][n] = w
  OBVIOUS
<1> HIDE DEF g
<1>5. [KeptFiles EXCEPT ![c] = [g EXCEPT ![n] = w]][c] = [g EXCEPT ![n] = w]
  BY <1>1
<1>6. [KeptFiles EXCEPT ![c][n] = w][c][n] = w
  <2> HIDE DEF KeptFiles
  <2> QED
    BY <1>3, <1>4, <1>5
<1>7. KeptFiles' = [KeptFiles EXCEPT ![c][n] = w]
  BY DEF FileBecomes
<1> QED
  BY <1>6, <1>7

(* A commit that succeeds leaves the words of the handle on the card.      *)
LEMMA SavedOnCard ==
  ASSUME IInv, OpenNamed, NEW h \in Handles, Saves(h), pool[h].dirty,
         CommitSucceeds(pool[h])
  PROVE  slot # NoCard /\ Files'[slot][pool[h].name] = pool[h].data
<1>1. pool[h] \in File /\ pool[h].name \in Names /\ cards' = CommittedCards(pool[h])
  BY SaveStep DEF OpenNamed
<1>2. CanWrite /\ SavePlace(pool[h]) # NoRoom
  BY DEF CommitSucceeds
<1> DEFINE f == pool[h]
           x == [WritableCard EXCEPT
                   !.dir = SavedDir(f),
                   !.data = WriteData(cards[slot].data, SavePlace(f), f, Len(f.data))]
<1>3. slot \in Cards /\ cards' = [cards EXCEPT ![slot] = x]
  BY <1>1, <1>2, WritableOK DEF CommittedCards
<1>4. FileOn(x, f.name) = f.data
  BY <1>1, <1>2, SavedIsFound
<1> HIDE DEF x
<1>5. cards'[slot] = x
  BY <1>3 DEF IInv, CardsOK
<1>6. Files' = [c \in Cards |-> [n \in Names |-> FileOn(cards'[c], n)]]
  BY DEF Files, FileOn
<1> HIDE DEF f
<1>7. Files'[slot][f.name] = f.data
  BY <1>1, <1>3, <1>4, <1>5, <1>6 DEF f
<1> QED
  BY <1>3, <1>7, FileAssumption DEF FileAssumption, f

(* A commit that fails may have formatted a blank card: no file changes.   *)
LEMMA FailedSame ==
  ASSUME IInv, NEW f \in File, cards' = CommittedCards(f), f.dirty, ~CommitSucceeds(f)
  PROVE  Files' = Files
<1>1. CASE ~CanWrite
  BY <1>1 DEF CommittedCards, Files, FileOn
<1>2. CASE CanWrite
  <2>1. SavePlace(f) = NoRoom
    BY <1>2 DEF CommitSucceeds
  <2>2. cards' = [cards EXCEPT ![slot] = WritableCard]
    BY <1>2, <2>1 DEF CommittedCards
  <2> QED
    BY <1>2, <2>2, WritableSeen
<1> QED
  BY <1>1, <1>2

(* The step that makes an open file clean has saved it.                    *)
LEMMA CleanStep ==
  ASSUME IInv, OpenNamed, [Next]_vars, NEW h \in Handles,
         pool[h].open, pool[h].dirty, pool'[h].open, ~pool'[h].dirty
  PROVE  slot # NoCard /\ Files'[slot][pool[h].name] = pool[h].data
<1>0. pool \in [Handles -> File]
  BY DEF IInv, TypeOK
<1>1. pool' # pool /\ pool' # ClosedPool
  BY DEF ClosedPool, ClosedFile
<1>2. ASSUME NEW k \in Handles, OpensHandle(k)
      PROVE  FALSE
  BY <1>0, <1>2 DEF OpensHandle, FreeHandle
<1>3. ASSUME NEW k \in Handles, KeepsHandle(k)
      PROVE  FALSE
  BY <1>0, <1>3 DEF KeepsHandle, Keeps
<1>4. ASSUME NEW k \in Handles, Saves(k)
      PROVE  Saves(h) /\ CommitSucceeds(pool[h])
  <2>1. PICK g \in File : pool' = [pool EXCEPT ![k] = g] /\ After(pool[k], g)
    BY <1>4, SaveStep
  <2>2. k = h /\ pool'[h] = g
    BY <1>0, <2>1
  <2> QED
    BY <1>4, <2>1, <2>2 DEF After
<1>5. Next
  BY <1>1 DEF vars
<1>6. Saves(h) /\ CommitSucceeds(pool[h])
  BY <1>1, <1>2, <1>3, <1>4, <1>5, PoolStep
<1> QED
  BY <1>6, SavedOnCard

(* The step that reports on a save reports what it did.                    *)
LEMMA TruthStep ==
  ASSUME IInv, OpenNamed, Next, NEW h \in Handles,
         pool[h].open, pool[h].dirty, pool'[h] # pool[h], last'.call = "save"
  PROVE  IF last'.result = 0
           THEN slot # NoCard /\ Files'[slot][pool[h].name] = pool[h].data
           ELSE Files' = Files
<1>0. pool \in [Handles -> File]
  BY DEF IInv, TypeOK
<1>1. pool' # pool /\ last' # Other
  BY DEF Other
<1>2. PICK k \in Handles : Saves(k)
  BY <1>1, PoolStep
<1>3. k = h
  BY <1>0, <1>2, SaveStep
<1>4. last'.result = CommitResult(pool[h])
  BY <1>1, <1>2, <1>3 DEF Saves, v32file_close, v32file_flush, rewind
<1>5. CASE CommitSucceeds(pool[h])
  <2>1. last'.result = 0
    BY <1>4, <1>5 DEF CommitResult
  <2> QED
    BY <1>2, <1>3, <1>5, <2>1, SavedOnCard
<1>6. CASE ~CommitSucceeds(pool[h])
  <2>1. last'.result # 0
    BY <1>4, <1>6 DEF CommitResult, EOF
  <2>2. pool[h] \in File /\ pool[h].name \in Names /\ cards' = CommittedCards(pool[h])
    BY <1>2, <1>3, SaveStep DEF OpenNamed
  <2>3. Files' = Files
    BY <1>6, <2>2, FailedSame
  <2> QED
    BY <2>1, <2>3
<1> QED
  BY <1>5, <1>6

(* A change that could not be saved is not forgotten: while a file stays   *)
(* open, only a save that put its words on the card makes it clean.        *)
THEOREM CleanFilesAreSaved == Spec => CleanMeansSaved
<1> DEFINE Saved == \A h \in Handles :
                      /\ pool[h].open /\ pool[h].dirty
                      /\ pool'[h].open /\ ~pool'[h].dirty
                      => slot # NoCard /\ Files'[slot][pool[h].name] = pool[h].data
<1>1. IInv /\ OpenNamed /\ [Next]_vars => [Saved]_vars
  BY CleanStep
<1>2. Spec => [][Saved]_vars
  <2> HIDE DEF Saved
  <2> QED
    BY <1>1, InitIInv, NextIInv, InitNamed, NextNamed, PTL DEF Spec
<1> QED
  BY <1>2 DEF CleanMeansSaved

(* What fclose and fflush return is what happened to the card: 0 and the   *)
(* words are there, EOF and no file anywhere has changed.                  *)
THEOREM SavesTellTheTruth == Spec => SaveTellsTheTruth
<1> DEFINE Truth == \A h \in Handles :
                      pool[h].open /\ pool[h].dirty /\ pool'[h] # pool[h] /\ last'.call = "save"
                      => IF last'.result = 0
                           THEN slot # NoCard /\ Files'[slot][pool[h].name] = pool[h].data
                           ELSE Files' = Files
<1>1. IInv /\ OpenNamed /\ [Next]_vars => [Truth]_vars
  BY TruthStep
<1>2. Spec => [][Truth]_vars
  <2> HIDE DEF Truth
  <2> QED
    BY <1>1, InitIInv, NextIInv, InitNamed, NextNamed, PTL DEF Spec
<1> QED
  BY <1>2 DEF SaveTellsTheTruth

----------------------------------------------------------------------------
(* The abstract store: its copies are the open files                       *)

CopyOf(g) == IF g.open THEN [name |-> g.name, data |-> g.data] ELSE Closed

(* One open file changed is one copy changed.                              *)
CopyBecomes(h, v) == Copies' = [Copies EXCEPT ![h] = v]

(* The copy of a handle that has changed.                                  *)
LEMMA HandleChanged ==
  ASSUME IInv, NEW h \in Handles, NEW g, pool' = [pool EXCEPT ![h] = g]
  PROVE  CopyBecomes(h, CopyOf(g)) /\ Copies'[h] = CopyOf(g)
<1>1. pool \in [Handles -> File]
  BY DEF IInv, TypeOK
<1>2. \A k \in Handles : pool'[k] = IF k = h THEN g ELSE pool[k]
  BY <1>1
<1>3. Copies = [k \in Handles |-> CopyOf(pool[k])]
  BY DEF Copies, CopyOf
<1>4. Copies' = [k \in Handles |-> CopyOf(pool'[k])]
  BY DEF Copies, CopyOf, Handles
<1>5. [Copies EXCEPT ![h] = CopyOf(g)] = [k \in Handles |-> IF k = h THEN CopyOf(g) ELSE CopyOf(pool[k])]
  BY <1>3
<1>6. \A k \in Handles : CopyOf(pool'[k]) = IF k = h THEN CopyOf(g) ELSE CopyOf(pool[k])
  BY <1>2
<1>7. Copies' = [Copies EXCEPT ![h] = CopyOf(g)]
  BY <1>4, <1>5, <1>6
<1>8. Copies'[h] = CopyOf(g)
  BY <1>4, <1>6
<1> QED
  BY <1>7, <1>8 DEF CopyBecomes

(* Handles that do not change are copies that do not.                      *)
LEMMA HandlesSame ==
  ASSUME pool' = pool
  PROVE  Copies' = Copies
BY DEF Copies, Handles

(* With the power go the copies.                                           *)
LEMMA HandlesLost ==
  ASSUME pool' = ClosedPool
  PROVE  Copies' = [h \in Handles |-> Closed]
<1>1. \A h \in Handles : ~pool'[h].open
  BY DEF ClosedPool, ClosedFile
<1>2. Copies' = [h \in Handles |-> IF pool'[h].open THEN [name |-> pool'[h].name, data |-> pool'[h].data]
                                   ELSE Closed]
  BY DEF Copies, Handles
<1> QED
  BY <1>1, <1>2

(* A copy of an open file is not the mark of a closed one.                 *)
LEMMA CopyIsOpen ==
  ASSUME NEW g \in File, g.open, g.name \in Names
  PROVE  CopyOf(g) = Store!Copy(g.name, g.data) /\ CopyOf(g) # Closed /\ g.data \in Seq(Words)
BY FileAssumption DEF FileAssumption, CopyOf, Store!Copy, File

(* An open handle is a copy of its name and its words.                     *)
LEMMA CopyThere ==
  ASSUME IInv, OpenNamed, NEW h \in Handles, pool[h].open
  PROVE  /\ Copies[h] # Closed /\ pool[h].data \in Seq(Words)
         /\ Copies[h] = [name |-> pool[h].name, data |-> pool[h].data]
<1>1. pool[h] \in File /\ pool[h].name \in Names
  BY DEF IInv, TypeOK, OpenNamed
<1>2. Copies[h] = CopyOf(pool[h])
  BY DEF Copies, CopyOf
<1> QED
  BY <1>1, <1>2, CopyIsOpen DEF CopyOf

(* A handle that is not open is no copy.                                   *)
LEMMA CopyNotThere ==
  ASSUME NEW h \in Handles, ~pool[h].open
  PROVE  Copies[h] = Closed
BY DEF Copies

----------------------------------------------------------------------------
(* Every step is a step of the abstract store, or changes nothing it sees  *)

StoreStep == [Store!Next]_<<KeptFiles, Copies, Spoiled>>

(* A step that changes no file and no copy is a stutter.                   *)
LEMMA NothingSeen ==
  ASSUME KeptFiles' = KeptFiles, Copies' = Copies, Spoiled' = Spoiled
  PROVE  StoreStep
BY DEF StoreStep

(* v32file_format erases one card.                                         *)
LEMMA FormatMaps ==
  ASSUME IInv, v32file_format
  PROVE  StoreStep
<1>1. slot \in Cards /\ cards[slot] \in Card /\ cards \in [Cards -> Card]
  BY DEF v32file_format, IInv, TypeOK, CardsOK
<1>2. cards'[slot] = Formatted(cards[slot]) /\ OnlyCard(slot) /\ cards'[slot].kind = "ready"
  BY <1>1, FormattedOK DEF v32file_format, OnlyCard
<1>3. \A n \in Names : Kept(cards'[slot], n) = Absent
  BY <1>1, <1>2, FormattedShowsNone
<1>4. KeptFiles = [c \in Cards |-> [n \in Names |-> Kept(cards[c], n)]]
  BY DEF KeptFiles
<1>5. /\ KeptFiles' = [c \in Cards |-> [n \in Names |-> Kept(cards'[c], n)]]
      /\ Spoiled' = Spoiled \ {slot}
  BY <1>2 DEF KeptFiles, Kept, FileOn, Spoiled, OnlyCard
<1>6. [n \in Names |-> Kept(cards'[slot], n)] = Store!NoFiles
  BY <1>3 DEF Store!NoFiles
<1>7. \A c \in Cards : [n \in Names |-> Kept(cards'[c], n)]
                       = IF c = slot THEN Store!NoFiles ELSE [n \in Names |-> Kept(cards[c], n)]
  BY <1>2, <1>6 DEF OnlyCard
<1>8. KeptFiles' = [KeptFiles EXCEPT ![slot] = Store!NoFiles]
  BY <1>4, <1>5, <1>7
<1>9. Copies' = Copies
  BY HandlesSame DEF v32file_format
<1>10. Store!Erase(slot)
  BY <1>5, <1>8, <1>9 DEF Store!Erase
<1> QED
  BY <1>1, <1>10 DEF StoreStep, Store!Next

(* Reading, writing and seeking edit one copy.                             *)
LEMMA EditMaps ==
  ASSUME IInv, OpenNamed, NEW h \in Handles,
         cards' = cards, pool[h].open, KeepsHandle(h)
  PROVE  StoreStep
<1>1. PICK g \in File : pool' = [pool EXCEPT ![h] = g] /\ Keeps(pool[h], g)
  BY DEF KeepsHandle
<1>2. g.open /\ g.name \in Names /\ g.name = pool[h].name
  BY <1>1 DEF Keeps, OpenNamed
<1>3. CopyBecomes(h, CopyOf(g)) /\ Copies'[h] = CopyOf(g)
  BY <1>1, HandleChanged
<1>4. CopyOf(g) = Store!Copy(g.name, g.data) /\ CopyOf(g) # Closed /\ g.data \in Seq(Words)
  BY <1>2, CopyIsOpen
<1>5. Copies[h] # Closed /\ Copies[h].name = g.name
  <2>1. Copies[h] # Closed /\ Copies[h] = [name |-> pool[h].name, data |-> pool[h].data]
    BY CopyThere
  <2>2. Copies[h].name = pool[h].name
    BY <2>1
  <2> QED
    BY <1>2, <2>1, <2>2
<1>6. Copies'[h].data = g.data
  BY <1>3, <1>4 DEF Store!Copy
<1>7. KeptFiles' = KeptFiles /\ Spoiled' = Spoiled
  BY FilesUnchanged
<1>8. Copies' = [Copies EXCEPT ![h] = Store!Copy(Copies[h].name, g.data)]
  BY <1>3, <1>4, <1>5 DEF CopyBecomes
<1>9. Store!Edit(h)
  BY <1>3, <1>4, <1>5, <1>6, <1>7, <1>8 DEF Store!Edit
<1> QED
  BY <1>9 DEF StoreStep, Store!Next

(* fopen of a file on the card opens a copy of it.                         *)
LEMMA FopenExistingMaps ==
  ASSUME IInv, NEW n \in Names, NEW m \in Modes, fopen_existing(n, m)
  PROVE  StoreStep
<1> DEFINE k == Lookup(LoadedDir, n)
<1>1. /\ slot \in Cards /\ LoadedDir = cards[slot].dir /\ CardState = "ready"
      /\ cards[slot].kind \in {"ready", "halfway"}
      /\ cards[slot].kind = "ready" => DirOK(LoadedDir)
  BY LoadedOK DEF fopen_existing
<1>2. k \in Entries /\ k # 0
  BY LookupSpec DEF fopen_existing
<1>3. PICK h \in Handles, w \in Seq(Words) :
        /\ FreeHandle(h) /\ pool' = [pool EXCEPT ![h] = Opened(n, m, w)]
        /\ w \in FileReads(cards[slot].data, LoadedDir[k])
  BY FopenReads
<1>4. \/ w \in {<<>>} \cup ({KeptFiles[c][n] : c \in Cards} \ {Absent})
      \/ Spoiled # {} /\ w \in Seq(Words)
  <2>1. CASE cards[slot].kind = "ready"
    <3>1. InArea(LoadedDir[k])
      BY <1>1, <1>2, <2>1 DEF DirOK, Sound
    <3>2. KeptFiles[slot][n] = w
      BY <1>1, <1>2, <1>3, <2>1, <3>1 DEF KeptFiles, Kept, FileOn, FileReads
    <3> QED
      BY <1>1, <3>2, FileAssumption DEF FileAssumption
  <2>2. CASE cards[slot].kind = "halfway"
    BY <1>1, <2>2 DEF Spoiled
  <2> QED
    BY <1>1, <2>1, <2>2
<1> HIDE DEF k
<1> DEFINE g == Opened(n, m, w)
<1>5. g \in File /\ g.open /\ g.name = n /\ g.data = w
  BY OpenedOK DEF Opened
<1>6. /\ CopyBecomes(h, CopyOf(g)) /\ CopyOf(g) = Store!Copy(n, w)
      /\ Copies'[h] = CopyOf(g) /\ CopyOf(g) # Closed
  <2> HIDE DEF g
  <2> QED
    BY <1>3, <1>5, HandleChanged, CopyIsOpen DEF g
<1> HIDE DEF g
<1>7. Copies[h] = Closed
  BY <1>3, CopyNotThere DEF FreeHandle
<1>8. Copies'[h].data = w
  BY <1>6 DEF Store!Copy
<1>9. Copies' = [Copies EXCEPT ![h] = Store!Copy(n, w)]
  BY <1>6 DEF CopyBecomes
<1>10. KeptFiles' = KeptFiles /\ Spoiled' = Spoiled
  BY FilesUnchanged DEF fopen_existing
<1>11. Store!Open(h)
  BY <1>4, <1>6, <1>7, <1>8, <1>9, <1>10 DEF Store!Open
<1> QED
  BY <1>11 DEF StoreStep, Store!Next

(* fopen of a new file opens an empty copy.                                *)
LEMMA FopenNewMaps ==
  ASSUME IInv, NEW n \in Names, NEW m \in Modes, fopen_new(n, m)
  PROVE  StoreStep
<1> DEFINE g == [Opened(n, m, <<>>) EXCEPT !.dirty = TRUE]
<1>1. PICK h \in Handles : FreeHandle(h) /\ pool' = [pool EXCEPT ![h] = g]
  BY DEF fopen_new
<1>2. g \in File /\ g.open /\ g.name = n /\ g.data = <<>>
  <2>1. <<>> \in Seq(Words)
    OBVIOUS
  <2>2. g \in File
    BY <2>1, OpenedOK
  <2>3. g.open /\ g.name = n /\ g.data = <<>>
    BY DEF Opened
  <2> QED
    BY <2>2, <2>3
<1> HIDE DEF g
<1>3. /\ CopyBecomes(h, CopyOf(g)) /\ CopyOf(g) = Store!Copy(n, <<>>)
      /\ Copies'[h] = CopyOf(g) /\ CopyOf(g) # Closed
  BY <1>1, <1>2, HandleChanged, CopyIsOpen
<1>4. Copies[h] = Closed
  BY <1>1, CopyNotThere DEF FreeHandle
<1>5. Copies' = [Copies EXCEPT ![h] = Store!Copy(n, <<>>)]
  BY <1>3 DEF CopyBecomes
<1>6. KeptFiles' = KeptFiles /\ Spoiled' = Spoiled
  BY WritableSeen DEF fopen_new
<1>7. Copies'[h].data = <<>>
  BY <1>3 DEF Store!Copy
<1>8. Store!Open(h)
  BY <1>3, <1>4, <1>5, <1>6, <1>7 DEF Store!Open
<1> QED
  BY <1>8 DEF StoreStep, Store!Next

(* A refused fopen changes nothing, though it may format a blank card.     *)
LEMMA FopenFailsMaps ==
  ASSUME IInv, NEW n \in Names, NEW m \in Modes, fopen_refused(n, m) \/ fopen_no_room(n, m)
  PROVE  StoreStep
<1>1. Copies' = Copies
  BY HandlesSame DEF fopen_refused, fopen_no_room
<1>2. cards' = cards \/ (CanWrite /\ cards' = [cards EXCEPT ![slot] = WritableCard])
  BY DEF fopen_refused, fopen_no_room
<1>3. KeptFiles' = KeptFiles /\ Spoiled' = Spoiled
  BY <1>2, FilesUnchanged, WritableSeen
<1> QED
  BY <1>1, <1>3, NothingSeen

(* fclose closes a copy, fflush and rewind save it.                        *)
LEMMA SaveMaps ==
  ASSUME IInv, OpenNamed, NEW h \in Handles, Saves(h)
  PROVE  StoreStep
<1> DEFINE f == pool[h]
<1>1. f \in File /\ f.open /\ f.name \in Names /\ cards' = CommittedCards(f)
  BY SaveStep DEF OpenNamed
<1>2. PICK g \in File : pool' = [pool EXCEPT ![h] = g] /\ After(f, g)
  BY SaveStep
<1>3. Copies[h] # Closed /\ Copies[h] = [name |-> f.name, data |-> f.data]
  BY <1>1, CopyThere
<1>4. CopyBecomes(h, CopyOf(g))
  BY <1>2, HandleChanged
<1>5. /\ Spoiled' = Spoiled
      /\ KeptFiles' = KeptFiles \/ \E c \in Cards \ Spoiled : Store!Store(c, h)
  <2>1. /\ Spoiled' = Spoiled
        /\ \/ KeptFiles' = KeptFiles
           \/ slot \in Cards \ Spoiled /\ FileBecomes(slot, f.name, f.data)
    <3> HIDE DEF f
    <3> QED
      BY <1>1, CommittedFiles
  <2>2. FileBecomes(slot, f.name, f.data) => Store!Store(slot, h)
    <3>1. Copies[h].name = f.name /\ Copies[h].data = f.data
      BY <1>3
    <3> QED
      BY <3>1 DEF FileBecomes, Store!Store
  <2> QED
    BY <2>1, <2>2
<1>6. CASE g.open
  <2>1. CopyOf(g) = Copies[h]
    BY <1>2, <1>3, <1>6 DEF After, CopyOf
  <2>2. Copies = [k \in Handles |-> Copies[k]]
    BY DEF Copies
  <2>3. Copies' = [Copies EXCEPT ![h] = Copies[h]]
    BY <1>4, <2>1 DEF CopyBecomes
  <2>4. Copies' = Copies
    <3> HIDE DEF Copies
    <3> QED
      BY <2>2, <2>3
  <2>5. KeptFiles' = KeptFiles \/ Store!Save(h)
    BY <1>3, <1>5, <2>4 DEF Store!Save
  <2> QED
    BY <1>5, <2>4, <2>5 DEF StoreStep, Store!Next
<1>7. CASE ~g.open
  <2>1. Copies' = [Copies EXCEPT ![h] = Closed]
    BY <1>4, <1>7 DEF CopyOf, CopyBecomes
  <2>2. Store!Close(h)
    BY <1>3, <1>5, <2>1 DEF Store!Close
  <2> QED
    BY <2>2 DEF StoreStep, Store!Next
<1> QED
  BY <1>6, <1>7

(* Two cards hold one file in entries of the same place and size.          *)
LEMMA SameFile ==
  ASSUME NEW x, NEW y, x.kind = "ready", y.kind = "ready", x.data = y.data,
         DirOK(x.dir), DirOK(y.dir),
         NEW n \in Names, NEW m \in Names, NEW j \in Entries, NEW k \in Entries,
         x.dir[j].name = n, y.dir[k].name = m,
         x.dir[j].start = y.dir[k].start, x.dir[j].size = y.dir[k].size
  PROVE  Kept(x, n) = Kept(y, m)
<1>1. Kept(x, n) = FileWords(x.data, x.dir[j])
  BY FileOfEntry
<1>2. Kept(y, m) = FileWords(y.data, y.dir[k])
  BY FileOfEntry
<1> QED
  BY <1>1, <1>2 DEF FileWords

(* Writing a directory replaces the directory of the card in the slot.     *)
LEMMA DirWritten ==
  ASSUME IInv, CardState = "ready", NEW d, WriteDir(d)
  PROVE  /\ slot \in Cards /\ OnlyCard(slot)
         /\ cards[slot].kind \in {"ready", "halfway"} /\ cards[slot].dir = LoadedDir
         /\ cards[slot].kind = "ready" => DirOK(LoadedDir)
         /\ cards'[slot].kind = cards[slot].kind /\ cards'[slot].dir = d
         /\ cards'[slot].data = cards[slot].data
         /\ Spoiled' = Spoiled
<1>1. /\ slot \in Cards /\ cards[slot] \in Card /\ cards \in [Cards -> Card]
      /\ cards[slot].kind \in {"ready", "halfway"} /\ cards[slot].dir = LoadedDir
      /\ cards[slot].kind = "ready" => DirOK(LoadedDir)
  BY LoadedOK DEF IInv, TypeOK
<1>2. cards' = [cards EXCEPT ![slot].dir = d]
  BY DEF WriteDir
<1>3. OnlyCard(slot) /\ cards'[slot].kind = cards[slot].kind
  BY <1>1, <1>2 DEF OnlyCard, Card
<1> QED
  BY <1>1, <1>2, <1>3, SpoiledSame DEF Card

(* On a card that keeps no file, remove and rename change none.            *)
LEMMA SpoiledDirMaps ==
  ASSUME IInv, CardState = "ready", NEW d, WriteDir(d), cards[slot].kind = "halfway",
         Copies' = Copies
  PROVE  StoreStep
<1>1. OnlyCard(slot) /\ cards'[slot].kind = "halfway"
  BY DirWritten
<1>2. KeptFiles' = KeptFiles /\ Spoiled' = Spoiled
  BY <1>1, SpoiledKeepsNone
<1> QED
  BY <1>2, NothingSeen

(* remove takes one file away.                                             *)
LEMMA RemovedFiles ==
  ASSUME IInv, CardState = "ready", cards[slot].kind = "ready",
         NEW k \in Entries, NEW n \in Names, LoadedDir[k].name = n,
         NEW d, DirOK(d), WriteDir(d),
         d[k].name = NoName, \A j \in Entries : j # k => d[j] = LoadedDir[j]
  PROVE  slot \in Cards /\ FileBecomes(slot, n, Absent) /\ Spoiled' = Spoiled
<1> DEFINE x == cards'[slot]
           y == cards[slot]
<1>1. /\ slot \in Cards /\ OnlyCard(slot)
      /\ y.kind = "ready" /\ y.dir = LoadedDir /\ DirOK(LoadedDir)
      /\ x.kind = "ready" /\ x.dir = d /\ x.data = y.data /\ Spoiled' = Spoiled
  BY DirWritten
<1>2. DirOK(x.dir) /\ DirOK(y.dir)
  BY <1>1
<1>3. n # NoName
  BY LayoutAssumption DEF LayoutAssumption
<1> HIDE DEF x, y
<1>4. Kept(x, n) = Absent
  <2>1. \A j \in Entries : x.dir[j].name # n
    BY <1>1, <1>2, <1>3 DEF DirOK, UniqueNames
  <2> QED
    BY <2>1, NoFileOfName
<1>5. SameButFile(x, y, n)
  <2> SUFFICES ASSUME NEW m \in Names, m # n PROVE Kept(x, m) = Kept(y, m)
    BY DEF SameButFile
  <2>0. m # NoName
    BY LayoutAssumption DEF LayoutAssumption
  <2>1. CASE \E j \in Entries : y.dir[j].name = m
    <3>1. PICK j \in Entries : y.dir[j].name = m
      BY <2>1
    <3>2. x.dir[j] = y.dir[j]
      BY <1>1, <3>1
    <3>3. x.dir[j].name = m /\ x.dir[j].start = y.dir[j].start /\ x.dir[j].size = y.dir[j].size
      BY <3>1, <3>2
    <3> QED
      BY <1>1, <1>2, <3>1, <3>3, SameFile
  <2>2. CASE \A j \in Entries : y.dir[j].name # m
    <3>1. \A j \in Entries : x.dir[j].name # m
      BY <1>1, <2>0, <2>2
    <3> QED
      BY <2>2, <3>1, NoFileOfName
  <2> QED
    BY <2>1, <2>2
<1>6. FileBecomes(slot, n, Absent)
  BY <1>1, <1>4, <1>5, FileReplaced DEF x, y
<1> QED
  BY <1>1, <1>6

(* What is left of a directory when entry k has its new name.              *)
LEMMA RenamedShape ==
  ASSUME NEW d, DirOK(d), NEW k \in Entries, NEW b \in Names \cup {NoName}
  PROVE  /\ Renamed(d, k, b)[k].name = b
         /\ Renamed(d, k, b)[k].start = d[k].start
         /\ Renamed(d, k, b)[k].size = d[k].size
         /\ \A i \in Entries : i # k /\ (d[i].name # b \/ b = NoName) => Renamed(d, k, b)[i] = d[i]
         /\ \A i \in Entries : i # k /\ d[i].name = b => Renamed(d, k, b)[i].name = NoName
<1> DEFINE j == Lookup(d, b)
           D == Renamed(d, k, b)
<1>0. d \in [Entries -> Entry] /\ 0 \notin Entries
  BY LayoutAssumption DEF DirOK, Directories, LayoutAssumption, Entries
<1>1. \/ j = 0 /\ (b = NoName \/ \A i \in Entries : d[i].name # b)
      \/ j \in Entries /\ d[j].name = b /\ b # NoName
  BY LookupSpec
<1>2. CASE j # 0 /\ j # k
  <2> DEFINE e == [d EXCEPT ![j].name = NoName]
  <2>1. j \in Entries /\ d[j].name = b /\ b # NoName
    BY <1>1, <1>2
  <2>2. e \in [Entries -> Entry] /\ e[k] = d[k] /\ e[j].name = NoName
        /\ \A i \in Entries : i # j => e[i] = d[i]
    BY <1>0, <1>2, <2>1 DEF Entry
  <2>3. D = [e EXCEPT ![k].name = b]
    BY <1>2 DEF Renamed
  <2> HIDE DEF e
  <2>4. D[k].name = b /\ D[k].start = d[k].start /\ D[k].size = d[k].size
        /\ \A i \in Entries : i # k => D[i] = e[i]
    <3>1. [e EXCEPT ![k].name = b][k] = [d[k] EXCEPT !.name = b]
      BY <2>2
    <3>2. d[k] \in Entry
      BY <1>0
    <3>3. [d[k] EXCEPT !.name = b].name = b /\ [d[k] EXCEPT !.name = b].start = d[k].start
          /\ [d[k] EXCEPT !.name = b].size = d[k].size
      BY <3>2 DEF Entry
    <3>4. \A i \in Entries : i # k => [e EXCEPT ![k].name = b][i] = e[i]
      BY <2>2
    <3> QED
      BY <2>3, <3>1, <3>3, <3>4
  <2>5. \A i \in Entries : d[i].name = b => i = j
    BY <2>1 DEF DirOK, UniqueNames
  <2> HIDE DEF D, j
  <2>6. \A i \in Entries : i # k /\ (d[i].name # b \/ b = NoName) => D[i] = d[i]
    BY <2>1, <2>2, <2>4
  <2>7. \A i \in Entries : i # k /\ d[i].name = b => D[i].name = NoName
    BY <2>2, <2>4, <2>5
  <2> QED
    BY <2>4, <2>6, <2>7 DEF D
<1>3. CASE ~(j # 0 /\ j # k)
  <2>1. D = [d EXCEPT ![k].name = b]
    BY <1>3 DEF Renamed
  <2>2. D[k].name = b /\ D[k].start = d[k].start /\ D[k].size = d[k].size
        /\ \A i \in Entries : i # k => D[i] = d[i]
    <3>1. d[k] \in Entry
      BY <1>0
    <3> QED
      BY <1>0, <2>1, <3>1 DEF Entry
  <2>3. \A i \in Entries : i # k /\ d[i].name = b => b = NoName
    BY <1>0, <1>1, <1>3 DEF DirOK, UniqueNames
  <2> HIDE DEF D
  <2> QED
    BY <2>2, <2>3 DEF D
<1> QED
  BY <1>2, <1>3

(* One file of a card takes the name of another, which is replaced.        *)
FileRenamed(c, a, b) == KeptFiles' = [KeptFiles EXCEPT ![c][b] = KeptFiles[c][a], ![c][a] = Absent]

(* The map of files after a rename.                                        *)
LEMMA FilesRenamed ==
  ASSUME NEW c \in Cards, OnlyCard(c), NEW a \in Names, NEW b \in Names, a # b,
         Kept(cards'[c], b) = Kept(cards[c], a), Kept(cards'[c], a) = Absent,
         \A m \in Names \ {a, b} : Kept(cards'[c], m) = Kept(cards[c], m)
  PROVE  FileRenamed(c, a, b) /\ KeptFiles[c][a] = Kept(cards[c], a)
<1> DEFINE g == [m \in Names |-> Kept(cards[c], m)]
           v == Kept(cards[c], a)
           g2 == [[g EXCEPT ![b] = v] EXCEPT ![a] = Absent]
           t == [KeptFiles EXCEPT ![c][b] = KeptFiles[c][a], ![c][a] = Absent]
<1>1. KeptFiles' = [e \in Cards |-> [m \in Names |-> Kept(cards'[e], m)]]
  BY DEF KeptFiles, Kept, FileOn
<1>2. [m \in Names |-> Kept(cards'[c], m)] = g2
  <2>1. g2 = [m \in Names |-> IF m = a THEN Absent ELSE IF m = b THEN v ELSE Kept(cards[c], m)]
    OBVIOUS
  <2>2. \A m \in Names : Kept(cards'[c], m)
                         = IF m = a THEN Absent ELSE IF m = b THEN v ELSE Kept(cards[c], m)
    OBVIOUS
  <2> HIDE DEF g2
  <2> QED
    BY <2>1, <2>2
<1>3. KeptFiles[c] = g /\ KeptFiles[c][a] = v
  BY DEF KeptFiles
<1>4. KeptFiles = [e \in Cards |-> KeptFiles[e]]
  BY DEF KeptFiles
<1>5. \A e \in Cards \ {c} : KeptFiles'[e] = KeptFiles[e]
  BY <1>1 DEF KeptFiles, OnlyCard
<1>6. t = [e \in Cards |-> IF e = c THEN g2 ELSE KeptFiles[e]]
  <2>1. t = [[KeptFiles EXCEPT ![c][b] = v] EXCEPT ![c][a] = Absent]
    BY <1>3
  <2>2. [KeptFiles EXCEPT ![c][b] = v] = [e \in Cards |-> IF e = c THEN [g EXCEPT ![b] = v] ELSE KeptFiles[e]]
    <3>1. [KeptFiles EXCEPT ![c][b] = v] = [KeptFiles EXCEPT ![c] = [KeptFiles[c] EXCEPT ![b] = v]]
      OBVIOUS
    <3> HIDE DEF g, v
    <3> QED
      BY <1>3, <1>4, <3>1
  <2> DEFINE F == [e \in Cards |-> IF e = c THEN [g EXCEPT ![b] = v] ELSE KeptFiles[e]]
  <2>3. [F EXCEPT ![c][a] = Absent] = [F EXCEPT ![c] = [F[c] EXCEPT ![a] = Absent]]
    OBVIOUS
  <2>4. [F EXCEPT ![c] = g2] = [e \in Cards |-> IF e = c THEN g2 ELSE KeptFiles[e]]
    <3> HIDE DEF g, v, g2
    <3> QED
      OBVIOUS
  <2>5. F[c] = [g EXCEPT ![b] = v]
    <3> HIDE DEF g, v
    <3> QED
      OBVIOUS
  <2>6. [F EXCEPT ![c][a] = Absent] = [F EXCEPT ![c] = g2]
    BY <2>3, <2>5
  <2>7. t = [F EXCEPT ![c][a] = Absent]
    BY <2>1, <2>2
  <2> QED
    BY <2>4, <2>6, <2>7
<1>7. KeptFiles' = [e \in Cards |-> KeptFiles'[e]] /\ KeptFiles'[c] = g2
  BY <1>1, <1>2
<1>8. KeptFiles' = t
  <2> HIDE DEF t, g2
  <2> QED
    BY <1>5, <1>6, <1>7
<1> QED
  BY <1>3, <1>8 DEF FileRenamed

(* remove removes, or finds nothing to remove.                             *)
LEMMA RemoveMaps ==
  ASSUME IInv, NEW n \in Names, remove(n)
  PROVE  StoreStep
<1> DEFINE k == Lookup(LoadedDir, n)
<1>1. Copies' = Copies
  BY HandlesSame DEF remove
<1>2. CASE CardState = "ready" /\ k # 0
  <2>1. /\ k \in Entries /\ LoadedDir[k].name = n
        /\ cards[slot].kind \in {"ready", "halfway"}
        /\ cards[slot].kind = "ready" => DirOK(LoadedDir)
    BY <1>2, LookupSpec, LoadedOK
  <2> DEFINE d == Removed(LoadedDir, k)
  <2>2. WriteDir(d)
    BY <1>2 DEF remove
  <2>3. CASE cards[slot].kind = "ready"
    <3>1. DirOK(LoadedDir) /\ DirOK(d)
      BY <2>1, <2>3, RemovedOK
    <3>2. d[k].name = NoName /\ \A j \in Entries : j # k => d[j] = LoadedDir[j]
      BY <2>1, <3>1 DEF Removed, DirOK, Directories
    <3> HIDE DEF d, k
    <3>3. slot \in Cards /\ FileBecomes(slot, n, Absent) /\ Spoiled' = Spoiled
      BY <1>2, <2>1, <2>2, <2>3, <3>1, <3>2, RemovedFiles
    <3>4. Store!Remove(slot, n)
      BY <1>1, <3>3 DEF FileBecomes, Store!Remove
    <3> QED
      BY <3>3, <3>4 DEF StoreStep, Store!Next
  <2>4. CASE cards[slot].kind = "halfway"
    <3> HIDE DEF d
    <3> QED
      BY <1>1, <1>2, <2>2, <2>4, SpoiledDirMaps
  <2> QED
    BY <2>1, <2>3, <2>4
<1>3. CASE ~(CardState = "ready" /\ k # 0)
  <2>1. cards' = cards
    BY <1>3 DEF remove
  <2> QED
    BY <1>1, <2>1, FilesUnchanged, NothingSeen
<1> QED
  BY <1>2, <1>3

(* The file of entry k moves to another name.                              *)
LEMMA RenamedFiles ==
  ASSUME IInv, CardState = "ready", cards[slot].kind = "ready", NEW k \in Entries,
         NEW a \in Names, LoadedDir[k].name = a, NEW b \in Names, a # b,
         WriteDir(Renamed(LoadedDir, k, b))
  PROVE  /\ slot \in Cards /\ FileRenamed(slot, a, b) /\ KeptFiles[slot][a] # Absent
         /\ Spoiled' = Spoiled
<1> DEFINE x == cards'[slot]
           y == cards[slot]
           d == LoadedDir
           D == Renamed(LoadedDir, k, b)
<1>0. a # NoName /\ b # NoName
  BY LayoutAssumption DEF LayoutAssumption
<1>1. /\ slot \in Cards /\ OnlyCard(slot)
      /\ y.kind = "ready" /\ y.dir = d /\ DirOK(d)
      /\ x.kind = "ready" /\ x.dir = D /\ x.data = y.data /\ Spoiled' = Spoiled
  BY DirWritten
<1>2. DirOK(D)
  BY <1>0, <1>1, RenamedOK
<1>3. /\ D[k].name = b /\ D[k].start = d[k].start /\ D[k].size = d[k].size
      /\ \A i \in Entries : i # k /\ d[i].name # b => D[i] = d[i]
      /\ \A i \in Entries : i # k /\ d[i].name = b => D[i].name = NoName
  BY <1>1, RenamedShape
<1>4. DirOK(x.dir) /\ DirOK(y.dir)
  BY <1>1, <1>2
<1>5. y \in Card
  BY <1>1 DEF IInv, CardsOK
<1> HIDE DEF x, y, d, D
<1>6. Kept(x, b) = Kept(y, a)
  <2>1. x.dir[k].name = b /\ y.dir[k].name = a
        /\ x.dir[k].start = y.dir[k].start /\ x.dir[k].size = y.dir[k].size
    BY <1>1, <1>3 DEF d
  <2> QED
    BY <1>1, <1>4, <2>1, SameFile
<1>7. Kept(x, a) = Absent
  <2>1. \A i \in Entries : x.dir[i].name # a
    <3> SUFFICES ASSUME NEW i \in Entries PROVE D[i].name # a
      BY <1>1
    <3>1. CASE i = k
      BY <1>3, <3>1
    <3>2. CASE i # k
      <4>1. d[i].name # a
        BY <1>0, <1>1, <1>4, <3>2 DEF DirOK, UniqueNames, d
      <4> QED
        BY <1>0, <1>3, <3>2, <4>1
    <3> QED
      BY <3>1, <3>2
  <2> QED
    BY <2>1, NoFileOfName
<1>8. ASSUME NEW m \in Names \ {a, b} PROVE Kept(x, m) = Kept(y, m)
  <2>0. m # NoName /\ m # a /\ m # b
    BY LayoutAssumption DEF LayoutAssumption
  <2>1. CASE \E i \in Entries : y.dir[i].name = m
    <3>1. PICK i \in Entries : y.dir[i].name = m
      BY <2>1
    <3>2. d[i].name = m /\ i # k
      BY <1>1, <2>0, <3>1 DEF d
    <3>3. x.dir[i] = y.dir[i]
      BY <1>1, <1>3, <2>0, <3>2
    <3>4. x.dir[i].name = m /\ x.dir[i].start = y.dir[i].start /\ x.dir[i].size = y.dir[i].size
      BY <3>1, <3>3
    <3> QED
      BY <1>1, <1>4, <3>1, <3>4, SameFile
  <2>2. CASE \A i \in Entries : y.dir[i].name # m
    <3>1. \A i \in Entries : D[i].name # m
      BY <1>1, <1>3, <2>0, <2>2
    <3> QED
      BY <1>1, <2>2, <3>1, NoFileOfName
  <2> QED
    BY <2>1, <2>2
<1>9. FileRenamed(slot, a, b) /\ KeptFiles[slot][a] = Kept(y, a)
  BY <1>1, <1>6, <1>7, <1>8, FilesRenamed DEF x, y
<1>10. Kept(y, a) # Absent
  <2>1. Kept(y, a) = FileWords(y.data, y.dir[k])
    BY <1>1, <1>4, FileOfEntry DEF d
  <2>2. InArea(y.dir[k]) /\ y.dir[k].name # NoName
    BY <1>0, <1>1 DEF d, DirOK, Sound
  <2>3. FileWords(y.data, y.dir[k]) \in Seq(Words)
    BY <1>5, <2>2, FileWordsOK
  <2> QED
    BY <2>1, <2>3, FileAssumption DEF FileAssumption
<1> QED
  BY <1>1, <1>9, <1>10

(* rename renames; to the empty name it removes.                           *)
LEMMA RenameMaps ==
  ASSUME IInv, NEW a \in Names, NEW b \in Names \cup {NoName}, rename(a, b)
  PROVE  StoreStep
<1> DEFINE k == Lookup(LoadedDir, a)
<1>0. a # NoName
  BY LayoutAssumption DEF LayoutAssumption
<1>1. Copies' = Copies
  BY HandlesSame DEF rename
<1>2. ASSUME CardState = "ready", k # 0, cards[slot].kind = "ready"
      PROVE  StoreStep
  <2>1. k \in Entries /\ LoadedDir[k].name = a /\ DirOK(LoadedDir)
    BY <1>2, LookupSpec, LoadedOK
  <2> DEFINE d == Renamed(LoadedDir, k, b)
  <2>2. WriteDir(d) /\ DirOK(d)
    BY <1>0, <1>2, <2>1, RenamedOK DEF rename
  <2>3. /\ d[k].name = b /\ d[k].start = LoadedDir[k].start /\ d[k].size = LoadedDir[k].size
        /\ \A i \in Entries : i # k /\ (LoadedDir[i].name # b \/ b = NoName) => d[i] = LoadedDir[i]
    BY <2>1, RenamedShape
  <2> HIDE DEF k
  <2>4. CASE b = NoName
    <3>1. d[k].name = NoName /\ \A i \in Entries : i # k => d[i] = LoadedDir[i]
      BY <2>3, <2>4
    <3> HIDE DEF d
    <3>2. slot \in Cards /\ FileBecomes(slot, a, Absent) /\ Spoiled' = Spoiled
      BY <1>2, <2>1, <2>2, <3>1, RemovedFiles
    <3>3. Store!Remove(slot, a)
      BY <1>1, <3>2 DEF FileBecomes, Store!Remove
    <3> QED
      BY <3>2, <3>3 DEF StoreStep, Store!Next
  <2>5. CASE b = a
    <3>1. /\ slot \in Cards /\ OnlyCard(slot)
          /\ cards[slot].kind = "ready" /\ cards[slot].dir = LoadedDir
          /\ cards'[slot].kind = "ready" /\ cards'[slot].dir = d
          /\ cards'[slot].data = cards[slot].data /\ Spoiled' = Spoiled
      BY <1>2, <2>2, DirWritten
    <3>2. \A i \in Entries : i # k => d[i] = LoadedDir[i]
      BY <1>0, <2>1, <2>3, <2>5 DEF DirOK, UniqueNames
    <3>3. DirOK(d) /\ DirOK(LoadedDir)
      BY <2>1, <2>2
    <3> HIDE DEF d
    <3>4. ASSUME NEW m \in Names
          PROVE  Kept(cards'[slot], m) = Kept(cards[slot], m)
      <4>1. CASE \E i \in Entries : LoadedDir[i].name = m
        <5>1. PICK i \in Entries : LoadedDir[i].name = m
          BY <4>1
        <5>2. d[i].name = m /\ d[i].start = LoadedDir[i].start /\ d[i].size = LoadedDir[i].size
          BY <2>1, <2>3, <2>5, <3>2, <5>1
        <5> DEFINE x == cards'[slot]
                   y == cards[slot]
        <5>3. /\ x.kind = "ready" /\ y.kind = "ready" /\ x.data = y.data
              /\ x.dir = d /\ y.dir = LoadedDir
          BY <3>1
        <5> HIDE DEF x, y
        <5>4. Kept(x, m) = Kept(y, m)
          BY <3>3, <5>1, <5>2, <5>3, SameFile
        <5> QED
          BY <5>4 DEF x, y
      <4>2. CASE \A i \in Entries : LoadedDir[i].name # m
        <5>1. \A i \in Entries : d[i].name # m
          BY <2>1, <2>3, <2>5, <3>2, <4>2
        <5>2. Kept(cards'[slot], m) = Absent
          BY <3>1, <5>1, NoFileOfName
        <5>3. Kept(cards[slot], m) = Absent
          BY <3>1, <4>2, NoFileOfName
        <5> QED
          BY <5>2, <5>3
      <4> QED
        BY <4>1, <4>2
    <3>5. KeptFiles' = KeptFiles
      BY <3>1, <3>4, CardShowsSame DEF SameFiles
    <3> QED
      BY <1>1, <3>1, <3>5, NothingSeen
  <2>6. CASE b \in Names /\ b # a
    <3>1. slot \in Cards /\ FileRenamed(slot, a, b) /\ KeptFiles[slot][a] # Absent
          /\ Spoiled' = Spoiled
      BY <1>2, <2>1, <2>2, <2>6, RenamedFiles
    <3>2. Store!Rename(slot, a, b)
      BY <1>1, <2>6, <3>1 DEF FileRenamed, Store!Rename
    <3> QED
      BY <2>6, <3>1, <3>2 DEF StoreStep, Store!Next
  <2> QED
    BY <2>4, <2>5, <2>6
<1>3. ASSUME CardState = "ready", k # 0, cards[slot].kind = "halfway"
      PROVE  StoreStep
  <2> DEFINE d == Renamed(LoadedDir, k, b)
  <2>1. WriteDir(d)
    BY <1>3 DEF rename
  <2> HIDE DEF d
  <2> QED
    BY <1>1, <1>3, <2>1, SpoiledDirMaps
<1>4. CASE ~(CardState = "ready" /\ k # 0)
  <2>1. cards' = cards
    BY <1>4 DEF rename
  <2> QED
    BY <1>1, <2>1, FilesUnchanged, NothingSeen
<1> QED
  BY <1>2, <1>3, <1>4, LoadedOK

----------------------------------------------------------------------------
(* Power cuts                                                              *)

(* A power cut between two calls loses the copies.                         *)
LEMMA LostMaps ==
  ASSUME LoseRam, KeptFiles' = KeptFiles, Spoiled' = Spoiled
  PROVE  StoreStep
<1>1. Copies' = [h \in Handles |-> Closed]
  BY HandlesLost DEF LoseRam
<1>2. Store!PowerOff
  BY <1>1 DEF Store!PowerOff
<1> QED
  BY <1>2 DEF StoreStep, Store!Next

(* A format cut short hides no file.  It may show some that nobody wrote,  *)
(* on a card that kept none.                                               *)
LEMMA FormatCutMaps ==
  ASSUME IInv, PowerOffInFormat
  PROVE  StoreStep
<1> DEFINE x == cards[slot]
           y == cards'[slot]
<1>1. slot \in Cards /\ x \in Card /\ cards \in [Cards -> Card]
  BY DEF PowerOffInFormat, IInv, TypeOK
<1>2. /\ OnlyCard(slot) /\ y.dir = x.dir /\ y.data = x.data
      /\ \/ x.kind \notin {"ready", "halfway"} /\ y.kind = "stale"
         \/ y.kind = HeaderKind(x)
  BY <1>1 DEF PowerOffInFormat, OnlyCard, Card
<1> HIDE DEF x, y
<1>3. CASE y.kind = x.kind
  <2>1. SameFiles(y, x)
    BY <1>2, <1>3 DEF SameFiles, Kept, FileOn
  <2> QED
    BY <1>2, <1>3, <2>1, CardShowsSame, SpoiledSame, LostMaps DEF PowerOffInFormat, x, y
<1>4. CASE x.kind \notin {"ready", "halfway"}
  <2>1. \A n \in Names : Kept(x, n) = Absent
    BY <1>4 DEF Kept
  <2>2. \A n \in Names : Kept(y, n) = Absent
    <3>1. CASE y.kind = "ready"
      <4>1. y.dir = EmptyDir
        BY <1>2, <1>4, <3>1 DEF HeaderKind
      <4>2. \A n \in Names : \A k \in Entries : y.dir[k].name # n
        BY <4>1, LayoutAssumption DEF EmptyDir, FreeEntry, LayoutAssumption
      <4> QED
        BY <4>2, NoFileOfName
    <3>2. CASE y.kind # "ready"
      BY <3>2 DEF Kept
    <3> QED
      BY <3>1, <3>2
  <2>3. SameFiles(y, x)
    BY <2>1, <2>2 DEF SameFiles
  <2>4. KeptFiles' = KeptFiles
    BY <1>2, <2>3, CardShowsSame DEF x, y
  <2>5. CASE y.kind = "halfway"
    <3>1. KeptFiles[slot] = Store!NoFiles
      BY <1>1, <2>1 DEF KeptFiles, Store!NoFiles, x
    <3>2. Spoiled' = Spoiled \cup {slot}
      BY <1>1, <1>2, <2>5 DEF Spoiled, OnlyCard, y
    <3>3. Store!Spoil(slot)
      BY <2>4, <3>1, <3>2 DEF Store!Spoil
    <3>4. Copies' = [h \in Handles |-> Closed]
      BY HandlesLost DEF PowerOffInFormat, LoseRam
    <3>5. Store!PowerOff
      BY <1>1, <3>3, <3>4 DEF Store!PowerOff
    <3> QED
      BY <3>5 DEF StoreStep, Store!Next
  <2>6. CASE y.kind # "halfway"
    <3>1. Spoiled' = Spoiled
      BY <1>2, <1>4, <2>6, SpoiledSame DEF x, y
    <3> QED
      BY <2>4, <3>1, LostMaps DEF PowerOffInFormat
  <2> QED
    BY <2>5, <2>6
<1>5. x.kind \in {"ready", "halfway"} => y.kind = x.kind
  BY <1>2 DEF HeaderKind
<1> QED
  BY <1>3, <1>4, <1>5

(* A save cut short before the directory: a file that was there keeps its  *)
(* length, a new one is not there, and no other file has changed.          *)
LEMMA CutCard ==
  ASSUME IInv, CanWrite, NEW f \in File, f.name \in Names, SavePlace(f) # NoRoom,
         WritableCard.kind = "ready",
         NEW m \in 0 .. Len(f.data),
         NEW x,
         x = [WritableCard EXCEPT !.data = WriteData(cards[slot].data, SavePlace(f), f, m)]
  PROVE  /\ SameButFile(x, cards[slot], f.name)
         /\ \/ Kept(x, f.name) = Kept(cards[slot], f.name)
            \/ /\ Kept(x, f.name) \in Seq(Words) /\ Kept(cards[slot], f.name) \in Seq(Words)
               /\ Len(Kept(x, f.name)) = Len(Kept(cards[slot], f.name))
<1> DEFINE d == WritableDir
           k == SaveEntry(f)
           s == SavePlace(f)
           y == WritableCard
           old == cards[slot].data
           new == WriteData(old, s, f, m)
<1>1. /\ slot \in Cards /\ y \in Card /\ y.dir = d /\ DirOK(d)
      /\ y.kind = "ready" /\ y.data = old /\ cards[slot] \in Card
  BY WritableOK DEF CardOK
<1>2. k \in Entries /\ s \in DataStart .. CardWords /\ Free(d, k, s, Len(f.data))
  BY SavedOK
<1>3. x.kind = "ready" /\ x.dir = d /\ x.data = new
  BY <1>1 DEF Card
<1>4. old \in [DataArea -> Words]
  BY <1>1 DEF Card
<1>6. d[k].name \in {f.name, NoName}
  <2>1. k # 0
    BY <1>2, LayoutAssumption DEF LayoutAssumption, Entries
  <2> QED
    BY <2>1, SaveEntryName
<1>7. s \in Nat
  BY <1>2, LayoutAssumption DEF LayoutAssumption
<1>8. new \in [DataArea -> Words]
  BY <1>4, <1>7, WriteDataOK
<1>9. x \in Card
  <2>1. x = [y EXCEPT !.data = new]
    OBVIOUS
  <2> HIDE DEF y, new
  <2> QED
    BY <1>1, <1>8, <2>1 DEF Card
<1> HIDE DEF d, k, s, y, old, new
<1>10. ASSUME NEW n \in Names, NEW j \in Entries, d[j].name = n, j # k
       PROVE  Kept(x, n) = Kept(y, n)
  <2>1. d[j].name # NoName
    BY <1>10, LayoutAssumption DEF LayoutAssumption
  <2>2. Kept(x, n) = FileWords(new, d[j])
    BY <1>1, <1>3, <1>10, FileOfEntry
  <2>3. Kept(y, n) = FileWords(old, d[j])
    BY <1>1, <1>10, FileOfEntry
  <2>4. Elsewhere(d[j], s, Len(f.data))
    BY <1>1, <1>2, <1>10, <2>1, OthersElsewhere
  <2>5. FileWords(WriteData(old, s, f, m), d[j]) = FileWords(old, d[j])
    BY <1>2, <2>4, OthersNotWritten
  <2> QED
    BY <2>2, <2>3, <2>5 DEF new
<1>11. ASSUME NEW n \in Names, \A j \in Entries : d[j].name # n
       PROVE  Kept(x, n) = Kept(y, n)
  <2>1. \A j \in Entries : x.dir[j].name # n /\ y.dir[j].name # n
    BY <1>1, <1>3, <1>11
  <2> QED
    BY <2>1, NoFileOfName
<1>12. \A n \in Names : Kept(y, n) = Kept(cards[slot], n)
  BY WritableShowsSame DEF y
<1>13. SameButFile(x, cards[slot], f.name)
  <2> SUFFICES ASSUME NEW n \in Names, n # f.name PROVE Kept(x, n) = Kept(y, n)
    BY <1>12 DEF SameButFile
  <2>1. d[k].name # n
    BY <1>6, LayoutAssumption DEF LayoutAssumption
  <2> QED
    BY <1>10, <1>11, <2>1
<1>14. CASE d[k].name = f.name
  <2>1. Kept(x, f.name) = FileWords(new, d[k])
    BY <1>1, <1>2, <1>3, <1>14, FileOfEntry
  <2>2. Kept(y, f.name) = FileWords(old, d[k])
    BY <1>1, <1>2, <1>14, FileOfEntry
  <2>3. d[k].name # NoName /\ InArea(d[k])
    BY <1>1, <1>2, <1>14, LayoutAssumption DEF LayoutAssumption, DirOK, Sound
  <2>4. FileWords(new, d[k]) \in Seq(Words)
    BY <1>1, <1>2, <1>3, <1>9, <2>3, FileWordsOK
  <2>5. FileWords(old, d[k]) \in Seq(Words)
    BY <1>1, <1>2, <2>3, FileWordsOK
  <2>6. d[k].size \in Nat
    BY <1>1, <1>2, LayoutAssumption DEF DirOK, Directories, Entry, LayoutAssumption
  <2>7. Len(FileWords(new, d[k])) = d[k].size /\ Len(FileWords(old, d[k])) = d[k].size
    BY <2>6 DEF FileWords
  <2> QED
    BY <1>12, <1>13, <2>1, <2>2, <2>4, <2>5, <2>7
<1>15. CASE d[k].name # f.name
  <2>1. Kept(x, f.name) = Kept(y, f.name)
    BY <1>10, <1>11, <1>15
  <2> QED
    BY <1>12, <1>13, <2>1
<1> QED
  BY <1>14, <1>15

(* A save cut short spoils at most the file it was saving.                 *)
LEMMA SaveCutMaps ==
  ASSUME IInv, OpenNamed, NEW h \in Handles,
         NEW m \in 0 .. CardWords - DataStart, PowerOffInCommit(h, m)
  PROVE  StoreStep
<1> DEFINE f == pool[h]
           x == [WritableCard EXCEPT
                   !.data = WriteData(cards[slot].data, SavePlace(f), f, m)]
<1>1. /\ f \in File /\ f.open /\ f.name \in Names /\ CanWrite /\ SavePlace(f) # NoRoom
      /\ m \in 0 .. Len(f.data)
  BY DEF PowerOffInCommit, CommitSucceeds, IInv, TypeOK, OpenNamed
<1>2. slot \in Cards /\ cards \in [Cards -> Card]
  BY <1>1, WritableOK DEF IInv, CardsOK
<1>3. cards' = [cards EXCEPT ![slot] = x] /\ LoseRam /\ x.kind = WritableCard.kind
  BY <1>1, WritableOK DEF PowerOffInCommit, CardOK, Card
<1>4. WritableCard.kind = "ready" =>
      /\ SameButFile(x, cards[slot], f.name)
      /\ \/ Kept(x, f.name) = Kept(cards[slot], f.name)
         \/ /\ Kept(x, f.name) \in Seq(Words) /\ Kept(cards[slot], f.name) \in Seq(Words)
            /\ Len(Kept(x, f.name)) = Len(Kept(cards[slot], f.name))
  BY <1>1, CutCard
<1> HIDE DEF x
<1>5. cards'[slot] = x /\ OnlyCard(slot)
  BY <1>2, <1>3 DEF OnlyCard
<1>6. CASE cards[slot].kind = "halfway"
  <2>1. KeptFiles' = KeptFiles /\ Spoiled' = Spoiled
    BY <1>1, <1>3, <1>5, <1>6, WritableOK, SpoiledKeepsNone
  <2> QED
    BY <1>3, <2>1, LostMaps
<1> SUFFICES ASSUME cards[slot].kind # "halfway" PROVE StoreStep
  BY <1>6
<1>7. x.kind = "ready" /\ WritableCard.kind = "ready" /\ Spoiled' = Spoiled
  BY <1>1, <1>3, <1>5, WritableOK, SpoiledSame
<1>8. CASE Kept(x, f.name) = Kept(cards[slot], f.name)
  <2>1. SameFiles(cards'[slot], cards[slot])
    BY <1>4, <1>5, <1>7, <1>8 DEF SameFiles, SameButFile
  <2> QED
    BY <1>3, <1>5, <1>7, <2>1, CardShowsSame, LostMaps
<1>9. CASE /\ Kept(x, f.name) \in Seq(Words) /\ Kept(cards[slot], f.name) \in Seq(Words)
           /\ Len(Kept(x, f.name)) = Len(Kept(cards[slot], f.name))
  <2> DEFINE w == Kept(x, f.name)
  <2>1. FileBecomes(slot, f.name, w)
    BY <1>1, <1>2, <1>4, <1>5, <1>7, FileReplaced
  <2>2. KeptFiles'[slot][f.name] = w
    BY <1>1, <1>2, <2>1, BecomesHolds
  <2>3. KeptFiles[slot][f.name] = Kept(cards[slot], f.name)
    BY <1>1, <1>2 DEF KeptFiles
  <2>4. Copies[h] # Closed /\ Copies[h] = [name |-> f.name, data |-> f.data]
    BY <1>1, CopyThere
  <2>5. Copies[h].name = f.name
    BY <2>4
  <2> HIDE DEF w
  <2>6. Store!Torn(slot, f.name)
    BY <1>9, <2>1, <2>2, <2>3, FileAssumption DEF FileAssumption, FileBecomes, Store!Torn, w
  <2>7. Copies' = [g \in Handles |-> Closed]
    BY <1>3, HandlesLost DEF LoseRam
  <2>8. Store!PowerOff
    <3>1. Store!Torn(slot, Copies[h].name)
      BY <2>5, <2>6
    <3> QED
      BY <1>2, <1>7, <2>4, <2>7, <3>1 DEF Store!PowerOff, Spoiled
  <2> QED
    BY <2>8 DEF StoreStep, Store!Next
<1> QED
  BY <1>4, <1>7, <1>8, <1>9

----------------------------------------------------------------------------
(* The refinement                                                          *)

(* The game starts with no file on any card and none open.                 *)
LEMMA InitMaps == Init => Store!Init
<1> SUFFICES ASSUME Init PROVE Store!Init
  OBVIOUS
<1>1. \A c \in Cards : cards[c].kind \notin {"ready", "halfway"}
  BY FileAssumption DEF FileAssumption, Init, FirstCards
<1>2. \A c \in Cards : \A n \in Names : Kept(cards[c], n) = Absent
  BY <1>1 DEF Kept
<1>3. KeptFiles = [c \in Cards |-> Store!NoFiles]
  BY <1>2 DEF KeptFiles, Store!NoFiles
<1>4. Copies = [h \in Handles |-> Closed]
  <2>1. \A h \in Handles : ~pool[h].open
    BY DEF Init, ClosedPool, ClosedFile
  <2> QED
    BY <2>1 DEF Copies
<1>5. Spoiled = {}
  BY <1>1 DEF Spoiled
<1> QED
  BY <1>3, <1>4, <1>5 DEF Store!Init

(* Every step of the code is a step of the store, or none.                 *)
LEMMA NextMaps == IInv /\ OpenNamed /\ [Next]_vars => [Store!Next]_<<KeptFiles, Copies, Spoiled>>
<1> SUFFICES ASSUME IInv, OpenNamed, [Next]_vars PROVE StoreStep
  BY DEF StoreStep
<1>1. CASE v32file_format
  BY <1>1, FormatMaps
<1>2. CASE \E n \in Names, m \in Modes :
             fopen_existing(n, m) \/ fopen_new(n, m) \/ fopen_refused(n, m) \/ fopen_no_room(n, m)
  BY <1>2, FopenExistingMaps, FopenNewMaps, FopenFailsMaps
<1>3. ASSUME NEW h \in Handles, v32file_close(h) \/ v32file_flush(h) \/ rewind(h)
      PROVE  StoreStep
  BY <1>3, SaveMaps DEF Saves
<1>4. ASSUME NEW h \in Handles,
             \/ v32file_getc(h) \/ ReserveFails(h)
             \/ \E w \in Words : v32file_putc(h, w)
             \/ \E w, x \in Words : fwrite(h, <<w, x>>)
             \/ \E sz, cnt \in 1 .. 2 : fread(h, sz, cnt)
             \/ \E p \in 0 .. MaxSize : fseek(h, p)
      PROVE  StoreStep
  <2>1. UNCHANGED <<cards, slot, ram>> /\ pool[h].open /\ KeepsHandle(h)
    BY <1>4, BufferStep
  <2> QED
    BY <2>1, EditMaps
<1>5. CASE \E n \in Names : remove(n) \/ \E b \in Names \cup {NoName} : rename(n, b)
  BY <1>5, RemoveMaps, RenameMaps
<1>6. CASE EjectCard \/ \E c \in Cards : InsertCard(c)
  <2>1. cards' = cards /\ pool' = pool
    BY <1>6 DEF EjectCard, InsertCard
  <2> QED
    BY <2>1, FilesUnchanged, HandlesSame, NothingSeen
<1>7. CASE PowerOff
  <2>1. LoseRam /\ KeptFiles' = KeptFiles /\ Spoiled' = Spoiled
    BY <1>7, FilesUnchanged DEF PowerOff
  <2> QED
    BY <2>1, LostMaps
<1>8. ASSUME NEW h \in Handles, NEW m \in 0 .. CardWords - DataStart, PowerOffInCommit(h, m)
      PROVE  StoreStep
  BY <1>8, SaveCutMaps
<1>9. CASE PowerOffInFormat
  BY <1>9, FormatCutMaps
<1>10. CASE UNCHANGED vars
  <2>1. cards' = cards /\ pool' = pool
    BY <1>10 DEF vars
  <2> QED
    BY <2>1, FilesUnchanged, HandlesSame, NothingSeen
<1> QED
  BY <1>1, <1>2, <1>3, <1>4, <1>5, <1>6, <1>7, <1>8, <1>9, <1>10 DEF Next

(* The memory card, with its directory, its first-fit search and its       *)
(* copies in RAM, is the abstract store of named files, for any number of  *)
(* cards, files, handles and words: each call does to the one file it      *)
(* names what the store's step does, a power cut in the middle of a save   *)
(* spoils the words of that file at most, and one in the middle of a       *)
(* format at most a card that kept no file, whatever was on it before.     *)
THEOREM CardImplementsStore == Spec => ImplementsStore
<1>1. Init => Store!Init
  BY InitMaps
<1>2. IInv /\ OpenNamed /\ [Next]_vars => [Store!Next]_<<KeptFiles, Copies, Spoiled>>
  BY NextMaps
<1> QED
  BY <1>1, <1>2, InitIInv, NextIInv, InitNamed, NextNamed, PTL DEF Spec, ImplementsStore, Store!Spec
=============================================================================
