----------------------------- MODULE FileStore -----------------------------
(***************************************************************************)
(* What libc/v32file.c promises a program.  A memory card is a map from    *)
(* file names to contents, an open file is a private copy in RAM, and a    *)
(* save replaces one file by one copy.  A power cut loses the copies.  Of  *)
(* the cards it may spoil one file only, the words, not the length, of a   *)
(* file that an open copy was being saved over; or, while a card without   *)
(* files is being erased, that card: it then shows files that nobody       *)
(* wrote, keeps none, and is no use until it is erased again.              *)
(***************************************************************************)
EXTENDS Sequences

CONSTANTS
  Cards,    \* the memory cards a player owns
  Handles,  \* the open files a program may have at once
  Names,    \* file names
  Words,    \* the values of one word
  Absent,   \* no file of that name on the card
  Closed    \* a handle that is not open

VARIABLES
  files,    \* [Cards -> [Names -> contents or Absent]]
  copies,   \* [Handles -> the name and contents of an open file, or Closed]
  spoiled   \* the cards that show files nobody wrote

Copy(n, w) == [name |-> n, data |-> w]

NoFiles == [n \in Names |-> Absent]

Init ==
  /\ files = [c \in Cards |-> NoFiles]
  /\ copies = [h \in Handles |-> Closed]
  /\ spoiled = {}

(* An open file starts as what is on a card under its name, or empty; from *)
(* a spoiled card, as anything.                                            *)
Open(h) ==
  /\ copies[h] = Closed
  /\ copies'[h] # Closed
  /\ \E n \in Names, w \in {copies'[h].data} :
       /\ \/ w \in {<<>>} \cup ({files[c][n] : c \in Cards} \ {Absent})
          \/ spoiled # {} /\ w \in Seq(Words)
       /\ copies' = [copies EXCEPT ![h] = Copy(n, w)]
  /\ UNCHANGED <<files, spoiled>>

Edit(h) ==
  /\ copies[h] # Closed
  /\ copies'[h] # Closed
  /\ \E w \in {copies'[h].data} :
        w \in Seq(Words) /\ copies' = [copies EXCEPT ![h] = Copy(copies[h].name, w)]
  /\ UNCHANGED <<files, spoiled>>

Store(c, h) == files' = [files EXCEPT ![c][copies[h].name] = copies[h].data]

Save(h) ==
  /\ copies[h] # Closed
  /\ UNCHANGED <<copies, spoiled>>
  /\ \E c \in Cards \ spoiled : Store(c, h)

(* Closing saves, or finds nothing to save or no room to save it in.       *)
Close(h) ==
  /\ copies[h] # Closed
  /\ copies' = [copies EXCEPT ![h] = Closed]
  /\ UNCHANGED files \/ \E c \in Cards \ spoiled : Store(c, h)
  /\ UNCHANGED spoiled

Remove(c, n) ==
  /\ UNCHANGED <<copies, spoiled>>
  /\ files' = [files EXCEPT ![c][n] = Absent]

(* The file keeps its contents under its new name and replaces the file    *)
(* that had it.                                                            *)
Rename(c, a, b) ==
  /\ a # b
  /\ UNCHANGED <<copies, spoiled>>
  /\ files[c][a] # Absent
  /\ files' = [files EXCEPT ![c][b] = files[c][a], ![c][a] = Absent]

Erase(c) ==
  /\ UNCHANGED copies
  /\ files' = [files EXCEPT ![c] = NoFiles]
  /\ spoiled' = spoiled \ {c}

Torn(c, n) ==
  /\ files[c][n] # Absent
  /\ files'[c][n] # Absent
  /\ files'[c][n] \in Seq(Words)
  /\ Len(files'[c][n]) = Len(files[c][n])
  /\ files' = [files EXCEPT ![c][n] = files'[c][n]]

Spoil(c) ==
  /\ files[c] = NoFiles
  /\ spoiled' = spoiled \cup {c}
  /\ UNCHANGED files

PowerOff ==
  /\ copies' = [h \in Handles |-> Closed]
  /\ \/ UNCHANGED <<files, spoiled>>
     \/ \E c \in Cards : Spoil(c)
     \/ /\ \E c \in Cards \ spoiled, h \in Handles :
             copies[h] # Closed /\ Torn(c, copies[h].name)
        /\ UNCHANGED spoiled

Next ==
  \/ \E h \in Handles : Open(h) \/ Edit(h) \/ Save(h) \/ Close(h)
  \/ \E c \in Cards :
       \/ Erase(c)
       \/ \E n \in Names : Remove(c, n) \/ \E b \in Names : Rename(c, n, b)
  \/ PowerOff

Spec == Init /\ [][Next]_<<files, copies, spoiled>>
=============================================================================
