--------------------------- MODULE Library_proofs ---------------------------
(***************************************************************************)
(* Proofs about the C library: the search for room on the memory card      *)
(* (V32FindRoom), the line that fgets lets the player edit, and dates      *)
(* (Libc).                                                                 *)
(***************************************************************************)
EXTENDS V32FindRoom, Libc, SequenceTheorems, WellFoundedInduction, TLAPS

-----------------------------------------------------------------------------
(* The proof: the search returns the first fit, for every card, directory  *)
(* and size.                                                               *)

(* The fields of a directory entry.                                        *)
LEMMA EntryFields ==
  ASSUME NEW d \in Directories, NEW k \in Entries
  PROVE  /\ d[k].start \in Int
         /\ d[k].size \in Nat
         /\ d[k].name \in Names \cup {NoName}
BY DEF Directories, Entry

(* The invariant holds when the search starts.                             *)
LEMMA InitIInv == Init => IInv
<1> SUFFICES ASSUME Init PROVE IInv
  OBVIOUS
<1>1. TypeOK
  <2>1. moved \in BOOLEAN
    BY DEF Init
  <2>2. dir \in Directories /\ size \in 0 .. MaxSize /\ skip \in Entries
    BY SearchAssumption DEF SearchAssumption, Init
  <2>3. start \in Nat /\ start >= DataStart /\ i \in 1 .. MaxFiles + 1
    BY LayoutAssumption DEF LayoutAssumption, Init
  <2>4. result \in Nat \cup {NoRoom, Searching}
    BY DEF Init
  <2> QED
    BY <2>1, <2>2, <2>3, <2>4 DEF TypeOK
<1>2. NoGapSkipped
  BY LayoutAssumption DEF LayoutAssumption, Init, NoGapSkipped
<1>3. PassClear
  BY DEF Init, PassClear
<1>4. FindsFirstFit
  BY DEF Init, FindsFirstFit
<1> QED
  BY <1>1, <1>2, <1>3, <1>4 DEF IInv

(* Looking at one entry keeps it.                                          *)
LEMMA ScanEntryIInv == IInv /\ ScanEntry => IInv'
<1> SUFFICES ASSUME IInv, ScanEntry PROVE IInv'
  OBVIOUS
<1> USE LayoutAssumption DEF LayoutAssumption
<1>0. i \in Entries /\ dir' = dir /\ size' = size /\ skip' = skip /\ i' = i + 1
  BY DEF IInv, TypeOK, ScanEntry, Entries
<1> DEFINE e == dir[i]
<1>e. e.start \in Int /\ e.size \in Nat
  BY <1>0, EntryFields DEF IInv, TypeOK
<1>1. CASE i # skip /\ Collides(e, start, size)
  <2>1. start' = e.start + e.size /\ moved' = TRUE /\ result' = result
    BY <1>1 DEF ScanEntry
  <2>2. TypeOK'
    <3>1. moved' \in BOOLEAN
      BY <2>1
    <3>2. start' \in Nat /\ start' >= DataStart /\ i' \in 1 .. MaxFiles + 1
      BY <1>0, <1>1, <1>e, <2>1 DEF IInv, TypeOK, Entries, Collides
    <3> QED
      BY <1>0, <2>1, <3>1, <3>2 DEF IInv, TypeOK
  <2>3. NoGapSkipped'
    <3> SUFFICES ASSUME NEW s \in DataStart .. start' - 1
                 PROVE  ~Free(dir, skip, s, size)
      BY <1>0 DEF NoGapSkipped
    <3>1. CASE s < start
      BY <3>1, <1>e, <2>1 DEF IInv, TypeOK, NoGapSkipped
    <3>2. CASE s >= start
      <4>1. s < e.start + e.size /\ e.start < s + size
        BY <1>1, <1>e, <2>1, <3>2 DEF IInv, TypeOK, Collides
      <4>2. Collides(e, s, size)
        BY <1>1, <4>1 DEF Collides
      <4> QED
        BY <1>0, <1>1, <4>2 DEF Free, Clear
    <3> QED
      BY <3>1, <3>2, <1>e, <2>1 DEF IInv, TypeOK
  <2>4. PassClear'
    BY <2>1 DEF PassClear
  <2>5. FindsFirstFit'
    BY <2>1 DEF FindsFirstFit, ScanEntry
  <2> QED
    BY <2>2, <2>3, <2>4, <2>5 DEF IInv
<1>2. CASE ~(i # skip /\ Collides(e, start, size))
  <2>1. UNCHANGED <<start, moved, result>>
    BY <1>2 DEF ScanEntry
  <2>2. TypeOK'
    BY <1>0, <2>1 DEF IInv, TypeOK, Entries
  <2>3. NoGapSkipped'
    BY <1>0, <2>1 DEF IInv, NoGapSkipped
  <2>4. PassClear'
    BY <1>0, <1>2, <2>1 DEF IInv, TypeOK, PassClear
  <2>5. FindsFirstFit'
    BY <2>1 DEF FindsFirstFit, ScanEntry
  <2> QED
    BY <2>2, <2>3, <2>4, <2>5 DEF IInv
<1> QED
  BY <1>1, <1>2

(* Starting another pass keeps it.                                         *)
LEMMA NextPassIInv == IInv /\ NextPass => IInv'
<1> SUFFICES ASSUME IInv, NextPass PROVE IInv'
  OBVIOUS
<1>1. UNCHANGED <<dir, size, skip, start, result>> /\ i' = 1
  BY DEF NextPass
<1>2. moved' \in BOOLEAN
  BY DEF NextPass
<1>3. i' \in 1 .. MaxFiles + 1
  BY <1>1, LayoutAssumption DEF LayoutAssumption
<1>4. TypeOK'
  BY <1>1, <1>2, <1>3 DEF IInv, TypeOK
<1>5. NoGapSkipped' /\ FindsFirstFit'
  BY <1>1 DEF IInv, NoGapSkipped, FindsFirstFit
<1>6. PassClear'
  BY <1>1 DEF PassClear
<1> QED
  BY <1>4, <1>5, <1>6 DEF IInv

(* The position the loop stops at is the minimum of the free ones.         *)
LEMMA LeastFit ==
  ASSUME NEW d \in Directories, NEW k \in Entries, NEW n \in Nat, NEW s \in Nat,
         s >= DataStart, Clear(d, k, s, n),
         \A t \in DataStart .. s - 1 : ~Free(d, k, t, n)
  PROVE  FirstFit(d, k, n) = IF s + n > CardWords THEN NoRoom ELSE s
<1> USE LayoutAssumption DEF LayoutAssumption
<1> DEFINE fits == {t \in DataStart .. CardWords : Free(d, k, t, n)}
<1>1. \A t \in fits : s <= t
  OBVIOUS
<1>2. CASE s + n > CardWords
  <2>1. fits = {}
    BY <1>1, <1>2 DEF Free
  <2> QED
    BY <1>2, <2>1 DEF FirstFit
<1>3. CASE s + n <= CardWords
  <2>1. s \in fits
    BY <1>3 DEF Free
  <2>2. \A t \in fits : (\A u \in fits : t <= u) => t = s
    BY <1>1, <2>1
  <2> HIDE DEF fits
  <2>3. (CHOOSE t \in fits : \A u \in fits : t <= u) = s
    BY <1>1, <2>1, <2>2
  <2> QED
    BY <1>3, <2>1, <2>3 DEF FirstFit, fits
<1> QED
  BY <1>2, <1>3

(* Returning keeps it and makes the answer the first fit.                  *)
LEMMA ReturnIInv == IInv /\ Return => IInv'
<1> SUFFICES ASSUME IInv, Return PROVE IInv'
  OBVIOUS
<1> USE LayoutAssumption DEF LayoutAssumption
<1>1. UNCHANGED <<dir, size, skip, start, i, moved>>
  BY DEF Return
<1>2. start >= DataStart /\ Clear(dir, skip, start, size)
  BY DEF IInv, TypeOK, PassClear, Return, Clear, Entries
<1>3. FirstFit(dir, skip, size) = IF start + size > CardWords THEN NoRoom ELSE start
  BY <1>2, LeastFit DEF IInv, TypeOK, NoGapSkipped
<1>4. FindsFirstFit'
  BY <1>1, <1>3 DEF FindsFirstFit, Return
<1>5. TypeOK' /\ NoGapSkipped' /\ PassClear'
  BY <1>1 DEF IInv, TypeOK, NoGapSkipped, PassClear, Return
<1> QED
  BY <1>4, <1>5 DEF IInv

(* v32file_find_room's loop never passes over a usable gap, and returns    *)
(* the lowest free position, or -1 exactly when there is none: the first   *)
(* fit every other module of the file system relies on.                    *)
THEOREM FindRoomIsFirstFit == Spec => [](NoGapSkipped /\ FindsFirstFit)
<1>1. IInv /\ [Next]_vars => IInv'
  <2>1. IInv /\ UNCHANGED vars => IInv'
    BY DEF IInv, vars, TypeOK, NoGapSkipped, PassClear, FindsFirstFit
  <2> QED
    BY <2>1, ScanEntryIInv, NextPassIInv, ReturnIInv DEF Next
<1>2. IInv => NoGapSkipped /\ FindsFirstFit
  BY DEF IInv
<1> QED
  BY InitIInv, <1>1, <1>2, PTL DEF Spec

-----------------------------------------------------------------------------
(* Sequences of anything.                                                  *)
IsSeq(s) == Len(s) \in Nat /\ s = [j \in 1 .. Len(s) |-> s[j]]

LEMMA SeqIn ==
  ASSUME NEW s, IsSeq(s), NEW T, \A j \in 1 .. Len(s) : s[j] \in T
  PROVE  s \in Seq(T)
<1>1. s \in [1 .. Len(s) -> T]
  BY DEF IsSeq
<1>2. QED BY <1>1 DEF IsSeq

LEMMA InSeq ==
  ASSUME NEW T, NEW s \in Seq(T)
  PROVE  IsSeq(s)
BY DEF IsSeq

LEMMA AppendAt ==
  ASSUME NEW s, IsSeq(s), NEW x, NEW f, f = Append(s, x)
  PROVE  /\ IsSeq(f) /\ Len(f) = Len(s) + 1
         /\ \A j \in 1 .. Len(s) + 1 : f[j] = IF j = Len(s) + 1 THEN x ELSE s[j]
<1>1. PICK T : T = {s[j] : j \in 1 .. Len(s)} \cup {x}
  OBVIOUS
<1>2. s \in Seq(T) /\ x \in T
  BY <1>1, SeqIn
<1>3. f \in Seq(T) /\ Len(f) = Len(s) + 1 /\ (\A j \in 1 .. Len(s) : f[j] = s[j]) /\ f[Len(s) + 1] = x
  BY <1>2, AppendProperties
<1>4. IsSeq(f)
  BY <1>3, InSeq
<1>5. QED BY <1>3, <1>4 DEF IsSeq

LEMMA ConcatAt ==
  ASSUME NEW s, IsSeq(s), NEW t, IsSeq(t), NEW f, f = s \o t
  PROVE  /\ IsSeq(f) /\ Len(f) = Len(s) + Len(t)
         /\ \A j \in 1 .. Len(s) + Len(t) : f[j] = IF j <= Len(s) THEN s[j] ELSE t[j - Len(s)]
<1>1. PICK T : T = {s[j] : j \in 1 .. Len(s)} \cup {t[j] : j \in 1 .. Len(t)}
  OBVIOUS
<1>2. s \in Seq(T) /\ t \in Seq(T)
  BY <1>1, SeqIn
<1>3. /\ f \in Seq(T) /\ Len(f) = Len(s) + Len(t)
      /\ \A j \in 1 .. Len(s) + Len(t) : f[j] = IF j <= Len(s) THEN s[j] ELSE t[j - Len(s)]
  BY <1>2, ConcatProperties
<1>4. QED BY <1>3, InSeq

LEMMA SubSeqAt ==
  ASSUME NEW s, IsSeq(s), NEW a \in 1 .. Len(s) + 1, NEW b \in a - 1 .. Len(s),
         NEW f, f = SubSeq(s, a, b)
  PROVE  IsSeq(f) /\ Len(f) = b - a + 1 /\ \A j \in 1 .. b - a + 1 : f[j] = s[a + j - 1]
<1>0. Len(s) \in Nat
  BY DEF IsSeq
<1>1. PICK T : T = {s[j] : j \in 1 .. Len(s)}
  OBVIOUS
<1>2. \A j \in a .. b : s[j] \in T
  BY <1>0, <1>1
<1>3. /\ f \in Seq(T)
      /\ Len(f) = IF a <= b THEN b - a + 1 ELSE 0
      /\ \A j \in 1 .. b - a + 1 : f[j] = s[a + j - 1]
  BY <1>0, <1>2, SubSeqProperties
<1>4. IsSeq(f)
  BY <1>3, InSeq
<1>5. QED BY <1>0, <1>3, <1>4

LEMMA SameSeq ==
  ASSUME NEW s, IsSeq(s), NEW t, IsSeq(t), Len(s) = Len(t), \A j \in 1 .. Len(s) : s[j] = t[j]
  PROVE  s = t
BY DEF IsSeq

(* A line under edit, and what of it is not the screen's.                  *)
OnScreen(l) ==
  /\ l = [size |-> l.size, prompt |-> l.prompt, buf |-> l.buf, y |-> l.y, x |-> l.x, done |-> l.done,
          stuck |-> l.stuck, want |-> l.want]
  /\ l.size \in Int /\ IsSeq(l.prompt) /\ IsSeq(l.buf) /\ l.done \in BOOLEAN /\ l.stuck \in BOOLEAN
  /\ l.y \in 0 .. Rows - 1 /\ l.x \in 0 .. Cols
  /\ l.want = [k \in Cells |-> l.want[k]]
SameCall(m, l) == m.size = l.size /\ m.prompt = l.prompt /\ m.buf = l.buf /\ m.done = l.done /\ m.stuck = l.stuck

(* The rows lie behind each other in the cells.                            *)
LEMMA RowCells ==
  ASSUME NEW y \in 0 .. Rows - 1
  PROVE  /\ y * Cols \in Nat /\ Rows * Cols \in Nat /\ y * Cols + Cols <= Rows * Cols
         /\ (y + 1) * Cols = y * Cols + Cols
         /\ Rows * Cols = (Rows - 1) * Cols + Cols
         /\ Cols \in Nat /\ Rows \in Nat /\ Cols > 0
<1>1. y \in Nat /\ Rows \in Nat /\ Cols \in Nat /\ y + 1 <= Rows /\ Cols > 0
  BY ScreenSize
<1>2. y * Cols \in Nat /\ Rows * Cols \in Nat
  BY <1>1
<1>3. (y + 1) * Cols = y * Cols + Cols
  BY <1>1
<1>4. PICK j \in Nat : Rows = (y + 1) + j
  <2>1. Rows - (y + 1) \in Nat /\ Rows = (y + 1) + (Rows - (y + 1))
    BY <1>1
  <2> QED
    BY <2>1
<1>5. Rows * Cols = (y + 1) * Cols + j * Cols
  BY <1>1, <1>4
<1>6. j * Cols \in Nat
  BY <1>1
<1>7. PICK R, N, J, S : R = y * Cols /\ N = Rows * Cols /\ J = j * Cols /\ S = (y + 1) * Cols
  OBVIOUS
<1>8. R \in Nat /\ J \in Nat /\ S = R + Cols /\ N = S + J
  BY <1>2, <1>3, <1>5, <1>6, <1>7, Zenon
<1>9. R + Cols <= N
  BY <1>1, <1>8
<1>10. Rows * Cols = (Rows - 1) * Cols + Cols
  BY <1>1
<1> QED
  BY <1>1, <1>2, <1>3, <1>7, <1>9, <1>10, Zenon

(* The cursor goes to the next row, and the screen with it if need be.     *)
Scrolls(m, l, d) ==
  /\ OnScreen(m) /\ SameCall(m, l) /\ m.x = 0
  /\ d \in Nat /\ At(m) + d = l.y * Cols + Cols
  /\ IF l.y = Rows - 1 THEN d = Cols /\ m.y = Rows - 1 ELSE d = 0 /\ m.want = l.want
  /\ \A k \in Cells : m.want[k] = IF k + d \in Cells THEN l.want[k + d] ELSE Space

LEMMA NextRowIs ==
  ASSUME NEW l, OnScreen(l), NEW m, m = NextRow(l)
  PROVE  \E d : Scrolls(m, l, d)
<1>1. PICK y, R, N, w : y = l.y /\ R = y * Cols /\ N = Rows * Cols /\ w = l.want
  OBVIOUS
<1>2. y \in 0 .. Rows - 1
  BY <1>1 DEF OnScreen
<1>3. /\ R \in Nat /\ N \in Nat /\ R + Cols <= N /\ (y + 1) * Cols = R + Cols
      /\ Cols \in Nat /\ Rows \in Nat /\ Cells = 0 .. N - 1
  BY <1>1, <1>2, RowCells DEF Cells
<1>4. PICK u : u = [l EXCEPT !.y = y + 1, !.x = 0]
  OBVIOUS
<1>5. m = IntoView(u)
  BY <1>1, <1>4 DEF NextRow
<1>6. u = [size |-> l.size, prompt |-> l.prompt, buf |-> l.buf, y |-> y + 1, x |-> 0, done |-> l.done,
           stuck |-> l.stuck, want |-> w]
  BY <1>1, <1>4 DEF OnScreen
<1>7. CASE y # Rows - 1
  <2>1. m = u
    BY <1>2, <1>3, <1>5, <1>6, <1>7 DEF IntoView
  <2>2. m.y = y + 1 /\ m.x = 0 /\ m.want = w
    BY <1>6, <2>1
  <2>3. OnScreen(m) /\ SameCall(m, l)
    BY <1>1, <1>2, <1>3, <1>6, <1>7, <2>1 DEF OnScreen, SameCall
  <2>4. At(m) + 0 = y * Cols + Cols
    <3>1. At(m) = (y + 1) * Cols + 0
      BY <2>2 DEF At
    <3>2. At(m) = R + Cols
      BY <1>3, <3>1
    <3> QED
      BY <1>1, <1>3, <3>2
  <2>5. \A k \in Cells : m.want[k] = IF k + 0 \in Cells THEN l.want[k + 0] ELSE Space
    BY <1>1, <1>3, <2>2
  <2>6. Scrolls(m, l, 0)
    BY <1>1, <1>7, <2>2, <2>3, <2>4, <2>5 DEF Scrolls
  <2> QED
    BY <2>6
<1>8. CASE y = Rows - 1
  <2>1. PICK s : s = [k \in Cells |-> IF k + Cols \in Cells THEN w[k + Cols] ELSE Space]
    OBVIOUS
  <2>2. m = [u EXCEPT !.y = u.y - 1, !.want = s]
    <3>1. ~(u.y < Rows) /\ u.want = w
      BY <1>3, <1>6, <1>8
    <3> QED
      BY <1>5, <2>1, <3>1 DEF IntoView
  <2>3. m = [size |-> l.size, prompt |-> l.prompt, buf |-> l.buf, y |-> y, x |-> 0, done |-> l.done,
             stuck |-> l.stuck, want |-> s]
    <3>1. u.y - 1 = y
      BY <1>2, <1>6
    <3> QED
      BY <1>6, <2>2, <3>1
  <2>4. m.y = y /\ m.x = 0 /\ m.want = s
    BY <2>3
  <2>5. s = [k \in Cells |-> s[k]]
    BY <2>1
  <2>6. OnScreen(m) /\ SameCall(m, l)
    BY <1>1, <1>2, <1>3, <2>3, <2>5 DEF OnScreen, SameCall
  <2>7. At(m) + Cols = y * Cols + Cols
    <3>1. At(m) = R + 0
      BY <1>1, <2>4 DEF At
    <3> QED
      BY <1>1, <1>3, <3>1
  <2>8. \A k \in Cells : m.want[k] = IF k + Cols \in Cells THEN l.want[k + Cols] ELSE Space
    BY <1>1, <2>1, <2>4
  <2>9. Scrolls(m, l, Cols)
    BY <1>1, <1>3, <1>8, <2>4, <2>6, <2>7, <2>8 DEF Scrolls
  <2> QED
    BY <2>9
<1> QED
  BY <1>7, <1>8

(* What is on the screen stays, a row further up if it has scrolled.       *)
LEMMA ScrollShows ==
  ASSUME NEW l, OnScreen(l), NEW m, NEW d, Scrolls(m, l, d),
         NEW text, IsSeq(text), NEW e \in Int, e <= l.y * Cols + Cols, ShowsUpTo(l, text, e)
  PROVE  ShowsUpTo(m, text, e - d)
<1>1. PICK N, n : N = Rows * Cols /\ n = Len(text)
  OBVIOUS
<1>2. N \in Nat /\ e <= N /\ n \in Nat /\ Cells = 0 .. N - 1 /\ d \in Nat
  <2>1. l.y \in 0 .. Rows - 1
    BY DEF OnScreen
  <2>2. PICK R : R = l.y * Cols
    OBVIOUS
  <2>3. R \in Nat /\ N \in Nat /\ R + Cols <= N /\ Cols \in Nat
    BY <1>1, <2>1, <2>2, RowCells
  <2>4. e <= R + Cols
    BY <2>2
  <2> QED
    BY <1>1, <2>3, <2>4 DEF Cells, Scrolls, IsSeq
<1>3. \A k \in Cells : m.want[k] = IF k + d \in Cells THEN l.want[k + d] ELSE Space
  BY DEF Scrolls
<1>4. ASSUME NEW k \in 1 .. n, e - d >= k PROVE m.want[(e - d) - k] = text[n + 1 - k]
  <2>1. PICK j : j = (e - d) - k
    OBVIOUS
  <2>2. j \in Cells /\ j + d \in Cells /\ j + d = e - k /\ e >= k
    BY <1>2, <1>4, <2>1
  <2>3. m.want[j] = l.want[e - k]
    BY <1>3, <2>2
  <2> QED
    BY <1>1, <2>1, <2>2, <2>3 DEF ShowsUpTo
<1>5. ASSUME NEW k \in Cells, k >= e - d PROVE m.want[k] = Space
  <2>1. CASE k + d \in Cells
    <3>1. k + d >= e
      BY <1>2, <1>5
    <3> QED
      BY <1>3, <2>1, <3>1 DEF ShowsUpTo
  <2>2. CASE k + d \notin Cells
    BY <1>3, <2>2
  <2> QED
    BY <2>1, <2>2
<1>6. ASSUME n > e - d PROVE m.y = Rows - 1
  <2>1. CASE l.y = Rows - 1
    BY <2>1 DEF Scrolls
  <2>2. CASE l.y # Rows - 1
    <3>1. n > e
      BY <1>2, <1>6, <2>2 DEF Scrolls
    <3> QED
      BY <1>1, <2>2, <3>1 DEF ShowsUpTo
  <2> QED
    BY <2>1, <2>2
<1> QED
  BY <1>1, <1>4, <1>5, <1>6 DEF ShowsUpTo

(* A character takes the cursor's cell.                                    *)
Put(u, c) == [u EXCEPT !.want[At(u)] = c, !.x = @ + 1]

LEMMA PutIs ==
  ASSUME NEW u, OnScreen(u), u.x < Cols, NEW c, NEW r, r = Put(u, c)
  PROVE  /\ OnScreen(r) /\ SameCall(r, u) /\ r.y = u.y /\ r.x = u.x + 1
         /\ At(u) \in Cells /\ At(r) = At(u) + 1
         /\ \A k \in Cells : r.want[k] = IF k = At(u) THEN c ELSE u.want[k]
<1>1. PICK y, x, R, N, w, p : y = u.y /\ x = u.x /\ R = y * Cols /\ N = Rows * Cols /\ w = u.want /\ p = At(u)
  OBVIOUS
<1>2. y \in 0 .. Rows - 1 /\ x \in 0 .. Cols /\ x < Cols
  BY <1>1 DEF OnScreen
<1>3. R \in Nat /\ N \in Nat /\ R + Cols <= N /\ Cols \in Nat /\ Cells = 0 .. N - 1
  BY <1>1, <1>2, RowCells DEF Cells
<1>4. p = R + x
  BY <1>1 DEF At
<1>5. p \in Cells
  BY <1>2, <1>3, <1>4
<1>6. PICK s : s = [w EXCEPT ![p] = c]
  OBVIOUS
<1>7. s = [k \in Cells |-> IF k = p THEN c ELSE w[k]]
  BY <1>1, <1>6 DEF OnScreen
<1>8. r = [u EXCEPT !.want = s, !.x = x + 1]
  <2>1. r = [u EXCEPT !.want[At(u)] = c, !.x = @ + 1]
    BY DEF Put
  <2> QED
    BY <1>1, <1>6, <2>1
<1>9. r = [size |-> u.size, prompt |-> u.prompt, buf |-> u.buf, y |-> y, x |-> x + 1, done |-> u.done,
           stuck |-> u.stuck, want |-> s]
  BY <1>1, <1>8 DEF OnScreen
<1>10. r.y = y /\ r.x = x + 1 /\ r.want = s
  BY <1>9
<1>11. OnScreen(r) /\ SameCall(r, u)
  <2>1. s = [k \in Cells |-> s[k]]
    BY <1>7
  <2>2. x + 1 \in 0 .. Cols
    BY <1>2, <1>3
  <2> QED
    BY <1>1, <1>2, <1>9, <2>1, <2>2 DEF OnScreen, SameCall
<1>12. At(r) = p + 1
  <2>1. At(r) = R + (x + 1)
    BY <1>1, <1>10 DEF At
  <2> QED
    BY <1>2, <1>3, <1>4, <2>1
<1> QED
  BY <1>1, <1>5, <1>7, <1>10, <1>11, <1>12

LEMMA PutShows ==
  ASSUME NEW u, OnScreen(u), u.x < Cols, NEW c, NEW r, r = Put(u, c),
         NEW text, IsSeq(text), ShowsUpTo(u, text, At(u))
  PROVE  ShowsUpTo(r, Append(text, c), At(r))
<1>1. PICK p, n, more, N : p = At(u) /\ n = Len(text) /\ more = Append(text, c) /\ N = Rows * Cols
  OBVIOUS
<1>2. n \in Nat /\ Len(more) = n + 1 /\ \A k \in 1 .. n + 1 : more[k] = IF k = n + 1 THEN c ELSE text[k]
  BY <1>1, AppendAt DEF IsSeq
<1>3. /\ r.y = u.y /\ p \in Cells /\ At(r) = p + 1
      /\ \A k \in Cells : r.want[k] = IF k = p THEN c ELSE u.want[k]
  BY <1>1, PutIs
<1>4. Cells = 0 .. N - 1 /\ N \in Nat
  BY <1>1, ScreenSize DEF Cells
<1>5. /\ \A k \in 1 .. n : p >= k => u.want[p - k] = text[n + 1 - k]
      /\ \A k \in Cells : k >= p => u.want[k] = Space
      /\ n > p => u.y = Rows - 1
  BY <1>1 DEF ShowsUpTo
<1>a. PICK e, z : e = At(r) /\ z = Len(more)
  OBVIOUS
<1>b. e = p + 1 /\ z = n + 1
  BY <1>2, <1>3, <1>a
<1>6. ASSUME NEW k \in 1 .. z, e >= k PROVE r.want[e - k] = more[z + 1 - k]
  <2>1. CASE k = 1
    <3>1. e - k = p /\ z + 1 - k = n + 1 /\ n + 1 \in 1 .. n + 1
      BY <1>2, <1>3, <1>4, <1>b, <2>1
    <3> QED
      BY <1>2, <1>3, <3>1
  <2>2. CASE k # 1
    <3>1. PICK j : j = k - 1
      OBVIOUS
    <3>2. /\ j \in 1 .. n /\ p >= j /\ e - k = p - j /\ z + 1 - k = n + 1 - j
          /\ p - j \in Cells /\ p - j # p /\ n + 1 - j \in 1 .. n + 1 /\ n + 1 - j # n + 1
      BY <1>2, <1>3, <1>4, <1>6, <1>b, <2>2, <3>1
    <3>3. r.want[p - j] = u.want[p - j] /\ more[n + 1 - j] = text[n + 1 - j]
      BY <1>2, <1>3, <3>2
    <3> QED
      BY <1>5, <3>2, <3>3
  <2> QED
    BY <2>1, <2>2
<1>7. ASSUME NEW k \in Cells, k >= e PROVE r.want[k] = Space
  <2>1. k # p /\ k >= p
    BY <1>3, <1>4, <1>7, <1>b
  <2> QED
    BY <1>3, <1>5, <2>1
<1>8. ASSUME z > e PROVE r.y = Rows - 1
  <2>1. n > p
    BY <1>2, <1>3, <1>4, <1>8, <1>b
  <2> QED
    BY <1>3, <1>5, <2>1
<1>9. ShowsUpTo(r, more, e)
  BY <1>6, <1>7, <1>8, <1>a DEF ShowsUpTo
<1> QED
  BY <1>1, <1>9, <1>a

(* What is written shows, on the row below when the row is full.           *)
LEMMA WrittenShows ==
  ASSUME NEW l, OnScreen(l), NEW c \in Nat, c >= Space, NEW r, r = Teletype(l, c)
  PROVE  /\ OnScreen(r) /\ SameCall(r, l)
         /\ \A text : IsSeq(text) /\ ShowsUpTo(l, text, At(l)) => ShowsUpTo(r, Append(text, c), At(r))
<1>1. PICK u : u = IF l.x >= Cols THEN NextRow(l) ELSE l
  OBVIOUS
<1>2. r = Put(u, c)
  <2>1. c # Newline /\ c # CarriageReturn /\ c # Backspace /\ c >= Space
    BY DEF Newline, CarriageReturn, Backspace, Space
  <2>2. r = LET v == IF l.x >= Cols THEN NextRow(l) ELSE l IN [v EXCEPT !.want[At(v)] = c, !.x = @ + 1]
    BY <2>1, Zenon DEF Teletype
  <2> QED
    BY <1>1, <2>2, Zenon DEF Put
<1>3. /\ OnScreen(u) /\ SameCall(u, l) /\ u.x < Cols
      /\ \A text : IsSeq(text) /\ ShowsUpTo(l, text, At(l)) => ShowsUpTo(u, text, At(u))
  <2>1. CASE l.x < Cols
    <3>1. u = l
      BY <1>1, <2>1, ScreenSize DEF OnScreen
    <3> QED
      BY <2>1, <3>1 DEF SameCall
  <2>2. CASE ~(l.x < Cols)
    <3>1. l.x = Cols /\ u = NextRow(l) /\ Cols > 0
      BY <1>1, <2>2, ScreenSize DEF OnScreen
    <3>2. PICK d : Scrolls(u, l, d)
      BY <3>1, NextRowIs
    <3>3. OnScreen(u) /\ SameCall(u, l) /\ u.x < Cols
      BY <3>1, <3>2, ScreenSize DEF Scrolls
    <3>4. PICK R : R = l.y * Cols
      OBVIOUS
    <3>5. R \in Nat
      BY <3>4, RowCells DEF OnScreen
    <3>6. At(l) = R + Cols /\ At(u) + d = R + Cols
      BY <3>1, <3>2, <3>4 DEF At, Scrolls
    <3>7. At(u) \in Int
      <4>1. u.y \in Int /\ u.x \in Int /\ Cols \in Int
        BY <3>3, ScreenSize DEF OnScreen
      <4> QED
        BY <4>1 DEF At
    <3>8. At(l) \in Int /\ At(u) = At(l) - d /\ At(l) <= l.y * Cols + Cols
      <4>1. d \in Nat /\ Cols \in Nat
        BY <3>2, ScreenSize DEF Scrolls
      <4> QED
        BY <3>4, <3>5, <3>6, <3>7, <4>1
    <3>9. ASSUME NEW text, IsSeq(text), ShowsUpTo(l, text, At(l)) PROVE ShowsUpTo(u, text, At(u))
      <4>1. ShowsUpTo(u, text, At(l) - d)
        BY <3>2, <3>8, <3>9, ScrollShows
      <4> QED
        BY <3>8, <4>1
    <3> QED
      BY <3>3, <3>9
  <2> QED
    BY <2>1, <2>2
<1>4. OnScreen(r) /\ SameCall(r, u)
  BY <1>2, <1>3, PutIs
<1>5. ASSUME NEW text, IsSeq(text), ShowsUpTo(l, text, At(l)) PROVE ShowsUpTo(r, Append(text, c), At(r))
  BY <1>2, <1>3, <1>5, PutShows
<1>6. SameCall(r, l)
  BY <1>3, <1>4 DEF SameCall
<1> QED
  BY <1>4, <1>5, <1>6

LEMMA GoesBack ==
  ASSUME NEW l, OnScreen(l), NEW r, r = Teletype(l, Backspace)
  PROVE  /\ OnScreen(r) /\ SameCall(r, l) /\ r.y = l.y /\ r.want = l.want
         /\ r.x = IF l.x > 0 THEN l.x - 1 ELSE 0
<1>1. PICK x : x = IF l.x > 0 THEN l.x - 1 ELSE 0
  OBVIOUS
<1>2. r = [l EXCEPT !.x = x]
  <2>1. Backspace # Newline /\ Backspace # CarriageReturn /\ ~(Backspace >= Space)
    BY DEF Backspace, CarriageReturn, Newline, Space
  <2>2. Teletype(l, Backspace) = [l EXCEPT !.x = IF l.x > 0 THEN l.x - 1 ELSE 0]
    BY <2>1, Zenon DEF Teletype
  <2> QED
    BY <1>1, <2>2
<1>3. r = [size |-> l.size, prompt |-> l.prompt, buf |-> l.buf, y |-> l.y, x |-> x, done |-> l.done,
           stuck |-> l.stuck, want |-> l.want]
  BY <1>2 DEF OnScreen
<1>4. x \in 0 .. Cols
  BY <1>1, ScreenSize DEF OnScreen
<1> QED
  BY <1>1, <1>3, <1>4 DEF OnScreen, SameCall

(* Rubbing out takes the last character off the row, behind column 0.      *)
LEMMA RubbedShows ==
  ASSUME NEW l, OnScreen(l), NEW r, r = Rub(l)
  PROVE  /\ OnScreen(r) /\ SameCall(r, l)
         /\ l.x > 0 => \A text, c : IsSeq(text) /\ ShowsUpTo(l, Append(text, c), At(l)) => ShowsUpTo(r, text, At(r))
<1>1. PICK b, s : b = Teletype(l, Backspace) /\ s = Teletype(b, Space)
  OBVIOUS
<1>2. r = Teletype(s, Backspace)
  BY <1>1 DEF Rub
<1>3. /\ OnScreen(b) /\ SameCall(b, l) /\ b.y = l.y /\ b.want = l.want
      /\ b.x = IF l.x > 0 THEN l.x - 1 ELSE 0
  BY <1>1, GoesBack
<1>4. b.x < Cols
  BY <1>3, ScreenSize DEF OnScreen
<1>5. s = Put(b, Space)
  <2>1. Space # Newline /\ Space # CarriageReturn /\ Space # Backspace /\ Space >= Space /\ ~(b.x >= Cols)
    BY <1>3, <1>4, ScreenSize DEF Newline, CarriageReturn, Backspace, Space, OnScreen
  <2>2. s = LET v == IF b.x >= Cols THEN NextRow(b) ELSE b IN [v EXCEPT !.want[At(v)] = Space, !.x = @ + 1]
    BY <1>1, <2>1, Zenon DEF Teletype
  <2> QED
    BY <2>1, <2>2, Zenon DEF Put
<1>6. /\ OnScreen(s) /\ SameCall(s, b) /\ s.y = b.y /\ s.x = b.x + 1
      /\ At(b) \in Cells
      /\ \A k \in Cells : s.want[k] = IF k = At(b) THEN Space ELSE b.want[k]
  BY <1>3, <1>4, <1>5, PutIs
<1>7. /\ OnScreen(r) /\ SameCall(r, s) /\ r.y = s.y /\ r.want = s.want
      /\ r.x = IF s.x > 0 THEN s.x - 1 ELSE 0
  BY <1>2, <1>6, GoesBack
<1>8. SameCall(r, l)
  BY <1>3, <1>6, <1>7 DEF SameCall
<1>9. ASSUME l.x > 0, NEW text, NEW c, IsSeq(text), ShowsUpTo(l, Append(text, c), At(l)) PROVE ShowsUpTo(r, text, At(r))
  <2>1. PICK q, n, more, R, N : q = At(b) /\ n = Len(text) /\ more = Append(text, c) /\ R = l.y * Cols /\ N = Rows * Cols
    OBVIOUS
  <2>2. n \in Nat /\ Len(more) = n + 1 /\ \A k \in 1 .. n + 1 : more[k] = IF k = n + 1 THEN c ELSE text[k]
    BY <1>9, <2>1, AppendAt DEF IsSeq
  <2>3. l.x \in Nat /\ R \in Nat /\ N \in Nat /\ Cells = 0 .. N - 1
    BY <2>1, RowCells DEF OnScreen, Cells
  <2>4. q = R + (l.x - 1) /\ At(l) = R + l.x /\ r.x = l.x - 1
    <3>1. b.x = l.x - 1 /\ r.x = b.x
      BY <1>3, <1>6, <1>7, <1>9, <2>3
    <3> QED
      BY <1>3, <2>1, <3>1 DEF At
  <2>5. At(r) = q
    BY <1>3, <1>6, <1>7, <2>1, <2>4 DEF At
  <2>6. At(l) = q + 1 /\ q \in Cells
    BY <1>6, <2>1, <2>3, <2>4
  <2>a. PICK e, z : e = At(l) /\ z = Len(more)
    OBVIOUS
  <2>b. e = q + 1 /\ z = n + 1
    BY <2>2, <2>6, <2>a
  <2>7. /\ \A k \in 1 .. z : e >= k => l.want[e - k] = more[z + 1 - k]
        /\ \A k \in Cells : k >= e => l.want[k] = Space
        /\ z > e => l.y = Rows - 1
    BY <1>9, <2>1, <2>a DEF ShowsUpTo
  <2>8. \A k \in Cells : r.want[k] = IF k = q THEN Space ELSE l.want[k]
    BY <1>3, <1>6, <1>7, <2>1
  <2>9. ASSUME NEW k \in 1 .. n, q >= k PROVE r.want[q - k] = text[n + 1 - k]
    <3>1. PICK j : j = k + 1
      OBVIOUS
    <3>2. /\ j \in 1 .. z /\ e >= j /\ e - j = q - k /\ z + 1 - j = n + 1 - k
          /\ q - k \in Cells /\ q - k # q /\ n + 1 - k \in 1 .. n + 1 /\ n + 1 - k # n + 1
      BY <2>2, <2>3, <2>6, <2>9, <2>b, <3>1
    <3>3. r.want[q - k] = l.want[q - k] /\ more[n + 1 - k] = text[n + 1 - k]
      BY <2>2, <2>8, <3>2
    <3> QED
      BY <2>7, <3>2, <3>3
  <2>10. ASSUME NEW k \in Cells, k >= q PROVE r.want[k] = Space
    <3>1. CASE k = q
      BY <2>8, <3>1
    <3>2. CASE k # q
      <4>1. k >= e
        BY <2>3, <2>6, <2>10, <2>b, <3>2
      <4> QED
        BY <2>7, <2>8, <3>2, <4>1
    <3> QED
      BY <3>1, <3>2
  <2>11. ASSUME n > q PROVE r.y = Rows - 1
    <3>1. z > e
      BY <2>2, <2>3, <2>6, <2>11, <2>b
    <3> QED
      BY <1>3, <1>6, <1>7, <2>7, <3>1
  <2> QED
    BY <2>1, <2>5, <2>9, <2>10, <2>11 DEF ShowsUpTo
<1> QED
  BY <1>7, <1>8, <1>9

(* What Append leaves.                                                     *)
WithLast(f, s, x) ==
  /\ IsSeq(f) /\ Len(f) = Len(s) + 1
  /\ \A j \in 1 .. Len(s) + 1 : f[j] = IF j = Len(s) + 1 THEN x ELSE s[j]

LEMMA AppendIs ==
  ASSUME NEW s, IsSeq(s), NEW x, NEW f, f = Append(s, x)
  PROVE  WithLast(f, s, x)
<1>1. PICK T : T = {s[j] : j \in 1 .. Len(s)} \cup {x}
  OBVIOUS
<1>2. s \in Seq(T) /\ x \in T
  BY <1>1, SeqIn
<1>3. f \in Seq(T) /\ Len(f) = Len(s) + 1 /\ (\A j \in 1 .. Len(s) : f[j] = s[j]) /\ f[Len(s) + 1] = x
  BY <1>2, AppendProperties
<1>4. IsSeq(f)
  BY <1>3, InSeq
<1> QED
  BY <1>3, <1>4 DEF IsSeq, WithLast

(* What is left of a sequence that is cut.                                 *)
CutTo(f, s, n) == IsSeq(f) /\ Len(f) = n /\ \A k \in 1 .. n : f[k] = s[k]

LEMMA CutIs ==
  ASSUME NEW s, IsSeq(s), NEW n \in Nat, n <= Len(s), NEW f, f = SubSeq(s, 1, n)
  PROVE  CutTo(f, s, n)
<1>1. 1 \in 1 .. Len(s) + 1 /\ n \in 1 - 1 .. Len(s)
  BY DEF IsSeq
<1>2. PICK a : a = 1
  OBVIOUS
<1>3. a \in 1 .. Len(s) + 1 /\ n \in a - 1 .. Len(s) /\ f = SubSeq(s, a, n)
  BY <1>1, <1>2
<1>4. IsSeq(f) /\ Len(f) = n - a + 1 /\ \A k \in 1 .. n - a + 1 : f[k] = s[a + k - 1]
  BY <1>3, SubSeqAt
<1>5. n - a + 1 = n /\ \A k \in 1 .. n : a + k - 1 = k
  BY <1>2
<1> QED
  BY <1>4, <1>5 DEF CutTo

(* What was typed, before the newline and behind it.                       *)
Plain(s) == \A k \in 1 .. Len(s) : s[k] # Newline

LEMMA TypedPlain ==
  ASSUME NEW s, IsSeq(s), Plain(s)
  PROVE  TypedIn(s) = s
<1>1. PICK n : n = Len(s)
  OBVIOUS
<1>2. n \in Nat /\ s = [j \in 1 .. n |-> s[j]]
  BY <1>1 DEF IsSeq
<1>3. CASE n = 0
  <2>1. s = <<>>
    BY <1>2, <1>3
  <2> QED
    BY <2>1 DEF TypedIn
<1>4. CASE n # 0
  <2>1. s[n] # Newline
    BY <1>1, <1>2, <1>4 DEF Plain
  <2> QED
    BY <1>1, <2>1 DEF TypedIn
<1> QED
  BY <1>3, <1>4

LEMMA TypedNewline ==
  ASSUME NEW s, IsSeq(s), NEW t, t = Append(s, Newline)
  PROVE  TypedIn(t) = s
<1>1. PICK n : n = Len(s)
  OBVIOUS
<1>2. n \in Nat
  BY <1>1 DEF IsSeq
<1>3. IsSeq(t) /\ Len(t) = n + 1 /\ \A k \in 1 .. n + 1 : t[k] = IF k = n + 1 THEN Newline ELSE s[k]
  <2>1. WithLast(t, s, Newline)
    BY AppendIs, Zenon
  <2> QED
    BY <1>1, <2>1 DEF WithLast
<1>4. t # <<>> /\ t[n + 1] = Newline
  <2>1. Len(<<>>) = 0
    OBVIOUS
  <2> QED
    BY <1>2, <1>3, <2>1
<1>5. PICK f : f = SubSeq(t, 1, n)
  OBVIOUS
<1>6. TypedIn(t) = f
  BY <1>2, <1>3, <1>4, <1>5 DEF TypedIn
<1>7. IsSeq(f) /\ Len(f) = n /\ \A k \in 1 .. n : f[k] = s[k]
  <2>1. n <= Len(t)
    BY <1>2, <1>3
  <2>2. CutTo(f, t, n)
    BY <1>2, <1>3, <1>5, <2>1, CutIs, Zenon
  <2> QED
    BY <1>2, <1>3, <2>2 DEF CutTo
<1>8. f = s
  BY <1>1, <1>7, SameSeq
<1> QED
  BY <1>6, <1>8

LEMMA AppendBehind ==
  ASSUME NEW p, IsSeq(p), NEW s, IsSeq(s), NEW c, NEW f, f = Append(s, c)
  PROVE  IsSeq(p \o s) /\ p \o f = Append(p \o s, c)
<1>1. PICK l, m : l = Len(p) /\ m = Len(s)
  OBVIOUS
<1>2. l \in Nat /\ m \in Nat
  BY <1>1 DEF IsSeq
<1>3. PICK g, h, t : t = p \o s /\ g = p \o f /\ h = Append(t, c)
  OBVIOUS
<1>4. IsSeq(f) /\ Len(f) = m + 1 /\ \A k \in 1 .. m + 1 : f[k] = IF k = m + 1 THEN c ELSE s[k]
  <2>1. WithLast(f, s, c)
    BY AppendIs, Zenon
  <2> QED
    BY <1>1, <2>1 DEF WithLast
<1>5. IsSeq(t) /\ Len(t) = l + m /\ \A k \in 1 .. l + m : t[k] = IF k <= l THEN p[k] ELSE s[k - l]
  BY <1>1, <1>3, ConcatAt
<1>6. /\ IsSeq(g) /\ Len(g) = l + (m + 1)
      /\ \A k \in 1 .. l + (m + 1) : g[k] = IF k <= l THEN p[k] ELSE f[k - l]
  <2>0. IsSeq(f) /\ g = p \o f
    BY <1>3, <1>4
  <2>1. /\ IsSeq(g) /\ Len(g) = Len(p) + Len(f)
        /\ \A k \in 1 .. Len(p) + Len(f) : g[k] = IF k <= Len(p) THEN p[k] ELSE f[k - Len(p)]
    BY <2>0, ConcatAt
  <2> QED
    BY <1>1, <1>4, <2>1
<1>7. /\ IsSeq(h) /\ Len(h) = l + m + 1
      /\ \A k \in 1 .. l + m + 1 : h[k] = IF k = l + m + 1 THEN c ELSE t[k]
  <2>1. WithLast(h, t, c)
    BY <1>3, <1>5, AppendIs, Zenon
  <2> QED
    BY <1>5, <2>1 DEF WithLast
<1>8. Len(g) = Len(h)
  BY <1>2, <1>6, <1>7
<1>9. ASSUME NEW k \in 1 .. Len(g) PROVE g[k] = h[k]
  <2>0. k \in Nat /\ k >= 1 /\ k <= l + m + 1
    BY <1>2, <1>6
  <2>1. CASE k <= l
    BY <1>2, <1>5, <1>6, <1>7, <2>0, <2>1
  <2>2. CASE k > l /\ k <= l + m
    <3>1. g[k] = f[k - l] /\ h[k] = t[k] /\ t[k] = s[k - l]
      <4>1. ~(k <= l) /\ ~(k = l + m + 1) /\ k \in 1 .. l + (m + 1) /\ k \in 1 .. l + m + 1 /\ k \in 1 .. l + m
        BY <1>2, <2>0, <2>2
      <4> QED
        BY <1>5, <1>6, <1>7, <4>1
    <3>2. f[k - l] = s[k - l]
      BY <1>2, <1>4, <2>0, <2>2
    <3> QED
      BY <3>1, <3>2
  <2>3. CASE k = l + m + 1
    <3>1. k - l = m + 1 /\ ~(k <= l) /\ k \in 1 .. l + m + 1 /\ k \in 1 .. l + (m + 1) /\ m + 1 \in 1 .. m + 1
      BY <1>2, <2>3
    <3>2. g[k] = f[m + 1]
      BY <1>6, <3>1
    <3>3. f[m + 1] = c
      BY <1>4, <3>1
    <3>4. h[k] = c
      BY <1>7, <2>3, <3>1
    <3> QED
      BY <3>2, <3>3, <3>4
  <2> QED
    BY <1>2, <2>0, <2>1, <2>2, <2>3
<1>10. g = h
  BY <1>6, <1>7, <1>8, <1>9, SameSeq
<1> QED
  BY <1>3, <1>5, <1>10

(* The invariant: the line is open while nothing in it is a newline and    *)
(* there is room, and the screen shows what was typed.                     *)
InOrder(l) ==
  /\ OnScreen(l)
  /\ ~l.stuck => \E e \in Ends(l) : ShowsUpTo(l, l.prompt \o TypedIn(l.buf), e)
  /\ Len(l.buf) <= (IF l.size > 1 THEN l.size - 1 ELSE 0)
  /\ ~l.done => Plain(l.buf) /\ Len(l.buf) < l.size - 1
LineInv == InOrder(line)

LEMMA LineInvShown == LineInv => LineAsShown
BY DEF LineInv, InOrder, LineAsShown

LEMMA LineInitInv == LibcInit => LineInv
<1> SUFFICES ASSUME LibcInit PROVE LineInv
  OBVIOUS
<1>1. PICK n \in Sizes, prompt \in Prompts, y \in 0 .. Rows - 1 : line = NewLine(n, prompt, y)
  BY DEF LibcInit
<1>2. n \in Int /\ prompt \in Seq(Nat) /\ Len(prompt) <= Cols
  BY LineBounds
<1>3. IsSeq(prompt)
  BY <1>2, InSeq
<1>4. PICK l, R, N, len : l = Len(prompt) /\ R = y * Cols /\ N = Rows * Cols /\ len = Len(prompt)
  OBVIOUS
<1>5. R \in Nat /\ N \in Nat /\ R + Cols <= N /\ Cols \in Nat /\ Cells = 0 .. N - 1 /\ len \in 0 .. Cols
  BY <1>2, <1>4, RowCells DEF Cells
<1>6. PICK w : w = [k \in Cells |-> IF k - R \in 0 .. len - 1 THEN prompt[k - R + 1] ELSE Space]
  OBVIOUS
<1>7. line = [size |-> n, prompt |-> prompt, buf |-> <<>>, y |-> y, x |-> len, done |-> n <= 1,
              stuck |-> FALSE, want |-> w]
  BY <1>1, <1>4, <1>6 DEF NewLine
<1>8. /\ line.size = n /\ line.prompt = prompt /\ line.buf = <<>> /\ line.y = y /\ line.x = len
      /\ line.done = (n <= 1) /\ line.stuck = FALSE /\ line.want = w
  BY <1>7
<1>9. IsSeq(<<>>) /\ Len(<<>>) = 0 /\ TypedIn(<<>>) = <<>> /\ Plain(<<>>)
  <2>1. <<>> \in Seq(Nat) /\ Len(<<>>) = 0
    OBVIOUS
  <2>2. IsSeq(<<>>)
    BY <2>1, InSeq, Zenon
  <2>3. TypedIn(<<>>) = <<>>
    BY Zenon DEF TypedIn
  <2>4. Plain(<<>>)
    BY <2>1 DEF Plain
  <2> QED
    BY <2>1, <2>2, <2>3, <2>4
<1>10. prompt \o <<>> = prompt
  BY <1>2
<1>11. OnScreen(line)
  <2>1. w = [k \in Cells |-> w[k]]
    BY <1>6
  <2>2. (n <= 1) \in BOOLEAN /\ FALSE \in BOOLEAN
    BY <1>2
  <2> QED
    BY <1>2, <1>3, <1>5, <1>7, <1>8, <1>9, <2>1, <2>2 DEF OnScreen
<1>12. At(line) = R + len
  BY <1>4, <1>8 DEF At
<1>13. ShowsUpTo(line, prompt, R + len)
  <2>0. PICK e : e = R + len
    OBVIOUS
  <2>1. ASSUME NEW k \in 1 .. len, e >= k PROVE w[e - k] = prompt[len + 1 - k]
    <3>1. PICK j : j = e - k
      OBVIOUS
    <3>2. j \in Cells /\ j - R \in 0 .. len - 1 /\ j - R + 1 = len + 1 - k
      BY <1>5, <2>0, <2>1, <3>1
    <3> QED
      BY <1>6, <3>1, <3>2
  <2>2. ASSUME NEW k \in Cells, k >= e PROVE w[k] = Space
    <3>1. ~(k - R \in 0 .. len - 1)
      BY <1>5, <2>0, <2>2
    <3> QED
      BY <1>6, <3>1
  <2>3. ~(len > e)
    BY <1>5, <2>0
  <2>4. Len(prompt) = len /\ line.want = w
    BY <1>4, <1>8
  <2>5. ShowsUpTo(line, prompt, e)
    BY <2>1, <2>2, <2>3, <2>4 DEF ShowsUpTo
  <2> QED
    BY <2>0, <2>5
<1>14. R + len \in Ends(line)
  BY <1>8, <1>9, <1>12 DEF Ends
<1>15. Len(line.buf) = 0 /\ (~line.done => 0 < n - 1) /\ 0 <= (IF n > 1 THEN n - 1 ELSE 0)
  <2>1. Len(line.buf) = 0
    BY <1>8, <1>9
  <2>2. line.done <=> n <= 1
    BY <1>8
  <2> QED
    BY <1>2, <2>1, <2>2
<1>16. \E e \in Ends(line) : ShowsUpTo(line, line.prompt \o TypedIn(line.buf), e)
  BY <1>8, <1>9, <1>10, <1>13, <1>14
<1> QED
  BY <1>8, <1>9, <1>11, <1>15, <1>16 DEF LineInv, InOrder

(* A key keeps it.                                                         *)
Rubbed(l) == [Rub(l) EXCEPT !.buf = SubSeq(@, 1, Len(@) - 1), !.stuck = @ \/ l.x = 0]

(* An open line ends at the cursor.                                        *)
LEMMA OpenEnds ==
  ASSUME NEW l, IsSeq(l.buf), Plain(l.buf)
  PROVE  TypedIn(l.buf) = l.buf /\ Ends(l) = {At(l)}
<1>1. TypedIn(l.buf) = l.buf
  BY TypedPlain
<1> QED
  BY <1>1 DEF Ends

LEMMA RubKeeps ==
  ASSUME NEW l, InOrder(l), ~l.done, l.buf # <<>>, NEW m, m = Rubbed(l)
  PROVE  InOrder(m)
<1>1. PICK b, p, n, r : b = l.buf /\ p = l.prompt /\ n = Len(b) /\ r = Rub(l)
  OBVIOUS
<1>2. OnScreen(l) /\ IsSeq(b) /\ IsSeq(p) /\ n \in Nat /\ Plain(b) /\ n < l.size - 1 /\ l.size \in Int
  BY <1>1 DEF InOrder, OnScreen, IsSeq
<1>3. n > 0
  <2>1. CASE n = 0
    <3>1. b = [j \in 1 .. 0 |-> b[j]]
      BY <1>1, <1>2, <2>1 DEF IsSeq
    <3>2. b = <<>>
      BY <3>1
    <3> QED
      BY <1>1, <3>2
  <2> QED
    BY <1>2, <2>1
<1>4. PICK f, c : f = SubSeq(b, 1, n - 1) /\ c = b[n]
  OBVIOUS
<1>5. IsSeq(f) /\ Len(f) = n - 1 /\ \A k \in 1 .. n - 1 : f[k] = b[k]
  <2>1. PICK z : z = n - 1
    OBVIOUS
  <2>2. z <= Len(b) /\ z \in Nat
    BY <1>1, <1>2, <1>3, <2>1
  <2>3. CutTo(f, b, z)
    BY <1>2, <1>4, <2>1, <2>2, CutIs, Zenon
  <2> QED
    BY <2>1, <2>3 DEF CutTo
<1>6. b = Append(f, c)
  <2>1. PICK g : g = Append(f, c)
    OBVIOUS
  <2>2. IsSeq(g) /\ Len(g) = n - 1 + 1 /\ \A k \in 1 .. n - 1 + 1 : g[k] = IF k = n - 1 + 1 THEN c ELSE f[k]
    <3>1. WithLast(g, f, c)
      BY <1>5, <2>1, AppendIs, Zenon
    <3> QED
      BY <1>5, <3>1 DEF WithLast
  <2>3. Len(g) = Len(b) /\ \A k \in 1 .. Len(g) : g[k] = b[k]
    BY <1>1, <1>2, <1>3, <1>4, <1>5, <2>2
  <2>4. g = b
    BY <1>2, <2>2, <2>3, SameSeq
  <2> QED
    BY <2>1, <2>4
<1>7. PICK text : text = p \o f
  OBVIOUS
<1>8. IsSeq(text) /\ p \o b = Append(text, c)
  <2>1. IsSeq(p) /\ IsSeq(f) /\ b = Append(f, c)
    BY <1>2, <1>5, <1>6
  <2>2. IsSeq(p \o f) /\ p \o b = Append(p \o f, c)
    BY <2>1, AppendBehind
  <2> QED
    BY <1>7, <2>2, Zenon
<1>9. ~l.stuck => ShowsUpTo(l, Append(text, c), At(l))
  <2>1. TypedIn(b) = b /\ Ends(l) = {At(l)}
    BY <1>1, <1>2, OpenEnds
  <2>2. ~l.stuck => \E e \in Ends(l) : ShowsUpTo(l, p \o TypedIn(b), e)
    BY <1>1 DEF InOrder
  <2> QED
    BY <1>8, <2>1, <2>2
<1>10. /\ OnScreen(r) /\ SameCall(r, l)
       /\ l.x > 0 => \A t, x : IsSeq(t) /\ ShowsUpTo(l, Append(t, x), At(l)) => ShowsUpTo(r, t, At(r))
  BY <1>1, <1>2, RubbedShows
<1>11. PICK k : k = (l.stuck \/ l.x = 0)
  OBVIOUS
<1>12. m = [size |-> l.size, prompt |-> p, buf |-> f, y |-> r.y, x |-> r.x, done |-> l.done, stuck |-> k, want |-> r.want]
  <2>1. r = [size |-> l.size, prompt |-> p, buf |-> b, y |-> r.y, x |-> r.x, done |-> l.done,
             stuck |-> l.stuck, want |-> r.want]
    BY <1>1, <1>10 DEF OnScreen, SameCall
  <2>2. m = [r EXCEPT !.buf = SubSeq(r.buf, 1, Len(r.buf) - 1), !.stuck = r.stuck \/ l.x = 0]
    BY <1>1, Zenon DEF Rubbed
  <2>3. r.buf = b /\ r.stuck = l.stuck
    BY <1>1, <1>10 DEF SameCall
  <2>4. m = [r EXCEPT !.buf = f, !.stuck = k]
    BY <1>1, <1>4, <1>11, <2>2, <2>3
  <2>5. PICK t : t = [r EXCEPT !.buf = f]
    OBVIOUS
  <2>6. t = [size |-> l.size, prompt |-> p, buf |-> f, y |-> r.y, x |-> r.x, done |-> l.done,
             stuck |-> l.stuck, want |-> r.want]
    BY <2>1, <2>5
  <2>7. m = [t EXCEPT !.stuck = k]
    BY <2>4, <2>5
  <2> QED
    BY <2>6, <2>7
<1>13. /\ m.size = l.size /\ m.prompt = p /\ m.buf = f /\ m.y = r.y /\ m.x = r.x /\ m.done = l.done
       /\ m.stuck = k /\ m.want = r.want
  BY <1>12
<1>14. Plain(f)
  BY <1>1, <1>2, <1>5 DEF Plain
<1>15. OnScreen(m)
  <2>1. k \in BOOLEAN
    BY <1>11
  <2> QED
    BY <1>2, <1>5, <1>10, <1>12, <1>13, <2>1 DEF OnScreen
<1>16. Len(f) <= (IF l.size > 1 THEN l.size - 1 ELSE 0) /\ Len(f) < l.size - 1
  BY <1>2, <1>5
<1>17. ASSUME ~m.stuck PROVE \E e \in Ends(m) : ShowsUpTo(m, m.prompt \o TypedIn(m.buf), e)
  <2>1. ~l.stuck /\ l.x > 0
    <3>1. ~(l.stuck \/ l.x = 0)
      BY <1>11, <1>13, <1>17
    <3>2. l.x \in 0 .. Cols /\ Cols \in Nat
      BY <1>2, ScreenSize DEF OnScreen
    <3> QED
      BY <3>1, <3>2
  <2>2. ShowsUpTo(r, text, At(r))
    BY <1>8, <1>9, <1>10, <2>1
  <2>3. At(m) = At(r)
    BY <1>13 DEF At
  <2>4. ShowsUpTo(m, text, At(m))
    BY <1>13, <2>2, <2>3 DEF ShowsUpTo
  <2>5. TypedIn(m.buf) = m.buf /\ Ends(m) = {At(m)}
    BY <1>5, <1>13, <1>14, OpenEnds
  <2> QED
    BY <1>7, <1>13, <2>4, <2>5
<1> QED
  BY <1>13, <1>14, <1>15, <1>16, <1>17 DEF InOrder

Typed(l, c) == [Teletype(l, c) EXCEPT !.buf = Append(@, c)]
TypedLast(l, c) == [Typed(l, c) EXCEPT !.done = c = Newline \/ Len(Typed(l, c).buf) >= l.size - 1]

(* What is typed shows, and a newline leaves it on the row above.          *)
LEMMA TypedShows ==
  ASSUME NEW l, OnScreen(l), NEW text, IsSeq(text), NEW c \in Nat, c >= Space \/ c = Newline, NEW r, r = Teletype(l, c)
  PROVE  /\ OnScreen(r) /\ SameCall(r, l)
         /\ ShowsUpTo(l, text, At(l)) =>
              IF c = Newline THEN \E e \in At(r) - Cols .. At(r) : ShowsUpTo(r, text, e)
              ELSE ShowsUpTo(r, Append(text, c), At(r))
<1>1. CASE c = Newline
  <2>1. r = NextRow(l)
    <3>0. Newline # Backspace /\ Newline # CarriageReturn /\ ~(Newline >= Space)
      BY DEF Backspace, CarriageReturn, Newline, Space
    <3>1. Teletype(l, Newline) = NextRow(l)
      BY <3>0, Zenon DEF Teletype
    <3> QED
      BY <1>1, <3>1
  <2>2. PICK d : Scrolls(r, l, d)
    BY <2>1, NextRowIs
  <2>3. OnScreen(r) /\ SameCall(r, l)
    BY <2>2 DEF Scrolls
  <2>4. ASSUME ShowsUpTo(l, text, At(l)) PROVE \E e \in At(r) - Cols .. At(r) : ShowsUpTo(r, text, e)
    <3>1. PICK R, x, p, q : R = l.y * Cols /\ x = l.x /\ p = At(l) /\ q = At(r)
      OBVIOUS
    <3>2. R \in Nat /\ Cols \in Nat /\ x \in 0 .. Cols
      BY <3>1, RowCells DEF OnScreen
    <3>3. p = R + x
      BY <3>1 DEF At
    <3>4. q + d = R + Cols /\ d \in Nat
      BY <2>2, <3>1 DEF Scrolls
    <3>5. q \in Int
      <4>1. r.y \in Int /\ r.x \in Int /\ Cols \in Int
        BY <2>3, ScreenSize DEF OnScreen
      <4> QED
        BY <3>1, <4>1 DEF At
    <3>6. p \in Int /\ p <= R + Cols /\ p - d \in q - Cols .. q
      BY <3>2, <3>3, <3>4, <3>5
    <3>7. ShowsUpTo(r, text, p - d)
      BY <2>2, <2>4, <3>1, <3>6, ScrollShows
    <3> QED
      BY <3>1, <3>6, <3>7
  <2> QED
    BY <1>1, <2>3, <2>4
<1>2. CASE c # Newline
  <2>1. c >= Space
    BY <1>2
  <2> QED
    BY <1>2, <2>1, WrittenShows
<1> QED
  BY <1>1, <1>2

LEMMA TypeKeeps ==
  ASSUME NEW l, InOrder(l), ~l.done, NEW c \in Nat, c >= Space \/ c = Newline, NEW m, m = TypedLast(l, c)
  PROVE  InOrder(m)
<1>1. PICK b, p, n, r, a : b = l.buf /\ p = l.prompt /\ n = Len(b) /\ r = Teletype(l, c) /\ a = Append(b, c)
  OBVIOUS
<1>2. OnScreen(l) /\ IsSeq(b) /\ IsSeq(p) /\ n \in Nat /\ Plain(b) /\ n < l.size - 1 /\ l.size \in Int
  BY <1>1 DEF InOrder, OnScreen, IsSeq
<1>3. IsSeq(a) /\ Len(a) = n + 1 /\ \A k \in 1 .. n + 1 : a[k] = IF k = n + 1 THEN c ELSE b[k]
  <2>1. WithLast(a, b, c)
    BY <1>1, <1>2, AppendIs, Zenon
  <2> QED
    BY <1>1, <2>1 DEF WithLast
<1>4. PICK text : text = p \o b
  OBVIOUS
<1>5. IsSeq(text) /\ p \o a = Append(text, c)
  <2>1. IsSeq(p) /\ IsSeq(b) /\ a = Append(b, c)
    BY <1>1, <1>2
  <2>2. IsSeq(p \o b) /\ p \o a = Append(p \o b, c)
    BY <2>1, AppendBehind
  <2> QED
    BY <1>4, <2>2, Zenon
<1>6. ~l.stuck => ShowsUpTo(l, text, At(l))
  <2>1. TypedIn(b) = b /\ Ends(l) = {At(l)}
    BY <1>1, <1>2, OpenEnds
  <2>2. ~l.stuck => \E e \in Ends(l) : ShowsUpTo(l, p \o TypedIn(b), e)
    BY <1>1 DEF InOrder
  <2> QED
    BY <1>4, <2>1, <2>2
<1>7. /\ OnScreen(r) /\ SameCall(r, l)
      /\ ShowsUpTo(l, text, At(l)) =>
           IF c = Newline THEN \E e \in At(r) - Cols .. At(r) : ShowsUpTo(r, text, e)
           ELSE ShowsUpTo(r, Append(text, c), At(r))
  BY <1>1, <1>2, <1>5, TypedShows
<1>8. PICK d : d = (c = Newline \/ n + 1 >= l.size - 1)
  OBVIOUS
<1>9. d \in BOOLEAN
  BY <1>8
<1>10. m = [size |-> l.size, prompt |-> p, buf |-> a, y |-> r.y, x |-> r.x, done |-> d, stuck |-> l.stuck, want |-> r.want]
  <2>1. r = [size |-> l.size, prompt |-> p, buf |-> b, y |-> r.y, x |-> r.x, done |-> l.done,
             stuck |-> l.stuck, want |-> r.want]
    BY <1>1, <1>7 DEF OnScreen, SameCall
  <2>2. PICK t : t = [r EXCEPT !.buf = Append(r.buf, c)]
    OBVIOUS
  <2>3. m = [t EXCEPT !.done = c = Newline \/ Len(t.buf) >= l.size - 1]
    BY <1>1, <2>2, Zenon DEF Typed, TypedLast
  <2>4. r.buf = b
    BY <1>1, <1>7 DEF SameCall
  <2>5. t = [r EXCEPT !.buf = a]
    BY <1>1, <2>2, <2>4
  <2>6. t = [size |-> l.size, prompt |-> p, buf |-> a, y |-> r.y, x |-> r.x, done |-> l.done,
             stuck |-> l.stuck, want |-> r.want]
    BY <2>1, <2>5
  <2>7. Len(t.buf) = n + 1
    BY <1>3, <2>6
  <2>8. m = [t EXCEPT !.done = d]
    BY <1>8, <2>3, <2>7
  <2> QED
    BY <2>6, <2>8
<1>11. /\ m.size = l.size /\ m.prompt = p /\ m.buf = a /\ m.y = r.y /\ m.x = r.x /\ m.done = d
       /\ m.stuck = l.stuck /\ m.want = r.want
  BY <1>10
<1>12. OnScreen(m)
  BY <1>2, <1>3, <1>7, <1>9, <1>10, <1>11 DEF OnScreen
<1>13. ~d => Plain(a) /\ Len(a) < l.size - 1
  <2> SUFFICES ASSUME ~d PROVE Plain(a) /\ Len(a) < l.size - 1
    OBVIOUS
  <2>1. c # Newline /\ ~(n + 1 >= l.size - 1)
    BY <1>8
  <2> QED
    BY <1>1, <1>2, <1>3, <2>1 DEF Plain
<1>14. Len(a) <= (IF l.size > 1 THEN l.size - 1 ELSE 0)
  BY <1>2, <1>3
<1>15. At(m) = At(r)
  BY <1>11 DEF At
<1>16. ASSUME ~m.stuck PROVE \E e \in Ends(m) : ShowsUpTo(m, m.prompt \o TypedIn(m.buf), e)
  <2>1. ShowsUpTo(l, text, At(l))
    BY <1>6, <1>11, <1>16
  <2>2. CASE c = Newline
    <3>1. PICK e \in At(r) - Cols .. At(r) : ShowsUpTo(r, text, e)
      BY <1>7, <2>1, <2>2
    <3>2. TypedIn(a) = b
      BY <1>1, <1>2, <2>2, TypedNewline
    <3>3. a # b
      BY <1>1, <1>2, <1>3
    <3>4. Ends(m) = At(m) - Cols .. At(m)
      BY <1>11, <3>2, <3>3 DEF Ends
    <3>5. ShowsUpTo(m, text, e)
      BY <1>11, <3>1 DEF ShowsUpTo
    <3> QED
      BY <1>4, <1>11, <1>15, <3>1, <3>2, <3>4, <3>5
  <2>3. CASE c # Newline
    <3>1. ShowsUpTo(r, p \o a, At(r))
      BY <1>5, <1>7, <2>1, <2>3
    <3>2. ShowsUpTo(m, p \o a, At(m))
      BY <1>11, <1>15, <3>1 DEF ShowsUpTo
    <3>3. Plain(m.buf) /\ IsSeq(m.buf)
      BY <1>1, <1>2, <1>3, <1>11, <2>3 DEF Plain
    <3>4. TypedIn(m.buf) = m.buf /\ Ends(m) = {At(m)}
      BY <3>3, OpenEnds
    <3> QED
      BY <1>11, <3>2, <3>4
  <2> QED
    BY <2>2, <2>3
<1> QED
  BY <1>11, <1>12, <1>13, <1>14, <1>16 DEF InOrder

LEMMA fgetsKeeps == ASSUME LineInv, NEW key \in Keys, fgets(key) PROVE LineInv'
<1>1. PICK c : c = IF key \in {CarriageReturn, Escape} THEN Newline ELSE key
  OBVIOUS
<1>2. key # Backspace => c \in Nat /\ (c >= Space \/ c = Newline)
  BY <1>1, LineBounds DEF Backspace, Newline, CarriageReturn, Escape, Space
<1>3. ~line.done
  BY DEF fgets
<1>4. CASE key = Backspace
  <2>1. line' = IF line.buf = <<>> THEN line ELSE Rubbed(line)
    <3>1. Rubbed(line) = [Rub(line) EXCEPT !.buf = SubSeq(@, 1, Len(@) - 1), !.stuck = @ \/ line.x = 0]
      BY DEF Rubbed
    <3> QED
      BY <1>4, <3>1, Zenon DEF fgets
  <2>2. CASE line.buf = <<>>
    BY <2>1, <2>2 DEF LineInv
  <2>3. CASE line.buf # <<>>
    BY <1>3, <2>1, <2>3, RubKeeps DEF LineInv
  <2> QED
    BY <2>2, <2>3
<1>5. CASE key # Backspace
  <2>1. line' = TypedLast(line, c)
    BY <1>1, <1>5, Zenon DEF fgets, Typed, TypedLast
  <2> QED
    BY <1>2, <1>3, <1>5, <2>1, TypeKeeps DEF LineInv
<1> QED
  BY <1>4, <1>5

(* While a line is typed into an fgets from stdin, the screen shows the    *)
(* prompt and what the program is going to get, wrapped and scrolled, as   *)
(* long as no backspace had to leave column 0; and that is never more than *)
(* it has room for.                                                        *)
THEOREM LineAlwaysAsShown == LibcSpec => []LineAsShown
<1>1. LineInv /\ [LibcNext]_libcVars => LineInv'
  <2> SUFFICES ASSUME LineInv, [LibcNext]_libcVars PROVE LineInv'
    OBVIOUS
  <2>1. CASE SayAny \/ AskAnyDate \/ UNCHANGED libcVars
    <3>1. UNCHANGED line
      BY <2>1 DEF SayAny, Say, AskAnyDate, AskDate, libcVars
    <3> QED
      BY <3>1 DEF LineInv
  <2>2. CASE TypeAny
    BY <2>2, fgetsKeeps DEF TypeAny
  <2> QED
    BY <2>1, <2>2 DEF LibcNext
<1> QED
  BY <1>1, LineInitInv, LineInvShown, PTL DEF LibcSpec

(* A set of naturals has a least element.                                  *)
LEMMA LeastOfNaturals ==
  ASSUME NEW S, S \subseteq Nat, S # {}
  PROVE  \E x \in S : \A y \in S : x <= y
<1>1. PICK x \in S : \A y \in S : ~ <<y, x>> \in OpToRel(<, Nat)
  BY NatLessThanWellFounded, WFMin, Zenon
<1>2. \A y \in S : ~ (y < x)
  BY <1>1 DEF OpToRel
<1> QED
  BY <1>2
-----------------------------------------------------------------------------
(* Dates.  A loop over the months: md has their days, end what it gives.   *)
Loops(f, md, end, first) ==
  /\ f = [m \in first .. 11 |-> [day \in Int |-> f[m][day]]]
  /\ \A m \in first .. 11 : \A day \in Int :
       f[m][day] = IF m < 11 /\ day >= md[m + 1] THEN f[m + 1][day - md[m + 1]] ELSE end[m][day]

LEMMA LoopExists ==
  ASSUME NEW md \in [1 .. 12 -> Int], NEW end
  PROVE  \E f : Loops(f, md, end, 0)
<1>1. PICK S : S = {n \in Nat : n <= 11 /\ \A f : ~ Loops(f, md, end, 11 - n)}
  OBVIOUS
<1>2. S = {}
  <2> SUFFICES ASSUME S # {} PROVE FALSE
    OBVIOUS
  <2>1. PICK n : n \in S /\ \A y \in S : n <= y
    <3>1. S \subseteq Nat
      BY <1>1
    <3> QED
      BY <3>1, LeastOfNaturals
  <2>2. n \in Nat /\ n <= 11 /\ \A f : ~ Loops(f, md, end, 11 - n)
    BY <1>1, <2>1
  <2>3. CASE n = 0
    <3>1. PICK f : f = [m \in 11 .. 11 |-> [day \in Int |-> end[m][day]]]
      OBVIOUS
    <3>2. \A m \in 11 .. 11 : m = 11 /\ f[m] = [day \in Int |-> end[m][day]]
      BY <3>1
    <3>3. \A m \in 11 .. 11 : \A day \in Int : f[m][day] = end[m][day]
      BY <3>2
    <3>4. f = [m \in 11 .. 11 |-> [day \in Int |-> f[m][day]]]
      BY <3>1, <3>3
    <3>5. Loops(f, md, end, 11)
      BY <3>2, <3>3, <3>4 DEF Loops
    <3>6. 11 - n = 11
      BY <2>3
    <3> QED
      BY <2>2, <3>5, <3>6
  <2>4. CASE n # 0
    <3>1. n - 1 \in Nat /\ n - 1 <= 11 /\ n - 1 \notin S
      BY <2>1, <2>2, <2>4
    <3>2. PICK g : Loops(g, md, end, 11 - (n - 1))
      BY <1>1, <3>1
    <3>3. PICK p : p = 11 - n
      OBVIOUS
    <3>4. p \in 0 .. 10 /\ 11 - (n - 1) = p + 1
      BY <2>2, <2>4, <3>3
    <3>5. Loops(g, md, end, p + 1)
      BY <3>2, <3>4
    <3>6. PICK here : here = [day \in Int |-> IF day >= md[p + 1] THEN g[p + 1][day - md[p + 1]] ELSE end[p][day]]
      OBVIOUS
    <3>7. PICK f : f = [m \in p .. 11 |-> IF m = p THEN here ELSE g[m]]
      OBVIOUS
    <3>8. f[p] = here /\ \A m \in p + 1 .. 11 : f[m] = g[m]
      <4>1. p \in p .. 11 /\ \A m \in p + 1 .. 11 : m \in p .. 11 /\ m # p
        BY <3>4
      <4>2. f[p] = here
        BY <3>7, <4>1
      <4>3. \A m \in p + 1 .. 11 : f[m] = g[m]
        BY <3>7, <4>1
      <4> QED
        BY <4>2, <4>3
    <3>9. \A m \in p .. 11 : m = p \/ m \in p + 1 .. 11
      BY <3>4
    <3>10. f = [m \in p .. 11 |-> [day \in Int |-> f[m][day]]]
      <4>1. \A m \in p + 1 .. 11 : g[m] = [day \in Int |-> g[m][day]]
        BY <3>5 DEF Loops
      <4>2. \A m \in p .. 11 : f[m] = [day \in Int |-> f[m][day]]
        BY <3>6, <3>8, <3>9, <4>1
      <4>3. f = [m \in p .. 11 |-> f[m]]
        BY <3>7
      <4> QED
        BY <4>2, <4>3
    <3>11. ASSUME NEW m \in p .. 11, NEW day \in Int
           PROVE  f[m][day] = IF m < 11 /\ day >= md[m + 1] THEN f[m + 1][day - md[m + 1]] ELSE end[m][day]
      <4>1. CASE m = p
        <5>1. f[m][day] = IF day >= md[p + 1] THEN g[p + 1][day - md[p + 1]] ELSE end[p][day]
          BY <3>6, <3>8, <4>1
        <5>2. f[p + 1] = g[p + 1] /\ p < 11
          BY <3>4, <3>8
        <5> QED
          BY <4>1, <5>1, <5>2
      <4>2. CASE m \in p + 1 .. 11
        <5>1. g[m][day] = IF m < 11 /\ day >= md[m + 1] THEN g[m + 1][day - md[m + 1]] ELSE end[m][day]
          BY <3>5, <4>2 DEF Loops
        <5>2. f[m] = g[m] /\ (m < 11 => f[m + 1] = g[m + 1])
          BY <3>4, <3>8, <4>2
        <5> QED
          BY <5>1, <5>2
      <4> QED
        BY <3>9, <4>1, <4>2
    <3>12. Loops(f, md, end, p)
      BY <3>10, <3>11 DEF Loops
    <3> QED
      BY <2>2, <3>3, <3>12
  <2> QED
    BY <2>3, <2>4
<1>3. 11 \notin S
  BY <1>2
<1>4. PICK f : Loops(f, md, end, 11 - 11)
  BY <1>1, <1>3
<1> QED
  BY <1>4

(* What localtime and v32::Date compute is such a loop.                    *)
IsMonthOf(f, md) ==
  f = [m \in 0 .. 11 |-> [day \in Int |->
        IF m < 11 /\ day >= md[m + 1] THEN f[m + 1][day - md[m + 1]]
        ELSE [mon |-> m, mday |-> day + 1]]]
IsDateOf(f, md) ==
  f = [m \in 0 .. 11 |-> [day \in Int |->
        IF m = 11 \/ day < md[m + 1] THEN [month |-> m + 1, day |-> day + 1]
        ELSE f[m + 1][day - md[m + 1]]]]
MonthOf(md) == CHOOSE f : IsMonthOf(f, md)
DateOf(md) == CHOOSE f : IsDateOf(f, md)

TmEnd == [m \in 0 .. 11 |-> [day \in Int |-> [mon |-> m, mday |-> day + 1]]]
DateEnd == [m \in 0 .. 11 |-> [day \in Int |-> [month |-> m + 1, day |-> day + 1]]]

LEMMA localtimeIs ==
  ASSUME NEW year, NEW yday
  PROVE  localtime(year, yday) = MonthOf(MonthDays(year))[0][yday]
BY Zenon DEF localtime, MonthOf, IsMonthOf

LEMMA set_fromIs ==
  ASSUME NEW year, NEW days
  PROVE  set_from(year, days) = DateOf(MonthDays(year))[0][days]
BY Zenon DEF set_from, DateOf, IsDateOf

LEMMA MonthLoops ==
  ASSUME NEW md \in [1 .. 12 -> Int]
  PROVE  Loops(MonthOf(md), md, TmEnd, 0)
<1>0. ASSUME NEW m \in 0 .. 11, NEW day \in Int PROVE TmEnd[m][day] = [mon |-> m, mday |-> day + 1]
  <2>1. TmEnd[m] = [d \in Int |-> [mon |-> m, mday |-> d + 1]]
    BY DEF TmEnd
  <2> QED
    BY <2>1
<1>1. PICK f : Loops(f, md, TmEnd, 0)
  BY LoopExists
<1>2. IsMonthOf(f, md)
  <2>1. ASSUME NEW m \in 0 .. 11
        PROVE  f[m] = [day \in Int |-> IF m < 11 /\ day >= md[m + 1] THEN f[m + 1][day - md[m + 1]]
                                       ELSE [mon |-> m, mday |-> day + 1]]
    <3>1. f[m] = [day \in Int |-> f[m][day]]
      BY <1>1 DEF Loops
    <3>2. \A day \in Int : f[m][day] = IF m < 11 /\ day >= md[m + 1] THEN f[m + 1][day - md[m + 1]]
                                       ELSE [mon |-> m, mday |-> day + 1]
      BY <1>0, <1>1 DEF Loops
    <3> QED
      BY <3>1, <3>2
  <2>2. f = [m \in 0 .. 11 |-> f[m]]
    <3>1. f = [m \in 0 .. 11 |-> [day \in Int |-> f[m][day]]]
      BY <1>1 DEF Loops
    <3>2. DOMAIN f = 0 .. 11
      BY <3>1
    <3> QED
      BY <3>1, <3>2
  <2> QED
    BY <2>1, <2>2 DEF IsMonthOf
<1>3. PICK g : g = MonthOf(md)
  OBVIOUS
<1>4. IsMonthOf(g, md)
  BY <1>2, <1>3 DEF MonthOf
<1>5. ASSUME NEW m \in 0 .. 11
      PROVE  g[m] = [day \in Int |-> IF m < 11 /\ day >= md[m + 1] THEN g[m + 1][day - md[m + 1]]
                                     ELSE [mon |-> m, mday |-> day + 1]]
  BY <1>4, Zenon DEF IsMonthOf
<1>6. g = [m \in 0 .. 11 |-> [day \in Int |-> g[m][day]]]
  <2>1. DOMAIN g = 0 .. 11 /\ g = [m \in 0 .. 11 |-> g[m]]
    BY <1>4 DEF IsMonthOf
  <2>2. \A m \in 0 .. 11 : g[m] = [day \in Int |-> g[m][day]]
    BY <1>5
  <2> QED
    BY <2>1, <2>2
<1>7. ASSUME NEW m \in 0 .. 11, NEW day \in Int
      PROVE  g[m][day] = IF m < 11 /\ day >= md[m + 1] THEN g[m + 1][day - md[m + 1]] ELSE TmEnd[m][day]
  <2>1. g[m][day] = IF m < 11 /\ day >= md[m + 1] THEN g[m + 1][day - md[m + 1]] ELSE [mon |-> m, mday |-> day + 1]
    BY <1>5
  <2> QED
    BY <1>0, <2>1
<1> QED
  BY <1>3, <1>6, <1>7 DEF Loops

LEMMA DateLoops ==
  ASSUME NEW md \in [1 .. 12 -> Int]
  PROVE  Loops(DateOf(md), md, DateEnd, 0)
<1>0. ASSUME NEW m \in 0 .. 11, NEW day \in Int PROVE DateEnd[m][day] = [month |-> m + 1, day |-> day + 1]
  <2>1. DateEnd[m] = [d \in Int |-> [month |-> m + 1, day |-> d + 1]]
    BY DEF DateEnd
  <2> QED
    BY <2>1
<1>a. ASSUME NEW m \in 0 .. 11, NEW day \in Int
      PROVE  (m = 11 \/ day < md[m + 1]) <=> ~(m < 11 /\ day >= md[m + 1])
  <2>1. md[m + 1] \in Int
    OBVIOUS
  <2> QED
    BY <2>1
<1>1. PICK f : Loops(f, md, DateEnd, 0)
  BY LoopExists
<1>2. IsDateOf(f, md)
  <2>1. ASSUME NEW m \in 0 .. 11
        PROVE  f[m] = [day \in Int |-> IF m = 11 \/ day < md[m + 1] THEN [month |-> m + 1, day |-> day + 1]
                                       ELSE f[m + 1][day - md[m + 1]]]
    <3>1. f[m] = [day \in Int |-> f[m][day]]
      BY <1>1 DEF Loops
    <3>2. ASSUME NEW day \in Int
          PROVE  f[m][day] = IF m = 11 \/ day < md[m + 1] THEN [month |-> m + 1, day |-> day + 1]
                             ELSE f[m + 1][day - md[m + 1]]
      <4>1. f[m][day] = IF m < 11 /\ day >= md[m + 1] THEN f[m + 1][day - md[m + 1]] ELSE DateEnd[m][day]
        BY <1>1 DEF Loops
      <4> QED
        BY <1>0, <1>a, <4>1
    <3> QED
      BY <3>1, <3>2
  <2>2. f = [m \in 0 .. 11 |-> f[m]]
    <3>1. f = [m \in 0 .. 11 |-> [day \in Int |-> f[m][day]]]
      BY <1>1 DEF Loops
    <3>2. DOMAIN f = 0 .. 11
      BY <3>1
    <3> QED
      BY <3>1, <3>2
  <2> QED
    BY <2>1, <2>2 DEF IsDateOf
<1>3. PICK g : g = DateOf(md)
  OBVIOUS
<1>4. IsDateOf(g, md)
  BY <1>2, <1>3 DEF DateOf
<1>5. ASSUME NEW m \in 0 .. 11
      PROVE  g[m] = [day \in Int |-> IF m = 11 \/ day < md[m + 1] THEN [month |-> m + 1, day |-> day + 1]
                                     ELSE g[m + 1][day - md[m + 1]]]
  BY <1>4, Zenon DEF IsDateOf
<1>6. g = [m \in 0 .. 11 |-> [day \in Int |-> g[m][day]]]
  <2>1. DOMAIN g = 0 .. 11 /\ g = [m \in 0 .. 11 |-> g[m]]
    BY <1>4 DEF IsDateOf
  <2>2. \A m \in 0 .. 11 : g[m] = [day \in Int |-> g[m][day]]
    BY <1>5
  <2> QED
    BY <2>1, <2>2
<1>7. ASSUME NEW m \in 0 .. 11, NEW day \in Int
      PROVE  g[m][day] = IF m < 11 /\ day >= md[m + 1] THEN g[m + 1][day - md[m + 1]] ELSE DateEnd[m][day]
  <2>1. PICK h : h = [d \in Int |-> IF m = 11 \/ d < md[m + 1] THEN [month |-> m + 1, day |-> d + 1]
                                    ELSE g[m + 1][d - md[m + 1]]]
    OBVIOUS
  <2>2. g[m] = h
    BY <1>5, <2>1, Zenon
  <2>3. h[day] = IF m = 11 \/ day < md[m + 1] THEN [month |-> m + 1, day |-> day + 1] ELSE g[m + 1][day - md[m + 1]]
    BY <2>1
  <2> QED
    BY <1>0, <1>a, <2>2, <2>3
<1> QED
  BY <1>3, <1>6, <1>7 DEF Loops

(* The days before each month.                                             *)
Sums(before, md) ==
  /\ before = [m \in 1 .. 12 |-> before[m]]
  /\ before[1] = 0
  /\ \A m \in 1 .. 11 : before[m + 1] = before[m] + md[m]

LEMMA DaysBeforeIs ==
  ASSUME NEW year, NEW md, md = CalendarDays(year), md \in [1 .. 12 -> Nat]
  PROVE  Sums(DaysBefore(year), md)
<1>1. PICK a : a = [m \in 1 .. 12 |-> md[m]] /\ \A m \in 1 .. 12 : a[m] \in Nat
  OBVIOUS
<1>2. PICK f : f = [m \in 1 .. 12 |->
    IF m = 1 THEN 0 ELSE IF m = 2 THEN a[1] ELSE IF m = 3 THEN a[1] + a[2] ELSE IF m = 4 THEN a[1] + a[2] + a[3]
    ELSE IF m = 5 THEN a[1] + a[2] + a[3] + a[4] ELSE IF m = 6 THEN a[1] + a[2] + a[3] + a[4] + a[5]
    ELSE IF m = 7 THEN a[1] + a[2] + a[3] + a[4] + a[5] + a[6]
    ELSE IF m = 8 THEN a[1] + a[2] + a[3] + a[4] + a[5] + a[6] + a[7]
    ELSE IF m = 9 THEN a[1] + a[2] + a[3] + a[4] + a[5] + a[6] + a[7] + a[8]
    ELSE IF m = 10 THEN a[1] + a[2] + a[3] + a[4] + a[5] + a[6] + a[7] + a[8] + a[9]
    ELSE IF m = 11 THEN a[1] + a[2] + a[3] + a[4] + a[5] + a[6] + a[7] + a[8] + a[9] + a[10]
    ELSE a[1] + a[2] + a[3] + a[4] + a[5] + a[6] + a[7] + a[8] + a[9] + a[10] + a[11]]
  OBVIOUS
<1>3. ASSUME NEW m \in 1 .. 12 PROVE f[m] = IF m = 1 THEN 0 ELSE f[m - 1] + a[m - 1]
  BY <1>1, <1>2
<1>4. f = [m \in 1 .. 12 |-> IF m = 1 THEN 0 ELSE f[m - 1] + CalendarDays(year)[m - 1]]
  <2>1. f = [m \in 1 .. 12 |-> f[m]]
    BY <1>2
  <2>2. \A m \in 1 .. 12 : m = 1 \/ m - 1 \in 1 .. 12
    OBVIOUS
  <2>3. \A m \in 1 .. 12 : f[m] = IF m = 1 THEN 0 ELSE f[m - 1] + CalendarDays(year)[m - 1]
    BY <1>1, <1>3, <2>2
  <2> QED
    BY <2>1, <2>3
<1>5. PICK g : g = DaysBefore(year)
  OBVIOUS
<1>6. g = CHOOSE h : h = [m \in 1 .. 12 |-> IF m = 1 THEN 0 ELSE h[m - 1] + CalendarDays(year)[m - 1]]
  BY <1>5, Zenon DEF DaysBefore
<1>7. g = [m \in 1 .. 12 |-> IF m = 1 THEN 0 ELSE g[m - 1] + CalendarDays(year)[m - 1]]
  BY <1>4, <1>6, Zenon
<1>8. g = [m \in 1 .. 12 |-> g[m]] /\ \A m \in 1 .. 12 : g[m] = IF m = 1 THEN 0 ELSE g[m - 1] + md[m - 1]
  BY <1>7
<1>9. g[1] = 0
  BY <1>8
<1>10. ASSUME NEW m \in 1 .. 11 PROVE g[m + 1] = g[m] + md[m]
  <2>1. m + 1 \in 1 .. 12 /\ m + 1 # 1 /\ m + 1 - 1 = m
    OBVIOUS
  <2> QED
    BY <1>8, <2>1
<1> QED
  BY <1>5, <1>8, <1>9, <1>10 DEF Sums

(* Two loops over one calendar end in the same month, with the same day of *)
(* it, which that month has.                                               *)
SameDay(md, before, f, g, tm, date1, day) ==
  \E m \in 0 .. 11 : \E d \in Nat :
    f[0][day] = tm[m][d] /\ g[0][day] = date1[m][d] /\ d < md[m + 1] /\ day = before[m + 1] + d

LEMMA LoopsAgree ==
  ASSUME NEW md \in [1 .. 12 -> Nat], NEW before, before \in [1 .. 12 -> Nat], Sums(before, md),
         NEW f, NEW g, NEW tm, NEW date1, Loops(f, md, tm, 0), Loops(g, md, date1, 0),
         NEW day \in Nat, day < before[12] + md[12]
  PROVE  SameDay(md, before, f, g, tm, date1, day)
<1> DEFINE Agree(m, rest) == \E n \in 0 .. 11 : \E d \in Nat :
             f[m][rest] = tm[n][d] /\ g[m][rest] = date1[n][d] /\ d < md[n + 1] /\ before[m + 1] + rest = before[n + 1] + d
<1>1. PICK S : S = {k \in Nat : k <= 11 /\ ~ \A rest \in Nat : before[12 - k] + rest < before[12] + md[12] => Agree(11 - k, rest)}
  OBVIOUS
<1>2. S = {}
  <2> SUFFICES ASSUME S # {} PROVE FALSE
    OBVIOUS
  <2>1. PICK k : k \in S /\ \A y \in S : k <= y
    <3>1. S \subseteq Nat
      BY <1>1
    <3> QED
      BY <3>1, LeastOfNaturals
  <2>2. PICK m : m = 11 - k
    OBVIOUS
  <2>3. k \in Nat /\ k <= 11 /\ m \in 0 .. 11 /\ 12 - k = m + 1
    <3> HIDE DEF Agree
    <3>1. k \in Nat /\ k <= 11
      BY <1>1, <2>1
    <3> QED
      BY <2>2, <3>1
  <2>4. PICK rest \in Nat : before[m + 1] + rest < before[12] + md[12] /\ ~Agree(m, rest)
    <3> HIDE DEF Agree
    <3>1. ~ \A rest \in Nat :
              before[12 - k] + rest < before[12] + md[12] => Agree(11 - k, rest)
      BY <1>1, <2>1
    <3>2. 12 - k = m + 1 /\ 11 - k = m
      BY <2>2, <2>3
    <3> QED
      BY <3>1, <3>2
  <2>5. /\ f[m][rest] = IF m < 11 /\ rest >= md[m + 1] THEN f[m + 1][rest - md[m + 1]] ELSE tm[m][rest]
        /\ g[m][rest] = IF m < 11 /\ rest >= md[m + 1] THEN g[m + 1][rest - md[m + 1]] ELSE date1[m][rest]
    <3>1. \A n \in 0 .. 11 : \A e \in Int :
            f[n][e] = IF n < 11 /\ e >= md[n + 1] THEN f[n + 1][e - md[n + 1]] ELSE tm[n][e]
      BY Zenon DEF Loops
    <3>2. \A n \in 0 .. 11 : \A e \in Int :
            g[n][e] = IF n < 11 /\ e >= md[n + 1] THEN g[n + 1][e - md[n + 1]] ELSE date1[n][e]
      BY Zenon DEF Loops
    <3>3. m \in 0 .. 11 /\ rest \in Int
      BY <2>3
    <3> QED
      BY <3>1, <3>2, <3>3, Zenon
  <2>6. md[m + 1] \in Nat /\ before[m + 1] \in Nat /\ before[12] \in Nat /\ md[12] \in Nat
    BY <2>3
  <2>7. CASE m < 11 /\ rest >= md[m + 1]
    <3>1. PICK p, left : p = m + 1 /\ left = rest - md[m + 1]
      OBVIOUS
    <3>2. left \in Nat /\ p \in 0 .. 11 /\ f[m][rest] = f[p][left] /\ g[m][rest] = g[p][left]
      BY <2>3, <2>5, <2>6, <2>7, <3>1
    <3>3. before[p + 1] = before[m + 1] + md[m + 1]
      BY <2>3, <2>7, <3>1 DEF Sums
    <3>4. before[p + 1] + left = before[m + 1] + rest
      BY <2>6, <3>1, <3>3
    <3>5. k - 1 \in Nat /\ k - 1 <= 11 /\ k - 1 \notin S /\ 12 - (k - 1) = p + 1 /\ 11 - (k - 1) = p
      BY <2>1, <2>2, <2>3, <2>7, <3>1
    <3>6. \A r \in Nat : before[12 - (k - 1)] + r < before[12] + md[12] => Agree(11 - (k - 1), r)
      BY <1>1, <3>5
    <3>7. \A r \in Nat : before[p + 1] + r < before[12] + md[12] => Agree(p, r)
      <4> HIDE DEF Agree
      <4> QED
        BY <3>5, <3>6
    <3>8. before[p + 1] + left < before[12] + md[12]
      BY <2>4, <3>4
    <3>9. Agree(p, left)
      <4> HIDE DEF Agree
      <4> QED
        BY <3>2, <3>7, <3>8
    <3>10. Agree(m, rest)
      <4>1. PICK n \in 0 .. 11 : \E d \in Nat :
               f[p][left] = tm[n][d] /\ g[p][left] = date1[n][d] /\ d < md[n + 1] /\ before[p + 1] + left = before[n + 1] + d
        BY <3>9
      <4> QED
        BY <3>2, <3>4, <4>1
    <3> QED
      BY <2>4, <3>10
  <2>8. CASE ~(m < 11 /\ rest >= md[m + 1])
    <3>1. f[m][rest] = tm[m][rest] /\ g[m][rest] = date1[m][rest]
      BY <2>5, <2>8
    <3>2. rest < md[m + 1]
      BY <2>3, <2>4, <2>6, <2>8
    <3>3. Agree(m, rest)
      BY <2>3, <3>1, <3>2
    <3> QED
      BY <2>4, <3>3
  <2> QED
    BY <2>7, <2>8
<1>3. 11 \notin S /\ 12 - 11 = 1 /\ 11 - 11 = 0
  BY <1>2
<1>4. \A rest \in Nat : before[1] + rest < before[12] + md[12] => Agree(0, rest)
  <2> HIDE DEF Agree
  <2> QED
    BY <1>1, <1>3
<1>5. before[1] = 0
  BY DEF Sums
<1>6. Agree(0, day)
  <2> HIDE DEF Agree
  <2> QED
    BY <1>4, <1>5
<1>7. 0 + 1 = 1
  OBVIOUS
<1> QED
  BY <1>5, <1>6, <1>7 DEF SameDay

(* The calendar of a year.                                                 *)
LastDay(year) == IF CalendarLeap(year) THEN 365 ELSE 364

(* The code's years are the calendar's where 400 does not divide them.     *)
LEMMA CodeCalendar ==
  ASSUME NEW year \in Nat, year % 400 # 0
  PROVE  MonthDays(year) = CalendarDays(year)
<1>1. LeapYear(year) <=> CalendarLeap(year)
  BY Zenon DEF LeapYear, CalendarLeap
<1> QED
  BY <1>1, Zenon DEF MonthDays, CalendarDays

LEMMA CalendarIs ==
  ASSUME NEW year \in Nat
  PROVE  /\ CalendarDays(year) \in [1 .. 12 -> Nat]
         /\ DaysBefore(year) \in [1 .. 12 -> Nat]
         /\ DaysBefore(year)[12] + CalendarDays(year)[12] = LastDay(year) + 1
<1>1. PICK md, feb : md = CalendarDays(year) /\ feb = IF CalendarLeap(year) THEN 29 ELSE 28
  OBVIOUS
<1>2. feb \in Nat /\ md = <<31, feb, 31, 30, 31, 30, 31, 31, 30, 31, 30, 31>>
  BY <1>1 DEF CalendarDays
<1>3. md \in [1 .. 12 -> Nat]
  BY <1>2
<1>4. /\ md[1] = 31 /\ md[2] = feb /\ md[3] = 31 /\ md[4] = 30 /\ md[5] = 31 /\ md[6] = 30 /\ md[7] = 31
      /\ md[8] = 31 /\ md[9] = 30 /\ md[10] = 31 /\ md[11] = 30 /\ md[12] = 31
  BY <1>2
<1>5. PICK before : before = DaysBefore(year)
  OBVIOUS
<1>6. Sums(before, md)
  BY <1>1, <1>3, <1>5, DaysBeforeIs
<1>7. /\ before[1] = 0 /\ before[1 + 1] = before[1] + md[1] /\ before[2 + 1] = before[2] + md[2]
      /\ before[3 + 1] = before[3] + md[3] /\ before[4 + 1] = before[4] + md[4]
      /\ before[5 + 1] = before[5] + md[5] /\ before[6 + 1] = before[6] + md[6]
      /\ before[7 + 1] = before[7] + md[7] /\ before[8 + 1] = before[8] + md[8]
      /\ before[9 + 1] = before[9] + md[9] /\ before[10 + 1] = before[10] + md[10]
      /\ before[11 + 1] = before[11] + md[11]
  BY <1>6 DEF Sums
<1>8. /\ before[1] = 0 /\ before[2] = 31 /\ before[3] = 31 + feb /\ before[4] = 62 + feb /\ before[5] = 92 + feb
      /\ before[6] = 123 + feb /\ before[7] = 153 + feb /\ before[8] = 184 + feb /\ before[9] = 215 + feb
      /\ before[10] = 245 + feb /\ before[11] = 276 + feb /\ before[12] = 306 + feb
  BY <1>2, <1>4, <1>7
<1>9. before \in [1 .. 12 -> Nat]
  <2>1. before = [m \in 1 .. 12 |-> before[m]]
    BY <1>6 DEF Sums
  <2>2. \A m \in 1 .. 12 : before[m] \in Nat
    BY <1>2, <1>8
  <2> QED
    BY <2>1, <2>2
<1>10. before[12] + md[12] = LastDay(year) + 1
  BY <1>1, <1>4, <1>8 DEF LastDay
<1> QED
  BY <1>1, <1>3, <1>5, <1>9, <1>10

LEMMA DateExact ==
  ASSUME NEW year \in Nat, year % 400 # 0, NEW yday \in 0 .. LastDay(year)
  PROVE  LET tm == localtime(year, yday)
             d == set_from(year, yday)
         IN  /\ d = [month |-> tm.mon + 1, day |-> tm.mday]
             /\ d.day \in 1 .. CalendarDays(year)[d.month]
             /\ yday = DaysBefore(year)[d.month] + d.day - 1
<1>1. PICK md, before : md = CalendarDays(year) /\ md = MonthDays(year) /\ before = DaysBefore(year)
  BY CodeCalendar
<1>2. md \in [1 .. 12 -> Nat] /\ before \in [1 .. 12 -> Nat] /\ before[12] + md[12] = LastDay(year) + 1
  BY <1>1, CalendarIs
<1>3. Sums(before, md)
  BY <1>1, <1>2, DaysBeforeIs
<1>4. PICK f, g : f = MonthOf(md) /\ g = DateOf(md)
  OBVIOUS
<1>5. md \in [1 .. 12 -> Int]
  BY <1>2
<1>6. Loops(f, md, TmEnd, 0) /\ Loops(g, md, DateEnd, 0)
  BY <1>4, <1>5, MonthLoops, DateLoops
<1>7. LastDay(year) \in Nat /\ yday \in Nat /\ yday < before[12] + md[12]
  <2>1. LastDay(year) \in Nat
    BY DEF LastDay
  <2> QED
    BY <1>2, <2>1
<1>8. PICK m \in 0 .. 11 : \E d \in Nat :
        f[0][yday] = TmEnd[m][d] /\ g[0][yday] = DateEnd[m][d] /\ d < md[m + 1] /\ yday = before[m + 1] + d
  <2>1. SameDay(md, before, f, g, TmEnd, DateEnd, yday)
    BY <1>2, <1>3, <1>6, <1>7, LoopsAgree
  <2> QED
    BY <2>1 DEF SameDay
<1>9. PICK d \in Nat : f[0][yday] = TmEnd[m][d] /\ g[0][yday] = DateEnd[m][d] /\ d < md[m + 1] /\ yday = before[m + 1] + d
  BY <1>8
<1>10. localtime(year, yday) = [mon |-> m, mday |-> d + 1]
  <2>1. TmEnd[m] = [e \in Int |-> [mon |-> m, mday |-> e + 1]]
    BY DEF TmEnd
  <2>2. TmEnd[m][d] = [mon |-> m, mday |-> d + 1]
    BY <2>1
  <2>3. localtime(year, yday) = f[0][yday]
    BY <1>1, <1>4, localtimeIs
  <2> QED
    BY <1>9, <2>2, <2>3
<1>11. set_from(year, yday) = [month |-> m + 1, day |-> d + 1]
  <2>1. DateEnd[m] = [e \in Int |-> [month |-> m + 1, day |-> e + 1]]
    BY DEF DateEnd
  <2>2. DateEnd[m][d] = [month |-> m + 1, day |-> d + 1]
    BY <2>1
  <2>3. set_from(year, yday) = g[0][yday]
    BY <1>1, <1>4, set_fromIs
  <2> QED
    BY <1>9, <2>2, <2>3
<1>12. md[m + 1] \in Nat /\ before[m + 1] \in Nat
  BY <1>2
<1>13. d + 1 \in 1 .. md[m + 1] /\ yday = before[m + 1] + (d + 1) - 1
  BY <1>9, <1>12
<1> QED
  BY <1>1, <1>10, <1>11, <1>13

(* The date asked for is a day of a year.                                  *)
DateInv == date # NoDate => date.year \in Nat /\ date.year % 400 # 0 /\ date.yday \in 0 .. LastDay(date.year)

(* Of every day of every year that 400 does not divide localtime and       *)
(* v32::Date make the month and day of the calendar, in which a century is *)
(* a leap year only if 400 divides it.                                     *)
THEOREM DatesAlwaysExact == LibcSpec => []DatesExact
<1>1. LibcInit => DateInv
  BY DEF LibcInit, DateInv
<1>2. DateInv /\ [LibcNext]_libcVars => DateInv'
  <2> SUFFICES ASSUME DateInv, [LibcNext]_libcVars PROVE DateInv'
    OBVIOUS
  <2>1. CASE SayAny \/ TypeAny \/ UNCHANGED libcVars
    <3>1. UNCHANGED date
      BY <2>1 DEF SayAny, Say, TypeAny, fgets, libcVars
    <3> QED
      BY <3>1 DEF DateInv
  <2>2. CASE AskAnyDate
    <3>1. PICK year \in Years : \E yday \in 0 .. (IF CalendarLeap(year) THEN 365 ELSE 364) : AskDate(year, yday)
      BY <2>2 DEF AskAnyDate
    <3>2. PICK yday \in 0 .. LastDay(year) : AskDate(year, yday)
      BY <3>1 DEF LastDay
    <3>3. year \in Nat /\ year % 400 # 0 /\ date' = [year |-> year, yday |-> yday]
      BY <3>2, YearsOfDates DEF AskDate
    <3> QED
      BY <3>2, <3>3 DEF DateInv
  <2> QED
    BY <2>1, <2>2 DEF LibcNext
<1>3. DateInv => DatesExact
  BY DateExact DEF DateInv, DatesExact
<1> QED
  BY <1>1, <1>2, <1>3, PTL DEF LibcSpec
=============================================================================
