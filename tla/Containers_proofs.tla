------------------------- MODULE Containers_proofs -------------------------
(***************************************************************************)
(* std::vector does what C++ says, for any number of vectors, elements of  *)
(* any kind, any length and any first capacity.                            *)
(*                                                                         *)
(* The memory is kept when each vector has a block of its own, as long as  *)
(* it believes.  A call is made of three steps that keep it: a new block,  *)
(* a block written, a size set.  What each of them leaves of the elements  *)
(* of its vector, and that it touches no other, is a lemma; a call is then *)
(* read off the lemmas.                                                    *)
(*                                                                         *)
(* std::string does and answers what C++ says, for any capacity with room  *)
(* for an int: its words hold a text between two calls, whatever they held *)
(* before, and what each call leaves of the text is a lemma.               *)
(***************************************************************************)
EXTENDS Vector, StdString, SequenceTheorems, WellFoundedInduction, TLAPS

(* What is there to be said of the memory between two calls.               *)
VectorTyped(d) ==
  /\ d \in [data : Blocks \cup {Null}, size : Nat, capacity : Nat]
  /\ d.size <= d.capacity
  /\ d.data = Null => d.capacity = 0

Kept(m) ==
  /\ m = [heap |-> m.heap, vecs |-> m.vecs]
  /\ DOMAIN m.vecs \subseteq Vec
  /\ \A v \in DOMAIN m.vecs : VectorTyped(m.vecs[v])
  /\ DOMAIN m.heap = {m.vecs[v].data : v \in DOMAIN m.vecs} \ {Null}
  /\ \A v \in DOMAIN m.vecs : m.vecs[v].data # Null =>
       DOMAIN m.heap[m.vecs[v].data] = 0 .. m.vecs[v].capacity - 1
  /\ \A v, w \in DOMAIN m.vecs :
       v # w /\ m.vecs[v].data # Null => m.vecs[v].data # m.vecs[w].data

(* Only v may have changed from m to r.                                    *)
OthersKept(m, r, v) ==
  /\ DOMAIN r.vecs = DOMAIN m.vecs
  /\ \A w \in DOMAIN m.vecs \ {v} :
       /\ r.vecs[w] = m.vecs[w]
       /\ m.vecs[w].data # Null => r.heap[m.vecs[w].data] = m.heap[m.vecs[w].data]

-----------------------------------------------------------------------------
(* The three steps a call is made of.                                      *)
LEMMA SetSizeKeeps ==
  ASSUME NEW m, Kept(m), NEW v \in DOMAIN m.vecs, NEW n \in 0 .. m.vecs[v].capacity,
         NEW r, r = SetSize(m, v, n)
  PROVE  /\ Kept(r) /\ OthersKept(m, r, v)
         /\ r.vecs[v] = [m.vecs[v] EXCEPT !.size = n]
         /\ r.heap = m.heap
         /\ \A i : Item(r, v, i) = Item(m, v, i)
<1>1. /\ r = [heap |-> m.heap, vecs |-> [m.vecs EXCEPT ![v].size = n]]
      /\ r.heap = m.heap /\ DOMAIN r.vecs = DOMAIN m.vecs
      /\ r.vecs[v] = [m.vecs[v] EXCEPT !.size = n]
      /\ \A w \in DOMAIN m.vecs \ {v} : r.vecs[w] = m.vecs[w]
  BY DEF SetSize, Kept
<1>2. /\ VectorTyped(r.vecs[v]) /\ r.vecs[v].data = m.vecs[v].data
      /\ r.vecs[v].capacity = m.vecs[v].capacity
  BY <1>1 DEF Kept, VectorTyped
<1>3. Kept(r)
  BY <1>1, <1>2 DEF Kept
<1>4. OthersKept(m, r, v)
  BY <1>1 DEF OthersKept
<1>5. \A i : Item(r, v, i) = Item(m, v, i)
  BY <1>1, <1>2 DEF Item, Load, ElementAt
<1>6. QED BY <1>1, <1>3, <1>4, <1>5

Overwritten(m, v, block) == [m EXCEPT !.heap[m.vecs[v].data] = block]

LEMMA WriteKeeps ==
  ASSUME NEW m, Kept(m), NEW v \in DOMAIN m.vecs, m.vecs[v].data # Null,
         NEW block, DOMAIN block = 0 .. m.vecs[v].capacity - 1,
         NEW r, r = Overwritten(m, v, block)
  PROVE  /\ Kept(r) /\ OthersKept(m, r, v) /\ r.vecs = m.vecs
         /\ \A i \in 0 .. m.vecs[v].capacity - 1 : Item(r, v, i) = block[i]
<1> DEFINE b == m.vecs[v].data
<1>1. b \in DOMAIN m.heap
  BY DEF Kept
<1>2. /\ r = [heap |-> [m.heap EXCEPT ![b] = block], vecs |-> m.vecs]
      /\ r.vecs = m.vecs /\ DOMAIN r.heap = DOMAIN m.heap /\ r.heap[b] = block
      /\ \A c \in DOMAIN m.heap \ {b} : r.heap[c] = m.heap[c]
  BY <1>1 DEF Kept, Overwritten
<1>3. \A w \in DOMAIN m.vecs \ {v} : m.vecs[w].data # Null =>
         m.vecs[w].data \in DOMAIN m.heap \ {b}
  BY DEF Kept
<1>4. OthersKept(m, r, v)
  BY <1>2, <1>3 DEF OthersKept
<1>5. \A w \in DOMAIN r.vecs : r.vecs[w].data # Null =>
         DOMAIN r.heap[r.vecs[w].data] = 0 .. r.vecs[w].capacity - 1
  BY <1>2, <1>3 DEF Kept
<1>6. Kept(r)
  BY <1>2, <1>5 DEF Kept
<1>7. \A i \in 0 .. m.vecs[v].capacity - 1 : Item(r, v, i) = block[i]
  BY <1>1, <1>2 DEF Item, Load, ElementAt
<1>8. QED BY <1>2, <1>4, <1>6, <1>7

(* A set of naturals has a least element.                                  *)
LEMMA MinOfNaturals ==
  ASSUME NEW S, S \subseteq Nat, S # {}
  PROVE  Min(S) \in S /\ \A y \in S : Min(S) <= y
<1>1. PICK x \in S : \A y \in S : ~ <<y, x>> \in OpToRel(<, Nat)
  BY NatLessThanWellFounded, WFMin, Zenon
<1>2. \A y \in S : ~ (y < x)
  BY <1>1 DEF OpToRel
<1>3. \A y \in S : x <= y
  BY <1>2
<1>4. QED BY <1>3 DEF Min

(* malloc() returns a block that nobody has.                               *)
LEMMA FreshBlock ==
  ASSUME NEW m, Kept(m)
  PROVE  LET b == Min(Blocks \ DOMAIN m.heap) IN
         b \in Blocks /\ b \notin DOMAIN m.heap /\ b # Null
<1> DEFINE used == [v \in Vec |-> IF v \in DOMAIN m.vecs THEN m.vecs[v].data ELSE Null]
<1>1. used \in [Vec -> Blocks \cup {Null}]
  BY DEF Kept, VectorTyped
<1>2. PICK b \in Blocks : \A v \in Vec : b # used[v]
  BY <1>1, EnoughBlocks
<1>3. b \notin DOMAIN m.heap
  BY <1>2 DEF Kept
<1>4. Min(Blocks \ DOMAIN m.heap) \in Blocks \ DOMAIN m.heap
  <2> DEFINE S == Blocks \ DOMAIN m.heap
  <2>1. S # {} /\ S \subseteq Nat
    BY <1>3, EnoughBlocks
  <2> HIDE DEF S
  <2>2. Min(S) \in S
    BY <2>1, MinOfNaturals
  <2>3. QED BY <2>2 DEF S
<1>5. QED BY <1>4, VectorValues

LEMMA ReserveKeeps ==
  ASSUME NEW m, Kept(m), NEW v \in DOMAIN m.vecs, NEW n \in Nat, NEW r, r = Reserve(m, v, n)
  PROVE  /\ Kept(r) /\ OthersKept(m, r, v)
         /\ r.vecs[v].size = m.vecs[v].size
         /\ r.vecs[v].capacity = IF n <= m.vecs[v].capacity THEN m.vecs[v].capacity ELSE n
         /\ n <= m.vecs[v].capacity => r = m
         /\ \A i \in 0 .. m.vecs[v].size - 1 : Item(r, v, i) = Item(m, v, i)
<1> DEFINE old == m.vecs[v].data
           size == m.vecs[v].size
           cap == m.vecs[v].capacity
<1>0. size \in Nat /\ cap \in Nat /\ size <= cap /\ VectorTyped(m.vecs[v])
  BY DEF Kept, VectorTyped
<1>1. CASE n <= cap
  <2>1. Reserve(m, v, n) = m
    BY <1>1 DEF Reserve
  <2>2. QED BY <1>1, <2>1 DEF OthersKept
<1>2. CASE ~ (n <= cap)
  <2> DEFINE new == Min(Blocks \ DOMAIN m.heap)
             block == [i \in 0 .. n - 1 |-> IF i < size THEN Item(m, v, i) ELSE Garbage]
             grown == With(m.heap, new, block)
  <2>1. r = [heap |-> Restrict(grown, DOMAIN grown \ {old}),
             vecs |-> [m.vecs EXCEPT ![v].data = new, ![v].capacity = n]]
    BY <1>2 DEF Reserve, Free, Kept
  <2>2. new \in Blocks /\ new \notin DOMAIN m.heap /\ new # Null
    BY FreshBlock
  <2> HIDE DEF new, block
  <2>3. /\ DOMAIN grown = DOMAIN m.heap \cup {new}
        /\ grown[new] = block
        /\ \A c \in DOMAIN m.heap : grown[c] = m.heap[c]
    BY <2>2 DEF With
  <2> HIDE DEF grown
  <2>4. old \in DOMAIN m.heap \cup {Null}
    BY DEF Kept
  <2>5. /\ DOMAIN r.heap = (DOMAIN m.heap \ {old}) \cup {new}
        /\ r.heap[new] = block
        /\ \A c \in DOMAIN m.heap \ {old} : r.heap[c] = m.heap[c]
    BY <2>1, <2>2, <2>3, <2>4 DEF Restrict
  <2>6. /\ DOMAIN r.vecs = DOMAIN m.vecs
        /\ r.vecs[v] = [data |-> new, size |-> size, capacity |-> n]
        /\ \A w \in DOMAIN m.vecs \ {v} : r.vecs[w] = m.vecs[w]
    BY <1>0, <2>1 DEF VectorTyped
  <2>7. \A w \in DOMAIN m.vecs \ {v} : m.vecs[w].data # Null =>
           m.vecs[w].data \in DOMAIN m.heap \ {old}
    BY DEF Kept
  <2>8. OthersKept(m, r, v)
    BY <2>5, <2>6, <2>7 DEF OthersKept
  <2>9. Kept(r)
    <3>1. r = [heap |-> r.heap, vecs |-> r.vecs] /\ DOMAIN r.vecs \subseteq Vec
      BY <2>1, <2>6 DEF Kept
    <3>2. \A w \in DOMAIN r.vecs : VectorTyped(r.vecs[w])
      <4>1. VectorTyped(r.vecs[v])
        BY <1>0, <1>2, <2>2, <2>6 DEF VectorTyped
      <4>2. QED BY <4>1, <2>6 DEF Kept
    <3>3. DOMAIN r.heap = {r.vecs[w].data : w \in DOMAIN r.vecs} \ {Null}
      <4>1. DOMAIN m.heap = {m.vecs[w].data : w \in DOMAIN m.vecs} \ {Null}
        BY DEF Kept
      <4>2. \A w \in DOMAIN m.vecs \ {v} : r.vecs[w].data = m.vecs[w].data
        BY <2>6
      <4>3. r.vecs[v].data = new
        BY <2>6
      <4>4. DOMAIN r.vecs = DOMAIN m.vecs
        BY <2>6
      <4>5. DOMAIN r.heap = (DOMAIN m.heap \ {old}) \cup {new}
        BY <2>5
      <4>6. QED BY <4>1, <4>2, <4>3, <4>4, <4>5, <2>2, <2>7
    <3>4. \A w \in DOMAIN r.vecs : r.vecs[w].data # Null =>
             DOMAIN r.heap[r.vecs[w].data] = 0 .. r.vecs[w].capacity - 1
      <4>1. DOMAIN r.heap[r.vecs[v].data] = 0 .. r.vecs[v].capacity - 1
        BY <2>5, <2>6 DEF block
      <4>2. \A w \in DOMAIN m.vecs \ {v} : r.vecs[w].data # Null =>
               DOMAIN r.heap[r.vecs[w].data] = 0 .. r.vecs[w].capacity - 1
        BY <2>5, <2>6, <2>7 DEF Kept
      <4>3. QED BY <4>1, <4>2, <2>6
    <3>5. \A w, u \in DOMAIN r.vecs :
             w # u /\ r.vecs[w].data # Null => r.vecs[w].data # r.vecs[u].data
      BY <2>2, <2>6, <2>7 DEF Kept
    <3>6. QED BY <3>1, <3>2, <3>3, <3>4, <3>5 DEF Kept
  <2>10. \A i \in 0 .. size - 1 : Item(r, v, i) = Item(m, v, i)
    <3> SUFFICES ASSUME NEW i \in 0 .. size - 1 PROVE Item(r, v, i) = Item(m, v, i)
      OBVIOUS
    <3>1. i \in 0 .. n - 1 /\ i < size
      BY <1>0, <1>2
    <3>2. i \in DOMAIN r.heap[new] /\ r.heap[new][i] = Item(m, v, i)
      BY <3>1, <2>5 DEF block
    <3>3. r.vecs[v].data = new /\ new \in DOMAIN r.heap
      BY <2>5, <2>6
    <3>4. QED BY <3>2, <3>3, <2>2 DEF Item, Load, ElementAt
  <2>11. QED BY <1>2, <2>1, <2>6, <2>8, <2>9, <2>10
<1>3. QED BY <1>1, <1>2

-----------------------------------------------------------------------------
(* Elements moved one after the other.                                     *)
AfterMoves(f, block, moves) ==
  [k \in 0 .. Len(moves) |->
     IF k = 0 THEN block ELSE [f[k - 1] EXCEPT ![moves[k][1]] = f[k - 1][moves[k][2]]]]

(* What satisfies the recursion is what it defines.                        *)
LEMMA MovedBy ==
  ASSUME NEW block, NEW moves, Len(moves) \in Nat, NEW g, g = AfterMoves(g, block, moves)
  PROVE  Moved(block, moves) = g[Len(moves)]
<1> DEFINE f == CHOOSE h : h = AfterMoves(h, block, moves)
           L == Len(moves)
<1>1. f = AfterMoves(f, block, moves)
  OBVIOUS
<1>2. Moved(block, moves) = f[L]
  BY Zenon DEF Moved, AfterMoves
<1> HIDE DEF f
<1>3. \A k \in 0 .. L : f[k] = g[k]
  <2> DEFINE B == {k \in 0 .. L : f[k] # g[k]}
  <2>1. SUFFICES ASSUME B # {} PROVE FALSE
    OBVIOUS
  <2>2. B \subseteq Nat
    OBVIOUS
  <2> DEFINE k == Min(B)
  <2>3. k \in B /\ \A y \in B : k <= y
    <3> HIDE DEF B
    <3>1. QED BY <2>1, <2>2, MinOfNaturals
  <2> HIDE DEF k
  <2>4. k \in 0 .. L /\ f[k] # g[k]
    BY <2>3
  <2>5. k # 0
    BY <2>4, <1>1 DEF AfterMoves
  <2>6. k - 1 \in 0 .. L /\ k - 1 \notin B
    BY <2>3, <2>4, <2>5
  <2>7. f[k - 1] = g[k - 1]
    BY <2>6
  <2>8. f[k] = [f[k - 1] EXCEPT ![moves[k][1]] = f[k - 1][moves[k][2]]]
    BY <1>1, <2>4, <2>5 DEF AfterMoves
  <2>9. g[k] = [g[k - 1] EXCEPT ![moves[k][1]] = g[k - 1][moves[k][2]]]
    BY <2>4, <2>5 DEF AfterMoves
  <2>10. QED BY <2>4, <2>7, <2>8, <2>9
<1>4. QED BY <1>2, <1>3

(* The elements behind i come down by one.                                 *)
IsDown(r, block, cap, n, i) ==
  /\ DOMAIN r = 0 .. cap - 1
  /\ \A j \in 0 .. cap - 1 : r[j] = IF j \in i .. n - 2 THEN block[j + 1] ELSE block[j]

DownMoves(n, i) == [k \in 1 .. n - 1 - i |-> <<i + k - 1, i + k>>]

LEMMA MovedDown ==
  ASSUME NEW block, NEW cap \in Nat, DOMAIN block = 0 .. cap - 1,
         NEW n \in 1 .. cap, NEW i \in 0 .. n - 1, NEW r, r = Moved(block, DownMoves(n, i))
  PROVE  IsDown(r, block, cap, n, i)
<1> DEFINE moves == DownMoves(n, i)
           Down(k) == [j \in 0 .. cap - 1 |-> IF j \in i .. i + k - 1 THEN block[j + 1] ELSE block[j]]
           g == [k \in 0 .. n - 1 - i |-> IF k = 0 THEN block ELSE Down(k)]
<1>1. Len(moves) = n - 1 - i /\ n - 1 - i \in Nat
  BY DEF DownMoves
<1>2. \A k \in 1 .. n - 1 - i : moves[k][1] = i + k - 1 /\ moves[k][2] = i + k
  BY DEF DownMoves
<1>3. \A k \in 0 .. n - 1 - i : DOMAIN g[k] = 0 .. cap - 1
  OBVIOUS
<1>4. \A k \in 1 .. n - 1 - i : g[k] = [g[k - 1] EXCEPT ![i + k - 1] = g[k - 1][i + k]]
  <2> SUFFICES ASSUME NEW k \in 1 .. n - 1 - i
               PROVE  g[k] = [g[k - 1] EXCEPT ![i + k - 1] = g[k - 1][i + k]]
    OBVIOUS
  <2>1. k - 1 \in 0 .. n - 1 - i /\ DOMAIN g[k - 1] = 0 .. cap - 1 /\ g[k] = Down(k)
    BY <1>3
  <2>2. \A j \in 0 .. cap - 1 : g[k - 1][j] = IF j \in i .. i + k - 2 THEN block[j + 1] ELSE block[j]
    BY <2>1
  <2>3. i + k \in 0 .. cap - 1 /\ i + k - 1 \in 0 .. cap - 1 /\ g[k - 1][i + k] = block[i + k]
    BY <2>2
  <2> DEFINE h == g[k - 1]
  <2> HIDE DEF g
  <2>4. [h EXCEPT ![i + k - 1] = h[i + k]] =
        [j \in 0 .. cap - 1 |-> IF j = i + k - 1 THEN block[i + k] ELSE h[j]]
    BY <2>1, <2>3
  <2>5. \A j \in 0 .. cap - 1 : (IF j = i + k - 1 THEN block[i + k] ELSE h[j]) = Down(k)[j]
    <3> SUFFICES ASSUME NEW j \in 0 .. cap - 1
                 PROVE  (IF j = i + k - 1 THEN block[i + k] ELSE h[j]) = Down(k)[j]
      OBVIOUS
    <3>1. CASE j = i + k - 1
      <4>1. j + 1 = i + k /\ j \in i .. i + k - 1
        BY <3>1
      <4>2. QED BY <3>1, <4>1
    <3>2. CASE j # i + k - 1
      <4>1. j \in i .. i + k - 1 <=> j \in i .. i + k - 2
        BY <3>2
      <4>2. QED BY <3>2, <4>1, <2>2
    <3>3. QED BY <3>1, <3>2
  <2>6. QED BY <2>1, <2>4, <2>5
<1>5. g = AfterMoves(g, block, moves)
  <2>1. AfterMoves(g, block, moves) =
        [k \in 0 .. n - 1 - i |-> IF k = 0 THEN block ELSE [g[k - 1] EXCEPT ![i + k - 1] = g[k - 1][i + k]]]
    <3> HIDE DEF g
    <3>1. QED BY <1>1, <1>2 DEF AfterMoves
  <2>2. \A k \in 0 .. n - 1 - i : g[k] = AfterMoves(g, block, moves)[k]
    <3>1. g[0] = block
      OBVIOUS
    <3> HIDE DEF g
    <3>2. \A k \in 0 .. n - 1 - i : k = 0 \/ k \in 1 .. n - 1 - i
      OBVIOUS
    <3>3. QED BY <2>1, <1>4, <3>1, <3>2
  <2>3. DOMAIN g = 0 .. n - 1 - i /\ DOMAIN AfterMoves(g, block, moves) = 0 .. n - 1 - i
    BY <2>1
  <2>4. QED BY <2>1, <2>2, <2>3
<1>6. Moved(block, moves) = g[n - 1 - i]
  <2> HIDE DEF g, moves
  <2>1. QED BY <1>1, <1>5, MovedBy
<1>7. \A j \in 0 .. cap - 1 : g[n - 1 - i][j] = IF j \in i .. n - 2 THEN block[j + 1] ELSE block[j]
  OBVIOUS
<1>8. n - 1 - i \in 0 .. n - 1 - i
  OBVIOUS
<1> HIDE DEF g
<1>9. QED BY <1>3, <1>6, <1>7, <1>8 DEF IsDown

(* The elements from i on go up by one, the last one first.                *)
IsUp(r, block, cap, n, i) ==
  /\ DOMAIN r = 0 .. cap - 1
  /\ \A j \in 0 .. cap - 1 : r[j] = IF j \in i + 1 .. n THEN block[j - 1] ELSE block[j]

UpMoves(n, i) == [k \in 1 .. n - i |-> <<n + 1 - k, n - k>>]

LEMMA MovedUp ==
  ASSUME NEW block, NEW cap \in Nat, DOMAIN block = 0 .. cap - 1,
         NEW n \in 0 .. cap - 1, NEW i \in 0 .. n, NEW r, r = Moved(block, UpMoves(n, i))
  PROVE  IsUp(r, block, cap, n, i)
<1> DEFINE moves == UpMoves(n, i)
           Up(k) == [j \in 0 .. cap - 1 |-> IF j \in n + 1 - k .. n THEN block[j - 1] ELSE block[j]]
           g == [k \in 0 .. n - i |-> IF k = 0 THEN block ELSE Up(k)]
<1>1. Len(moves) = n - i /\ n - i \in Nat
  BY DEF UpMoves
<1>2. \A k \in 1 .. n - i : moves[k][1] = n + 1 - k /\ moves[k][2] = n - k
  BY DEF UpMoves
<1>3. \A k \in 0 .. n - i : DOMAIN g[k] = 0 .. cap - 1
  OBVIOUS
<1>4. \A k \in 1 .. n - i : g[k] = [g[k - 1] EXCEPT ![n + 1 - k] = g[k - 1][n - k]]
  <2> SUFFICES ASSUME NEW k \in 1 .. n - i
               PROVE  g[k] = [g[k - 1] EXCEPT ![n + 1 - k] = g[k - 1][n - k]]
    OBVIOUS
  <2>1. k - 1 \in 0 .. n - i /\ DOMAIN g[k - 1] = 0 .. cap - 1 /\ g[k] = Up(k)
    BY <1>3
  <2>2. \A j \in 0 .. cap - 1 : g[k - 1][j] = IF j \in n + 2 - k .. n THEN block[j - 1] ELSE block[j]
    BY <2>1
  <2>3. n - k \in 0 .. cap - 1 /\ n + 1 - k \in 0 .. cap - 1 /\ g[k - 1][n - k] = block[n - k]
    BY <2>2
  <2> DEFINE h == g[k - 1]
  <2> HIDE DEF g
  <2>4. [h EXCEPT ![n + 1 - k] = h[n - k]] =
        [j \in 0 .. cap - 1 |-> IF j = n + 1 - k THEN block[n - k] ELSE h[j]]
    BY <2>1, <2>3
  <2>5. \A j \in 0 .. cap - 1 : (IF j = n + 1 - k THEN block[n - k] ELSE h[j]) = Up(k)[j]
    <3> SUFFICES ASSUME NEW j \in 0 .. cap - 1
                 PROVE  (IF j = n + 1 - k THEN block[n - k] ELSE h[j]) = Up(k)[j]
      OBVIOUS
    <3>1. CASE j = n + 1 - k
      <4>1. j - 1 = n - k /\ j \in n + 1 - k .. n
        BY <3>1
      <4>2. QED BY <3>1, <4>1
    <3>2. CASE j # n + 1 - k
      <4>1. j \in n + 1 - k .. n <=> j \in n + 2 - k .. n
        BY <3>2
      <4>2. QED BY <3>2, <4>1, <2>2
    <3>3. QED BY <3>1, <3>2
  <2>6. QED BY <2>1, <2>4, <2>5
<1>5. g = AfterMoves(g, block, moves)
  <2>1. AfterMoves(g, block, moves) =
        [k \in 0 .. n - i |-> IF k = 0 THEN block ELSE [g[k - 1] EXCEPT ![n + 1 - k] = g[k - 1][n - k]]]
    <3> HIDE DEF g, moves
    <3>1. \A k \in 0 .. n - i : k = 0 \/ k \in 1 .. n - i
      OBVIOUS
    <3>2. QED BY <1>1, <1>2, <3>1 DEF AfterMoves
  <2>2. \A k \in 0 .. n - i : g[k] = AfterMoves(g, block, moves)[k]
    <3>1. g[0] = block
      OBVIOUS
    <3> HIDE DEF g
    <3>2. \A k \in 0 .. n - i : k = 0 \/ k \in 1 .. n - i
      OBVIOUS
    <3>3. QED BY <2>1, <1>4, <3>1, <3>2
  <2>3. DOMAIN g = 0 .. n - i /\ DOMAIN AfterMoves(g, block, moves) = 0 .. n - i
    BY <2>1
  <2>4. QED BY <2>1, <2>2, <2>3
<1>6. Moved(block, moves) = g[n - i]
  <2> HIDE DEF g, moves
  <2>1. QED BY <1>1, <1>5, MovedBy
<1>7. \A j \in 0 .. cap - 1 : g[n - i][j] = IF j \in i + 1 .. n THEN block[j - 1] ELSE block[j]
  <2>1. g[n - i] = IF n - i = 0 THEN block ELSE Up(n - i)
    OBVIOUS
  <2>2. n + 1 - (n - i) = i + 1
    OBVIOUS
  <2> HIDE DEF g
  <2>3. CASE n - i = 0
    BY <2>1, <2>3
  <2>4. CASE n - i # 0
    BY <2>1, <2>2, <2>4
  <2>5. QED BY <2>3, <2>4
<1>8. n - i \in 0 .. n - i
  OBVIOUS
<1> HIDE DEF g
<1>9. QED BY <1>3, <1>6, <1>7, <1>8 DEF IsUp

-----------------------------------------------------------------------------
(* Each call, read off its steps: what it leaves in its vector.            *)
Leaves(m, r, v, n, items) ==
  /\ Kept(r) /\ OthersKept(m, r, v)
  /\ r.vecs[v].size = n
  /\ \A i \in 0 .. n - 1 : Item(r, v, i) = items[i]

LEMMA OthersKeptTwice ==
  ASSUME NEW m, NEW r, NEW s, NEW v, OthersKept(m, r, v), OthersKept(r, s, v)
  PROVE  OthersKept(m, s, v)
BY DEF OthersKept

LEMMA SizeFits ==
  ASSUME NEW m, Kept(m), NEW v \in DOMAIN m.vecs
  PROVE  /\ m.vecs[v].size \in Nat /\ m.vecs[v].capacity \in Nat
         /\ m.vecs[v].size <= m.vecs[v].capacity
         /\ m.vecs[v].capacity > 0 => m.vecs[v].data # Null
BY DEF Kept, VectorTyped

LEMMA SetItemKeeps ==
  ASSUME NEW m, Kept(m), NEW v \in DOMAIN m.vecs, NEW i \in 0 .. m.vecs[v].capacity - 1, NEW x,
         NEW r, r = SetItem(m, v, i, x)
  PROVE  /\ Kept(r) /\ OthersKept(m, r, v) /\ r.vecs = m.vecs
         /\ \A j \in 0 .. m.vecs[v].capacity - 1 : Item(r, v, j) = IF j = i THEN x ELSE Item(m, v, j)
<1>1. /\ m.vecs[v].data # Null /\ m.vecs[v].data \in DOMAIN m.heap
      /\ DOMAIN m.heap[m.vecs[v].data] = 0 .. m.vecs[v].capacity - 1
  BY SizeFits DEF Kept
<1>2. PICK block : block = [m.heap[m.vecs[v].data] EXCEPT ![i] = x]
  OBVIOUS
<1>3. r = Overwritten(m, v, block)
  BY <1>2 DEF SetItem, Overwritten
<1>4. DOMAIN block = 0 .. m.vecs[v].capacity - 1
  BY <1>1, <1>2
<1>5. \A j \in 0 .. m.vecs[v].capacity - 1 : block[j] = IF j = i THEN x ELSE Item(m, v, j)
  BY <1>1, <1>2 DEF Item, Load, ElementAt
<1>6. /\ Kept(r) /\ OthersKept(m, r, v) /\ r.vecs = m.vecs
      /\ \A j \in 0 .. m.vecs[v].capacity - 1 : Item(r, v, j) = block[j]
  <2>1. m.vecs[v].data # Null
    BY <1>1
  <2>2. Kept(r)
    BY <2>1, <1>3, <1>4, WriteKeeps
  <2>3. OthersKept(m, r, v)
    BY <2>1, <1>3, <1>4, WriteKeeps
  <2>4. r.vecs = m.vecs
    BY <2>1, <1>3, <1>4, WriteKeeps
  <2>5. \A j \in 0 .. m.vecs[v].capacity - 1 : Item(r, v, j) = block[j]
    BY <1>1, <1>3, <1>4 DEF Overwritten, Item, Load, ElementAt
  <2>6. QED BY <2>2, <2>3, <2>4, <2>5
<1>7. QED BY <1>5, <1>6

(* A vector that is full grows: there is room for one element more.        *)
LEMMA GrowKeeps ==
  ASSUME NEW m, Kept(m), NEW v \in DOMAIN m.vecs, NEW g, g = IF Full(m, v) THEN Grow(m, v) ELSE m
  PROVE  /\ Kept(g) /\ OthersKept(m, g, v)
         /\ g.vecs[v].size = m.vecs[v].size
         /\ m.vecs[v].size + 1 <= g.vecs[v].capacity
         /\ m.vecs[v].size + 1 <= m.vecs[v].capacity => g = m
         /\ \A i \in 0 .. m.vecs[v].size - 1 : Item(g, v, i) = Item(m, v, i)
<1> DEFINE cap == m.vecs[v].capacity
           n == IF cap = 0 THEN FirstCapacity ELSE cap * 2
<1>0. m.vecs[v].size \in Nat /\ cap \in Nat /\ m.vecs[v].size <= cap
  BY SizeFits
<1>1. CASE Full(m, v)
  <2>1. n \in Nat /\ n > cap /\ m.vecs[v].size = cap
    BY <1>0, <1>1, VectorBounds DEF Full
  <2>2. Grow(m, v) = Reserve(m, v, n)
    BY DEF Grow
  <2> HIDE DEF n
  <2>3. QED BY <1>0, <1>1, <2>1, <2>2, ReserveKeeps
<1>2. CASE ~ Full(m, v)
  BY <1>0, <1>2 DEF Full, OthersKept
<1>3. QED BY <1>1, <1>2

(* The last step of a call sets the size.                                  *)
LEMMA SizedLeaves ==
  ASSUME NEW m, NEW v \in DOMAIN m.vecs, NEW s, Kept(s), OthersKept(m, s, v),
         NEW n \in 0 .. s.vecs[v].capacity,
         NEW items, \A i \in 0 .. n - 1 : Item(s, v, i) = items[i],
         NEW r, r = SetSize(s, v, n)
  PROVE  Leaves(m, r, v, n, items) /\ r.vecs[v].data = s.vecs[v].data
<1>1. v \in DOMAIN s.vecs
  BY DEF OthersKept
<1>2. /\ Kept(r) /\ OthersKept(s, r, v) /\ r.vecs[v] = [s.vecs[v] EXCEPT !.size = n]
      /\ \A i : Item(r, v, i) = Item(s, v, i)
  BY <1>1, SetSizeKeeps
<1>3. r.vecs[v].size = n /\ r.vecs[v].data = s.vecs[v].data
  BY <1>1, <1>2 DEF Kept, VectorTyped
<1>4. OthersKept(m, r, v)
  BY <1>2, OthersKeptTwice
<1>5. QED BY <1>2, <1>3, <1>4 DEF Leaves

(* Its step before writes the block.                                       *)
LEMMA WrittenLeaves ==
  ASSUME NEW m, NEW v \in DOMAIN m.vecs, NEW s, Kept(s), OthersKept(m, s, v),
         NEW n \in 0 .. s.vecs[v].capacity, s.vecs[v].capacity > 0,
         NEW block, DOMAIN block = 0 .. s.vecs[v].capacity - 1,
         NEW items, \A i \in 0 .. n - 1 : block[i] = items[i],
         NEW r, r = SetSize(Overwritten(s, v, block), v, n)
  PROVE  Leaves(m, r, v, n, items) /\ r.vecs[v].data = s.vecs[v].data
<1>1. v \in DOMAIN s.vecs /\ s.vecs[v].data # Null /\ s.vecs[v].capacity \in Nat
  BY SizeFits DEF OthersKept
<1>2. PICK w : w = Overwritten(s, v, block)
  OBVIOUS
<1>3. /\ Kept(w) /\ OthersKept(s, w, v) /\ w.vecs = s.vecs
      /\ \A i \in 0 .. s.vecs[v].capacity - 1 : Item(w, v, i) = block[i]
  BY <1>1, <1>2, WriteKeeps
<1>4. OthersKept(m, w, v)
  BY <1>3, OthersKeptTwice
<1>5. \A i \in 0 .. n - 1 : Item(w, v, i) = items[i]
  BY <1>1, <1>3
<1>6. Leaves(m, r, v, n, items) /\ r.vecs[v].data = w.vecs[v].data
  BY <1>2, <1>3, <1>4, <1>5, SizedLeaves
<1>7. QED BY <1>3, <1>6

(* What push_back() leaves.                                                *)
Pushed(m, v, a, n) == [i \in 0 .. n |-> IF i = n THEN Load(m, a) ELSE Item(m, v, i)]

LEMMA PushBackLeaves ==
  ASSUME NEW m, Kept(m), NEW v \in DOMAIN m.vecs, NEW a, NEW n, n = m.vecs[v].size,
         NEW r, r = PushBack(m, v, a)
  PROVE  /\ Leaves(m, r, v, n + 1, Pushed(m, v, a, n))
         /\ n + 1 <= m.vecs[v].capacity => r.vecs[v].data = m.vecs[v].data
<1>1. n \in Nat
  BY SizeFits
<1>2. PICK g : g = IF Full(m, v) THEN Grow(m, v) ELSE m
  OBVIOUS
<1>3. PICK x : x = Load(m, a)
  OBVIOUS
<1>4. PICK s : s = SetItem(g, v, n, x)
  OBVIOUS
<1>5. PICK items : items = [i \in 0 .. n |-> IF i = n THEN x ELSE Item(m, v, i)]
  OBVIOUS
<1>6. r = SetSize(s, v, n + 1)
  BY <1>2, <1>3, <1>4 DEF PushBack
<1>7. /\ Kept(g) /\ OthersKept(m, g, v) /\ n + 1 <= g.vecs[v].capacity
      /\ n + 1 <= m.vecs[v].capacity => g = m
      /\ \A i \in 0 .. n - 1 : Item(g, v, i) = Item(m, v, i)
  BY <1>2, GrowKeeps
<1>8. v \in DOMAIN g.vecs /\ n \in 0 .. g.vecs[v].capacity - 1 /\ g.vecs[v].capacity \in Nat
  <2>1. v \in DOMAIN g.vecs
    BY <1>7 DEF OthersKept
  <2>2. QED BY <1>1, <1>7, <2>1, SizeFits
<1>9. /\ Kept(s) /\ OthersKept(g, s, v) /\ s.vecs = g.vecs
      /\ \A i \in 0 .. g.vecs[v].capacity - 1 : Item(s, v, i) = IF i = n THEN x ELSE Item(g, v, i)
  BY <1>4, <1>7, <1>8, SetItemKeeps
<1>10. OthersKept(m, s, v)
  BY <1>7, <1>9, OthersKeptTwice
<1>11. \A i \in 0 .. (n + 1) - 1 : Item(s, v, i) = items[i]
  <2>1. \A i \in 0 .. (n + 1) - 1 : i \in 0 .. g.vecs[v].capacity - 1 /\ i \in 0 .. n /\ (i = n \/ i \in 0 .. n - 1)
    BY <1>1, <1>8
  <2>2. QED BY <2>1, <1>5, <1>7, <1>9
<1>12. n + 1 \in 0 .. s.vecs[v].capacity
  BY <1>1, <1>7, <1>8, <1>9
<1>13. Leaves(m, r, v, n + 1, items) /\ r.vecs[v].data = s.vecs[v].data
  BY <1>6, <1>9, <1>10, <1>11, <1>12, SizedLeaves
<1>14. QED BY <1>3, <1>5, <1>7, <1>9, <1>13 DEF Pushed

(* A size set within the old one: pop_back(), clear().                     *)
LEMMA ShrinkLeaves ==
  ASSUME NEW m, Kept(m), NEW v \in DOMAIN m.vecs, NEW n \in 0 .. m.vecs[v].size,
         NEW r, r = SetSize(m, v, n)
  PROVE  Leaves(m, r, v, n, [i \in 0 .. n - 1 |-> Item(m, v, i)]) /\ r.vecs[v].data = m.vecs[v].data
<1>1. m.vecs[v].size \in Nat /\ n \in 0 .. m.vecs[v].capacity
  BY SizeFits
<1>2. PICK items : items = [i \in 0 .. n - 1 |-> Item(m, v, i)]
  OBVIOUS
<1>3. OthersKept(m, m, v)
  BY DEF OthersKept
<1>4. \A i \in 0 .. n - 1 : Item(m, v, i) = items[i]
  BY <1>2
<1>5. Leaves(m, r, v, n, items) /\ r.vecs[v].data = m.vecs[v].data
  BY <1>1, <1>3, <1>4, SizedLeaves
<1>6. QED BY <1>2, <1>5

LEMMA ReserveLeaves ==
  ASSUME NEW m, Kept(m), NEW v \in DOMAIN m.vecs, NEW n \in Nat,
         NEW r, r = Reserve(m, v, n)
  PROVE  /\ Leaves(m, r, v, m.vecs[v].size, [i \in 0 .. m.vecs[v].size - 1 |-> Item(m, v, i)])
         /\ n <= m.vecs[v].capacity => r.vecs[v].data = m.vecs[v].data
<1>1. /\ Kept(r) /\ OthersKept(m, r, v)
      /\ r.vecs[v].size = m.vecs[v].size
      /\ n <= m.vecs[v].capacity => r = m
      /\ \A i \in 0 .. m.vecs[v].size - 1 : Item(r, v, i) = Item(m, v, i)
  BY ReserveKeeps
<1>2. QED BY <1>1 DEF Leaves

(* resize() upwards: the elements are kept and the new ones are x.         *)
Filled(m, v, n, x) == [i \in 0 .. n - 1 |-> IF i < m.vecs[v].size THEN Item(m, v, i) ELSE x]

LEMMA FillLeaves ==
  ASSUME NEW m, Kept(m), NEW v \in DOMAIN m.vecs, NEW n \in Nat, n > m.vecs[v].size, NEW x,
         NEW r, r = SetSize(Fill(Reserve(m, v, n), v, n, x), v, n)
  PROVE  /\ Leaves(m, r, v, n, Filled(m, v, n, x))
         /\ n <= m.vecs[v].capacity => r.vecs[v].data = m.vecs[v].data
<1>1. PICK size : size = m.vecs[v].size
  OBVIOUS
<1>2. PICK s : s = Reserve(m, v, n)
  OBVIOUS
<1>3. /\ Kept(s) /\ OthersKept(m, s, v) /\ s.vecs[v].size = size /\ n <= s.vecs[v].capacity
      /\ n <= m.vecs[v].capacity => s = m
      /\ \A i \in 0 .. size - 1 : Item(s, v, i) = Item(m, v, i)
  BY <1>1, <1>2, ReserveKeeps, SizeFits
<1>4. v \in DOMAIN s.vecs
  BY <1>3 DEF OthersKept
<1>5. s.vecs[v].capacity \in Nat /\ s.vecs[v].capacity > 0 /\ s.vecs[v].data # Null /\ size \in Nat
  BY <1>1, <1>3, <1>4, SizeFits
<1>6. PICK old : old = s.heap[s.vecs[v].data]
  OBVIOUS
<1>7. s.vecs[v].data \in DOMAIN s.heap /\ DOMAIN old = 0 .. s.vecs[v].capacity - 1
  BY <1>3, <1>4, <1>5, <1>6 DEF Kept
<1>8. PICK block : block = [i \in 0 .. s.vecs[v].capacity - 1 |-> IF i \in size .. n - 1 THEN x ELSE old[i]]
  OBVIOUS
<1>9. Fill(s, v, n, x) = Overwritten(s, v, block)
  BY <1>3, <1>6, <1>7, <1>8 DEF Fill, Overwritten
<1>10. PICK items : items = [i \in 0 .. n - 1 |-> IF i < size THEN Item(m, v, i) ELSE x]
  OBVIOUS
<1>11. \A i \in 0 .. n - 1 : block[i] = items[i]
  <2> SUFFICES ASSUME NEW i \in 0 .. n - 1 PROVE block[i] = items[i]
    OBVIOUS
  <2>1. i \in 0 .. s.vecs[v].capacity - 1
    BY <1>3, <1>5
  <2>2. CASE i < size
    <3>1. i \in 0 .. size - 1 /\ i \notin size .. n - 1
      BY <2>2, <1>5
    <3>2. Item(s, v, i) = old[i]
      BY <2>1, <1>5, <1>6, <1>7 DEF Item, Load, ElementAt
    <3>3. QED BY <3>1, <3>2, <2>1, <2>2, <1>3, <1>8, <1>10
  <2>3. CASE ~ (i < size)
    BY <2>1, <2>3, <1>5, <1>8, <1>10
  <2>4. QED BY <2>2, <2>3
<1>12. n \in 0 .. s.vecs[v].capacity /\ DOMAIN block = 0 .. s.vecs[v].capacity - 1
  BY <1>3, <1>5, <1>8
<1>13. r = SetSize(Overwritten(s, v, block), v, n)
  BY <1>2, <1>9
<1>14. Leaves(m, r, v, n, items) /\ r.vecs[v].data = s.vecs[v].data
  BY <1>3, <1>5, <1>11, <1>12, <1>13, WrittenLeaves
<1>15. QED BY <1>1, <1>3, <1>10, <1>14 DEF Filled

(* erase(): the elements behind i come down by one.                        *)
LEMMA EraseLeaves ==
  ASSUME NEW m, Kept(m), NEW v \in DOMAIN m.vecs, NEW n, n = m.vecs[v].size,
         NEW i \in 0 .. n - 1, NEW r, r = Erase(m, v, i)
  PROVE  /\ Leaves(m, r, v, n - 1, [j \in 0 .. n - 2 |-> IF j < i THEN Item(m, v, j) ELSE Item(m, v, j + 1)])
         /\ r.vecs[v].data = m.vecs[v].data
<1>1. PICK cap : cap = m.vecs[v].capacity
  OBVIOUS
<1>2. n \in Nat /\ cap \in Nat /\ n \in 1 .. cap /\ m.vecs[v].data # Null
  BY <1>1, SizeFits
<1>3. PICK old : old = m.heap[m.vecs[v].data]
  OBVIOUS
<1>4. m.vecs[v].data \in DOMAIN m.heap /\ DOMAIN old = 0 .. cap - 1
  BY <1>1, <1>2, <1>3 DEF Kept
<1>5. PICK block : block = Moved(old, DownMoves(n, i))
  OBVIOUS
<1>6. /\ DOMAIN block = 0 .. cap - 1
      /\ \A j \in 0 .. cap - 1 : block[j] = IF j \in i .. n - 2 THEN old[j + 1] ELSE old[j]
  <2>1. IsDown(block, old, cap, n, i)
    BY <1>2, <1>4, <1>5, MovedDown
  <2>2. QED BY <2>1 DEF IsDown
<1>7. r = SetSize(Overwritten(m, v, block), v, n - 1)
  BY <1>3, <1>5 DEF Erase, Move, Overwritten, DownMoves
<1>8. \A j \in 0 .. cap - 1 : Item(m, v, j) = old[j]
  BY <1>2, <1>3, <1>4 DEF Item, Load, ElementAt
<1>9. PICK items : items = [j \in 0 .. n - 2 |-> IF j < i THEN Item(m, v, j) ELSE Item(m, v, j + 1)]
  OBVIOUS
<1>10. \A j \in 0 .. (n - 1) - 1 : block[j] = items[j]
  <2> SUFFICES ASSUME NEW j \in 0 .. (n - 1) - 1 PROVE block[j] = items[j]
    OBVIOUS
  <2>1. j \in 0 .. cap - 1 /\ j + 1 \in 0 .. cap - 1 /\ j \in 0 .. n - 2
    BY <1>2
  <2>2. j \in i .. n - 2 <=> ~ (j < i)
    BY <2>1, <1>2
  <2>3. QED BY <2>1, <2>2, <1>6, <1>8, <1>9
<1>11. OthersKept(m, m, v)
  BY DEF OthersKept
<1>12. n - 1 \in 0 .. m.vecs[v].capacity /\ m.vecs[v].capacity > 0
       /\ DOMAIN block = 0 .. m.vecs[v].capacity - 1
  BY <1>1, <1>2, <1>6
<1>13. Leaves(m, r, v, n - 1, items) /\ r.vecs[v].data = m.vecs[v].data
  <2>1. PICK k : k = n - 1
    OBVIOUS
  <2>2. k \in 0 .. m.vecs[v].capacity /\ r = SetSize(Overwritten(m, v, block), v, k)
    BY <2>1, <1>7, <1>12
  <2>3. \A j \in 0 .. k - 1 : block[j] = items[j]
    BY <2>1, <1>10
  <2>4. Leaves(m, r, v, k, items)
    BY <2>2, <2>3, <1>11, <1>12, WrittenLeaves
  <2>5. r.vecs[v].data = m.vecs[v].data
    BY <2>2, <2>3, <1>11, <1>12, WrittenLeaves
  <2>6. QED BY <2>1, <2>4, <2>5
<1>14. QED BY <1>9, <1>13

(* insert(): those from i on go up by one, and x takes the place.          *)
LEMMA InsertLeaves ==
  ASSUME NEW m, Kept(m), NEW v \in DOMAIN m.vecs, NEW n, n = m.vecs[v].size,
         NEW i \in 0 .. n, NEW a, NEW r, r = Insert(m, v, i, a)
  PROVE  Leaves(m, r, v, n + 1,
                [j \in 0 .. n |-> IF j < i THEN Item(m, v, j) ELSE IF j = i THEN Load(m, a) ELSE Item(m, v, j - 1)])
<1>1. n \in Nat
  BY SizeFits
<1>2. PICK g : g = IF Full(m, v) THEN Grow(m, v) ELSE m
  OBVIOUS
<1>3. PICK x : x = Load(m, a)
  OBVIOUS
<1>4. /\ Kept(g) /\ OthersKept(m, g, v) /\ n + 1 <= g.vecs[v].capacity
      /\ \A j \in 0 .. n - 1 : Item(g, v, j) = Item(m, v, j)
  BY <1>2, GrowKeeps
<1>5. PICK cap : cap = g.vecs[v].capacity
  OBVIOUS
<1>6. v \in DOMAIN g.vecs
  BY <1>4 DEF OthersKept
<1>7. cap \in Nat /\ n \in 0 .. cap - 1 /\ i \in 0 .. cap - 1 /\ g.vecs[v].data # Null
  BY <1>1, <1>4, <1>5, <1>6, SizeFits
<1>8. PICK old : old = g.heap[g.vecs[v].data]
  OBVIOUS
<1>9. g.vecs[v].data \in DOMAIN g.heap /\ DOMAIN old = 0 .. cap - 1
  BY <1>4, <1>5, <1>6, <1>7, <1>8 DEF Kept
<1>10. PICK up : up = Moved(old, UpMoves(n, i))
  OBVIOUS
<1>11. /\ DOMAIN up = 0 .. cap - 1
       /\ \A j \in 0 .. cap - 1 : up[j] = IF j \in i + 1 .. n THEN old[j - 1] ELSE old[j]
  <2>1. cap \in Nat /\ DOMAIN old = 0 .. cap - 1 /\ n \in 0 .. cap - 1 /\ i \in 0 .. n
    BY <1>7, <1>9
  <2>2. IsUp(up, old, cap, n, i)
    BY <2>1, <1>10, MovedUp
  <2>3. QED BY <2>2 DEF IsUp
<1>12. PICK block : block = [up EXCEPT ![i] = x]
  OBVIOUS
<1>13. /\ DOMAIN block = 0 .. cap - 1
       /\ \A j \in 0 .. cap - 1 : block[j] = IF j = i THEN x ELSE up[j]
  BY <1>7, <1>11, <1>12
<1>14. SetItem(Move(g, v, UpMoves(n, i)), v, i, x) = Overwritten(g, v, block)
  <2>2. PICK h : h = Move(g, v, UpMoves(n, i))
    OBVIOUS
  <2>3. h = [g EXCEPT !.heap[g.vecs[v].data] = up]
    BY <2>2, <1>8, <1>10 DEF Move
  <2>4. /\ g = [heap |-> g.heap, vecs |-> g.vecs]
        /\ h = [heap |-> [g.heap EXCEPT ![g.vecs[v].data] = up], vecs |-> g.vecs]
        /\ h.vecs = g.vecs /\ h.heap = [g.heap EXCEPT ![g.vecs[v].data] = up]
    BY <1>4, <2>3 DEF Kept
  <2>5. h.heap[g.vecs[v].data] = up
    BY <1>9, <2>4
  <2>6. SetItem(h, v, i, x) = [h EXCEPT !.heap[g.vecs[v].data] = block]
    BY <1>12, <2>4, <2>5 DEF SetItem
  <2>7. SetItem(h, v, i, x) = [heap |-> [h.heap EXCEPT ![g.vecs[v].data] = block], vecs |-> g.vecs]
    BY <2>4, <2>6
  <2>8. [h.heap EXCEPT ![g.vecs[v].data] = block] = [g.heap EXCEPT ![g.vecs[v].data] = block]
    BY <1>9, <2>4
  <2>9. Overwritten(g, v, block) = [heap |-> [g.heap EXCEPT ![g.vecs[v].data] = block], vecs |-> g.vecs]
    BY <2>4 DEF Overwritten
  <2>10. QED BY <2>2, <2>7, <2>8, <2>9
<1>15. r = SetSize(Overwritten(g, v, block), v, n + 1)
  BY <1>2, <1>3, <1>14 DEF Insert, UpMoves
<1>16. \A j \in 0 .. cap - 1 : Item(g, v, j) = old[j]
  BY <1>5, <1>7, <1>8, <1>9 DEF Item, Load, ElementAt
<1>17. PICK items : items = [j \in 0 .. n |-> IF j < i THEN Item(m, v, j) ELSE IF j = i THEN x ELSE Item(m, v, j - 1)]
  OBVIOUS
<1>18. \A j \in 0 .. (n + 1) - 1 : block[j] = items[j]
  <2> SUFFICES ASSUME NEW j \in 0 .. (n + 1) - 1 PROVE block[j] = items[j]
    OBVIOUS
  <2>1. j \in 0 .. n /\ j \in 0 .. cap - 1
    BY <1>1, <1>7
  <2>2. CASE j < i
    <3>1. j \in 0 .. n - 1 /\ j \notin i + 1 .. n /\ j # i
      BY <2>1, <2>2, <1>7
    <3>2. items[j] = Item(m, v, j)
      BY <2>1, <2>2, <1>17
    <3>3. block[j] = old[j]
      BY <2>1, <3>1, <1>11, <1>13
    <3>4. QED BY <2>1, <3>1, <3>2, <3>3, <1>4, <1>16
  <2>3. CASE j = i
    BY <2>1, <2>3, <1>13, <1>17
  <2>4. CASE j > i
    <3>1. j \in i + 1 .. n /\ j # i /\ ~ (j < i) /\ j - 1 \in 0 .. n - 1 /\ j - 1 \in 0 .. cap - 1
      BY <2>1, <2>4, <1>7
    <3>2. items[j] = Item(m, v, j - 1)
      BY <2>1, <3>1, <1>17
    <3>3. block[j] = old[j - 1]
      BY <2>1, <3>1, <1>11, <1>13
    <3>4. QED BY <3>1, <3>2, <3>3, <1>4, <1>16
  <2>5. QED BY <2>1, <2>2, <2>3, <2>4, <1>7
<1>19. n + 1 \in 0 .. g.vecs[v].capacity /\ g.vecs[v].capacity > 0
       /\ DOMAIN block = 0 .. g.vecs[v].capacity - 1
  BY <1>1, <1>4, <1>5, <1>7, <1>13
<1>20. Leaves(m, r, v, n + 1, items)
  BY <1>4, <1>15, <1>18, <1>19, WrittenLeaves
<1>21. QED BY <1>3, <1>17, <1>20

(* What lies in the other vectors stays.                                   *)
LEMMA OthersSame ==
  ASSUME NEW m, Kept(m), NEW s, Kept(s), NEW v, OthersKept(m, s, v),
         NEW w \in DOMAIN m.vecs \ {v}
  PROVE  s.vecs[w].size = m.vecs[w].size /\ \A i \in 0 .. m.vecs[w].size - 1 : Item(s, w, i) = Item(m, w, i)
<1>1. s.vecs[w] = m.vecs[w] /\ w \in DOMAIN s.vecs
  BY DEF OthersKept
<1>2. m.vecs[w].size \in Nat /\ m.vecs[w].capacity \in Nat /\ m.vecs[w].size <= m.vecs[w].capacity
  BY SizeFits
<1>3. ASSUME NEW i \in 0 .. m.vecs[w].size - 1 PROVE Item(s, w, i) = Item(m, w, i)
  <2>1. m.vecs[w].data # Null
    BY <1>2, SizeFits
  <2>2. m.vecs[w].data \in DOMAIN m.heap /\ m.vecs[w].data \in DOMAIN s.heap
    BY <1>1, <2>1 DEF Kept
  <2>3. s.heap[m.vecs[w].data] = m.heap[m.vecs[w].data]
    BY <2>1 DEF OthersKept
  <2>4. QED BY <1>1, <2>1, <2>2, <2>3 DEF Item, Load, ElementAt
<1>4. QED BY <1>1, <1>3

(* operator=: the elements of the other one.                               *)
LEMMA AssignLeaves ==
  ASSUME NEW m, Kept(m), NEW v \in DOMAIN m.vecs, NEW w \in DOMAIN m.vecs, v # w,
         NEW n, n = m.vecs[w].size, NEW r, r = Assign(m, v, w)
  PROVE  Leaves(m, r, v, n, [i \in 0 .. n - 1 |-> Item(m, w, i)])
<1>1. n \in Nat /\ m.vecs[v].capacity \in Nat /\ 0 \in 0 .. m.vecs[v].capacity
  BY SizeFits
<1>2. PICK e : e = SetSize(m, v, 0)
  OBVIOUS
<1>3. /\ Kept(e) /\ OthersKept(m, e, v) /\ e.vecs[v] = [m.vecs[v] EXCEPT !.size = 0]
  BY <1>1, <1>2, SetSizeKeeps
<1>4. v \in DOMAIN e.vecs /\ e.vecs[v].size = 0
  BY <1>3 DEF Kept, OthersKept, VectorTyped
<1>5. PICK s : s = Reserve(e, v, n)
  OBVIOUS
<1>6. /\ Kept(s) /\ OthersKept(e, s, v) /\ s.vecs[v].size = 0 /\ n <= s.vecs[v].capacity
  <2>1. e.vecs[v].capacity \in Nat
    BY <1>3, <1>4, SizeFits
  <2>2. /\ Kept(s) /\ OthersKept(e, s, v) /\ s.vecs[v].size = 0
        /\ s.vecs[v].capacity = IF n <= e.vecs[v].capacity THEN e.vecs[v].capacity ELSE n
    <3>1. Kept(e)
      BY <1>3
    <3>2. Kept(s) /\ OthersKept(e, s, v) /\ s.vecs[v].size = e.vecs[v].size
      BY <3>1, <1>1, <1>4, <1>5, ReserveKeeps
    <3>3. s.vecs[v].capacity = IF n <= e.vecs[v].capacity THEN e.vecs[v].capacity ELSE n
      BY <3>1, <1>1, <1>4, <1>5, ReserveKeeps
    <3>4. QED BY <3>2, <3>3, <1>4
  <2>3. QED BY <1>1, <2>1, <2>2
<1>7. OthersKept(m, s, v)
  BY <1>3, <1>6, OthersKeptTwice
<1>8. v \in DOMAIN s.vecs /\ s.vecs[v].capacity \in Nat
  BY <1>6, <1>7, SizeFits DEF OthersKept
<1>9. PICK items : items = [i \in 0 .. n - 1 |-> Item(m, w, i)]
  OBVIOUS
<1>10. \A i \in 0 .. n - 1 : Item(s, w, i) = items[i]
  BY <1>6, <1>7, <1>9, OthersSame
<1>11. CASE n = 0
  <2>1. r = s
    BY <1>2, <1>5, <1>11 DEF Assign
  <2>2. QED BY <2>1, <1>6, <1>7, <1>9, <1>11 DEF Leaves
<1>12. CASE n # 0
  <2>1. s.vecs[v].capacity > 0 /\ n \in 0 .. s.vecs[v].capacity /\ s.vecs[v].data # Null
    BY <1>1, <1>6, <1>8, <1>12, SizeFits
  <2>2. PICK old : old = s.heap[s.vecs[v].data]
    OBVIOUS
  <2>3. s.vecs[v].data \in DOMAIN s.heap /\ DOMAIN old = 0 .. s.vecs[v].capacity - 1
    BY <1>6, <1>8, <2>1, <2>2 DEF Kept
  <2>4. PICK block : block = [i \in 0 .. s.vecs[v].capacity - 1 |-> IF i < n THEN Item(s, w, i) ELSE old[i]]
    OBVIOUS
  <2>5. r = SetSize(Overwritten(s, v, block), v, n)
    <3>1. [s EXCEPT !.heap[s.vecs[v].data] = [i \in DOMAIN @ |-> IF i < n THEN Item(s, w, i) ELSE @[i]]]
            = Overwritten(s, v, block)
      BY <2>2, <2>3, <2>4 DEF Overwritten
    <3>2. r = SetSize([s EXCEPT !.heap[s.vecs[v].data] =
                         [i \in DOMAIN @ |-> IF i < n THEN Item(s, w, i) ELSE @[i]]], v, n)
      BY <1>2, <1>5, <1>12 DEF Assign
    <3>3. QED BY <3>1, <3>2
  <2>6. \A i \in 0 .. n - 1 : block[i] = items[i]
    <3>1. \A i \in 0 .. n - 1 : i \in 0 .. s.vecs[v].capacity - 1 /\ i < n
      BY <1>1, <1>8, <2>1
    <3>2. QED BY <3>1, <1>10, <2>4
  <2>7. DOMAIN block = 0 .. s.vecs[v].capacity - 1
    BY <2>4
  <2>8. Leaves(m, r, v, n, items)
    BY <1>6, <1>7, <2>1, <2>5, <2>6, <2>7, WrittenLeaves
  <2>9. QED BY <1>9, <2>8
<1>13. QED BY <1>11, <1>12

(* A constructed vector owns nothing, a destroyed one gives its block back. *)
LEMMA ConstructKeeps ==
  ASSUME NEW m, Kept(m), NEW v \in Vec \ DOMAIN m.vecs, NEW r, r = Construct(m, v)
  PROVE  /\ Kept(r) /\ DOMAIN r.vecs = DOMAIN m.vecs \cup {v}
         /\ \A w \in DOMAIN m.vecs : r.vecs[w] = m.vecs[w]
<1>1. /\ r = [heap |-> m.heap, vecs |-> With(m.vecs, v, Empty)]
      /\ r.heap = m.heap
  BY DEF Construct, Kept
<1>2. /\ DOMAIN r.vecs = DOMAIN m.vecs \cup {v}
      /\ r.vecs[v] = Empty
      /\ \A w \in DOMAIN m.vecs : r.vecs[w] = m.vecs[w]
  BY <1>1 DEF With
<1>3. VectorTyped(Empty) /\ Empty.data = Null
  BY DEF VectorTyped, Empty
<1>4. Kept(r)
  <2>1. r = [heap |-> r.heap, vecs |-> r.vecs] /\ DOMAIN r.vecs \subseteq Vec
    BY <1>1, <1>2 DEF Kept
  <2>2. \A w \in DOMAIN r.vecs : VectorTyped(r.vecs[w])
    BY <1>2, <1>3 DEF Kept
  <2>3. DOMAIN r.heap = {r.vecs[w].data : w \in DOMAIN r.vecs} \ {Null}
    <3>1. DOMAIN m.heap = {m.vecs[w].data : w \in DOMAIN m.vecs} \ {Null}
      BY DEF Kept
    <3>2. QED BY <3>1, <1>1, <1>2, <1>3
  <2>4. \A w \in DOMAIN r.vecs : r.vecs[w].data # Null =>
           DOMAIN r.heap[r.vecs[w].data] = 0 .. r.vecs[w].capacity - 1
    BY <1>1, <1>2, <1>3 DEF Kept
  <2>5. \A w, u \in DOMAIN r.vecs :
           w # u /\ r.vecs[w].data # Null => r.vecs[w].data # r.vecs[u].data
    BY <1>2, <1>3 DEF Kept
  <2>6. QED BY <2>1, <2>2, <2>3, <2>4, <2>5 DEF Kept
<1>5. QED BY <1>2, <1>4

LEMMA DestroyKeeps ==
  ASSUME NEW m, Kept(m), NEW v \in DOMAIN m.vecs, NEW r, r = Destroy(m, v)
  PROVE  /\ Kept(r) /\ DOMAIN r.vecs = DOMAIN m.vecs \ {v}
         /\ \A w \in DOMAIN m.vecs \ {v} : r.vecs[w] = m.vecs[w]
<1> DEFINE b == m.vecs[v].data
<1>1. /\ r = [heap |-> Restrict(m.heap, DOMAIN m.heap \ {b}), vecs |-> Restrict(m.vecs, DOMAIN m.vecs \ {v})]
  BY DEF Destroy, Free, Kept
<1>2. /\ DOMAIN r.vecs = DOMAIN m.vecs \ {v}
      /\ \A w \in DOMAIN m.vecs \ {v} : r.vecs[w] = m.vecs[w]
      /\ DOMAIN r.heap = DOMAIN m.heap \ {b}
      /\ \A c \in DOMAIN m.heap \ {b} : r.heap[c] = m.heap[c]
  BY <1>1 DEF Restrict
<1>3. \A w \in DOMAIN m.vecs \ {v} : m.vecs[w].data # Null =>
         m.vecs[w].data \in DOMAIN m.heap \ {b}
  BY DEF Kept
<1>4. Kept(r)
  <2>1. r = [heap |-> r.heap, vecs |-> r.vecs] /\ DOMAIN r.vecs \subseteq Vec
    BY <1>1, <1>2 DEF Kept
  <2>2. \A w \in DOMAIN r.vecs : VectorTyped(r.vecs[w])
    BY <1>2 DEF Kept
  <2>3. DOMAIN r.heap = {r.vecs[w].data : w \in DOMAIN r.vecs} \ {Null}
    <3>1. DOMAIN m.heap = {m.vecs[w].data : w \in DOMAIN m.vecs} \ {Null}
      BY DEF Kept
    <3>2. QED BY <3>1, <1>2, <1>3
  <2>4. \A w \in DOMAIN r.vecs : r.vecs[w].data # Null =>
           DOMAIN r.heap[r.vecs[w].data] = 0 .. r.vecs[w].capacity - 1
    BY <1>2, <1>3 DEF Kept
  <2>5. \A w, u \in DOMAIN r.vecs :
           w # u /\ r.vecs[w].data # Null => r.vecs[w].data # r.vecs[u].data
    BY <1>2 DEF Kept
  <2>6. QED BY <2>1, <2>2, <2>3, <2>4, <2>5 DEF Kept
<1>5. QED BY <1>2, <1>4

-----------------------------------------------------------------------------
(* Sequences of anything, and the operators C++ is put in.                 *)
IsSeq(s) == Len(s) \in Nat /\ s = [i \in 1 .. Len(s) |-> s[i]]

LEMMA SeqIn ==
  ASSUME NEW s, IsSeq(s), NEW T, \A i \in 1 .. Len(s) : s[i] \in T
  PROVE  s \in Seq(T)
<1>1. s \in [1 .. Len(s) -> T]
  BY DEF IsSeq
<1>2. QED BY <1>1 DEF IsSeq

LEMMA InSeq ==
  ASSUME NEW T, NEW s \in Seq(T)
  PROVE  IsSeq(s)
BY DEF IsSeq

LEMMA AppendAt ==
  ASSUME NEW s, IsSeq(s), NEW x, NEW f, f = Append(s, x)
  PROVE  /\ IsSeq(f) /\ Len(f) = Len(s) + 1
         /\ \A i \in 1 .. Len(s) + 1 : f[i] = IF i = Len(s) + 1 THEN x ELSE s[i]
<1>1. PICK T : T = {s[i] : i \in 1 .. Len(s)} \cup {x}
  OBVIOUS
<1>2. s \in Seq(T) /\ x \in T
  BY <1>1, SeqIn
<1>3. f \in Seq(T) /\ Len(f) = Len(s) + 1 /\ (\A i \in 1 .. Len(s) : f[i] = s[i]) /\ f[Len(s) + 1] = x
  BY <1>2, AppendProperties
<1>4. IsSeq(f)
  BY <1>3, InSeq
<1>5. QED BY <1>3, <1>4 DEF IsSeq

LEMMA ConcatAt ==
  ASSUME NEW s, IsSeq(s), NEW t, IsSeq(t), NEW f, f = s \o t
  PROVE  /\ IsSeq(f) /\ Len(f) = Len(s) + Len(t)
         /\ \A i \in 1 .. Len(s) + Len(t) : f[i] = IF i <= Len(s) THEN s[i] ELSE t[i - Len(s)]
<1>1. PICK T : T = {s[i] : i \in 1 .. Len(s)} \cup {t[i] : i \in 1 .. Len(t)}
  OBVIOUS
<1>2. s \in Seq(T) /\ t \in Seq(T)
  BY <1>1, SeqIn
<1>3. /\ f \in Seq(T) /\ Len(f) = Len(s) + Len(t)
      /\ \A i \in 1 .. Len(s) + Len(t) : f[i] = IF i <= Len(s) THEN s[i] ELSE t[i - Len(s)]
  BY <1>2, ConcatProperties
<1>4. QED BY <1>3, InSeq

LEMMA FirstAt ==
  ASSUME NEW s, IsSeq(s), NEW n \in 0 .. Len(s), NEW f, f = First(s, n)
  PROVE  IsSeq(f) /\ Len(f) = n /\ \A i \in 1 .. n : f[i] = s[i]
<1>1. PICK T : T = {s[i] : i \in 1 .. Len(s)}
  OBVIOUS
<1>2. \A i \in 1 .. n : s[i] \in T
  BY <1>1 DEF IsSeq
<1>3. /\ SubSeq(s, 1, n) \in Seq(T)
      /\ Len(SubSeq(s, 1, n)) = IF 1 <= n THEN n - 1 + 1 ELSE 0
      /\ \A i \in 1 .. n - 1 + 1 : SubSeq(s, 1, n)[i] = s[1 + i - 1]
  BY <1>2, SubSeqProperties DEF IsSeq
<1>4. f = SubSeq(s, 1, n)
  BY DEF First
<1>5. IsSeq(f)
  BY <1>3, <1>4, InSeq
<1>6. QED BY <1>3, <1>4, <1>5 DEF IsSeq

LEMMA FromAt ==
  ASSUME NEW s, IsSeq(s), NEW k \in 1 .. Len(s) + 1, NEW f, f = From(s, k)
  PROVE  IsSeq(f) /\ Len(f) = Len(s) + 1 - k /\ \A i \in 1 .. Len(s) + 1 - k : f[i] = s[k + i - 1]
<1>1. PICK T : T = {s[i] : i \in 1 .. Len(s)}
  OBVIOUS
<1>2. \A i \in k .. Len(s) : s[i] \in T
  BY <1>1 DEF IsSeq
<1>3. /\ SubSeq(s, k, Len(s)) \in Seq(T)
      /\ Len(SubSeq(s, k, Len(s))) = IF k <= Len(s) THEN Len(s) - k + 1 ELSE 0
      /\ \A i \in 1 .. Len(s) - k + 1 : SubSeq(s, k, Len(s))[i] = s[k + i - 1]
  BY <1>2, SubSeqProperties DEF IsSeq
<1>4. f = SubSeq(s, k, Len(s))
  BY DEF From
<1>5. IsSeq(f)
  BY <1>3, <1>4, InSeq
<1>6. QED BY <1>3, <1>4, <1>5 DEF IsSeq

LEMMA ResizedAt ==
  ASSUME NEW s, IsSeq(s), NEW n \in Nat, NEW x, NEW f, f = Resized(s, n, x)
  PROVE  IsSeq(f) /\ Len(f) = n /\ \A i \in 1 .. n : f[i] = IF i <= Len(s) THEN s[i] ELSE x
<1>0. Len(s) \in Nat
  BY DEF IsSeq
<1>1. CASE n <= Len(s)
  <2>1. n \in 0 .. Len(s) /\ f = First(s, n)
    BY <1>1 DEF Resized
  <2>2. IsSeq(f) /\ Len(f) = n /\ \A i \in 1 .. n : f[i] = s[i]
    BY <2>1, FirstAt
  <2>3. QED BY <1>0, <1>1, <2>2
<1>2. CASE ~ (n <= Len(s))
  <2>1. PICK k : k = n - Len(s)
    OBVIOUS
  <2>2. PICK t : t = [i \in 1 .. k |-> x]
    OBVIOUS
  <2>3. k \in Nat /\ Len(s) + k = n
    BY <1>0, <1>2, <2>1
  <2>4. Len(t) = k /\ \A i \in 1 .. k : t[i] = x
    BY <2>2, <2>3
  <2>5. IsSeq(t)
    BY <2>2, <2>3, <2>4 DEF IsSeq
  <2>6. f = s \o t
    BY <1>2, <2>1, <2>2 DEF Resized, Times
  <2>7. /\ IsSeq(f) /\ Len(f) = Len(s) + Len(t)
        /\ \A i \in 1 .. Len(s) + Len(t) : f[i] = IF i <= Len(s) THEN s[i] ELSE t[i - Len(s)]
    BY <2>5, <2>6, ConcatAt
  <2>8. \A i \in 1 .. n : i <= Len(s) \/ i - Len(s) \in 1 .. k
    BY <1>0, <2>3
  <2>9. QED BY <1>0, <2>3, <2>4, <2>7, <2>8
<1>3. QED BY <1>1, <1>2

-----------------------------------------------------------------------------
(* What a vector holds.                                                    *)
LEMMA ContentsSeq ==
  ASSUME NEW m, Kept(m), NEW v \in DOMAIN m.vecs, NEW s, s = Contents(m, v)
  PROVE  /\ m.vecs[v].size \in Nat /\ IsSeq(s) /\ Len(s) = m.vecs[v].size
         /\ \A i \in 1 .. m.vecs[v].size : s[i] = Item(m, v, i - 1)
<1>1. PICK n : n = m.vecs[v].size
  OBVIOUS
<1>2. n \in Nat
  BY <1>1, SizeFits
<1>3. s = [i \in 1 .. n |-> Item(m, v, i - 1)]
  BY <1>1 DEF Contents
<1>4. Len(s) = n /\ \A i \in 1 .. n : s[i] = Item(m, v, i - 1)
  BY <1>2, <1>3
<1>5. IsSeq(s)
  BY <1>2, <1>3, <1>4 DEF IsSeq
<1>6. QED BY <1>1, <1>2, <1>4, <1>5

LEMMA LeavesBecomes ==
  ASSUME Kept(mem), NEW v \in Live, NEW n \in Nat, NEW items, NEW r, Leaves(mem, r, v, n, items),
         NEW s, IsSeq(s), Len(s) = n, \A i \in 1 .. n : s[i] = items[i - 1]
  PROVE  Becomes(r, v, s)
<1>1. Contents(r, v) = s
  <2>1. Contents(r, v) = [i \in 1 .. n |-> Item(r, v, i - 1)]
    BY DEF Contents, Leaves
  <2>2. \A i \in 1 .. n : Item(r, v, i - 1) = s[i]
    <3>1. \A i \in 1 .. n : i - 1 \in 0 .. n - 1
      OBVIOUS
    <3>2. QED BY <3>1 DEF Leaves
  <2>3. s = [i \in 1 .. n |-> s[i]]
    BY DEF IsSeq
  <2>4. QED BY <2>1, <2>2, <2>3
<1>2. ASSUME NEW w \in Live \ {v} PROVE Contents(r, w) = Contents(mem, w)
  <2>1. PICK size : size = mem.vecs[w].size
    OBVIOUS
  <2>2. size \in Nat
    BY <2>1, SizeFits DEF Live
  <2>3. /\ r.vecs[w].size = size
        /\ \A i \in 0 .. size - 1 : Item(r, w, i) = Item(mem, w, i)
    BY <2>1, OthersSame DEF Leaves, Live
  <2>4. \A i \in 1 .. size : i - 1 \in 0 .. size - 1
    BY <2>2
  <2>5. QED BY <2>1, <2>3, <2>4 DEF Contents
<1>3. QED BY <1>1, <1>2 DEF Becomes

-----------------------------------------------------------------------------
(* Each call does to the sequence what C++ says.                           *)
LEMMA PushBackAsC ==
  ASSUME Kept(mem), NEW v \in Live, NEW s, s = Contents(mem, v), NEW a
  PROVE  Becomes(PushBack(mem, v, a), v, Append(s, Load(mem, a)))
<1>1. PICK n : n = mem.vecs[v].size
  OBVIOUS
<1>2. PICK x : x = Load(mem, a)
  OBVIOUS
<1>3. /\ n \in Nat /\ IsSeq(s) /\ Len(s) = n
      /\ \A i \in 1 .. n : s[i] = Item(mem, v, i - 1)
  BY <1>1, ContentsSeq DEF Live
<1>4. PICK items : items = Pushed(mem, v, a, n)
  OBVIOUS
<1>5. PICK r : r = PushBack(mem, v, a)
  OBVIOUS
<1>6. Leaves(mem, r, v, n + 1, items)
  BY <1>1, <1>4, <1>5, PushBackLeaves DEF Live
<1>7. PICK f : f = Append(s, x)
  OBVIOUS
<1>8. /\ IsSeq(f) /\ Len(f) = n + 1
      /\ \A i \in 1 .. n + 1 : f[i] = IF i = n + 1 THEN x ELSE s[i]
  <2>1. IsSeq(f) /\ Len(f) = Len(s) + 1
    BY <1>3, <1>7, AppendAt
  <2>2. \A i \in 1 .. Len(s) + 1 : f[i] = IF i = Len(s) + 1 THEN x ELSE s[i]
    BY <1>3, <1>7, AppendAt
  <2>3. QED BY <1>3, <2>1, <2>2
<1>9. \A i \in 1 .. n + 1 : f[i] = items[i - 1]
  BY <1>2, <1>3, <1>4, <1>8 DEF Pushed
<1>10. Becomes(r, v, f)
  BY <1>3, <1>6, <1>8, <1>9, LeavesBecomes
<1>11. QED BY <1>2, <1>5, <1>7, <1>10

LEMMA ReserveAsC ==
  ASSUME Kept(mem), NEW v \in Live, NEW s, s = Contents(mem, v), NEW k \in Nat
  PROVE  Becomes(Reserve(mem, v, k), v, s)
<1>1. PICK n : n = mem.vecs[v].size
  OBVIOUS
<1>3. /\ n \in Nat /\ IsSeq(s) /\ Len(s) = n
      /\ \A i \in 1 .. n : s[i] = Item(mem, v, i - 1)
  BY <1>1, ContentsSeq DEF Live
<1>4. PICK items : items = [i \in 0 .. n - 1 |-> Item(mem, v, i)]
  OBVIOUS
<1>5. PICK r : r = Reserve(mem, v, k)
  OBVIOUS
<1>6. Leaves(mem, r, v, n, items)
  BY <1>1, <1>4, <1>5, ReserveLeaves DEF Live
<1>7. \A i \in 1 .. n : s[i] = items[i - 1]
  BY <1>3, <1>4
<1>8. Becomes(r, v, s)
  BY <1>3, <1>6, <1>7, LeavesBecomes
<1>9. QED BY <1>5, <1>8

(* A size at most the old one cuts the sequence.                           *)
LEMMA ShrinkAsC ==
  ASSUME Kept(mem), NEW v \in Live, NEW s, s = Contents(mem, v), NEW x,
         NEW k \in Nat, k <= mem.vecs[v].size, NEW r, r = SetSize(mem, v, k)
  PROVE  Becomes(r, v, Resized(s, k, x))
<1>1. PICK n : n = mem.vecs[v].size
  OBVIOUS
<1>3. /\ n \in Nat /\ IsSeq(s) /\ Len(s) = n
      /\ \A i \in 1 .. n : s[i] = Item(mem, v, i - 1)
  BY <1>1, ContentsSeq DEF Live
<1>4. PICK items : items = [i \in 0 .. k - 1 |-> Item(mem, v, i)]
  OBVIOUS
<1>5. k \in 0 .. mem.vecs[v].size
  BY <1>1, <1>3
<1>6. Leaves(mem, r, v, k, items)
  BY <1>4, <1>5, ShrinkLeaves DEF Live
<1>7. PICK f : f = Resized(s, k, x)
  OBVIOUS
<1>8. IsSeq(f) /\ Len(f) = k /\ \A i \in 1 .. k : f[i] = IF i <= Len(s) THEN s[i] ELSE x
  <2>1. IsSeq(f) /\ Len(f) = k
    BY <1>3, <1>7, ResizedAt
  <2>2. \A i \in 1 .. k : f[i] = IF i <= Len(s) THEN s[i] ELSE x
    BY <1>3, <1>7, ResizedAt
  <2>3. QED BY <2>1, <2>2
<1>9. \A i \in 1 .. k : f[i] = items[i - 1]
  <2>1. \A i \in 1 .. k : i \in 1 .. n /\ i - 1 \in 0 .. k - 1
    BY <1>1, <1>3, <1>5
  <2>2. QED BY <2>1, <1>3, <1>4, <1>8
<1>10. Becomes(r, v, f)
  BY <1>6, <1>8, <1>9, LeavesBecomes
<1>11. QED BY <1>7, <1>10

(* A larger one brings new elements x.                                     *)
LEMMA FillAsC ==
  ASSUME Kept(mem), NEW v \in Live, NEW s, s = Contents(mem, v), NEW x,
         NEW k \in Nat, k > mem.vecs[v].size,
         NEW r, r = SetSize(Fill(Reserve(mem, v, k), v, k, x), v, k)
  PROVE  Becomes(r, v, Resized(s, k, x))
<1>1. PICK n : n = mem.vecs[v].size
  OBVIOUS
<1>3. /\ n \in Nat /\ IsSeq(s) /\ Len(s) = n
      /\ \A i \in 1 .. n : s[i] = Item(mem, v, i - 1)
  BY <1>1, ContentsSeq DEF Live
<1>4. PICK items : items = Filled(mem, v, k, x)
  OBVIOUS
<1>5. Leaves(mem, r, v, k, items)
  BY <1>4, FillLeaves DEF Live
<1>6. PICK f : f = Resized(s, k, x)
  OBVIOUS
<1>7. IsSeq(f) /\ Len(f) = k /\ \A i \in 1 .. k : f[i] = IF i <= Len(s) THEN s[i] ELSE x
  BY <1>3, <1>6, ResizedAt
<1>8. \A i \in 1 .. k : f[i] = items[i - 1]
  <2> SUFFICES ASSUME NEW i \in 1 .. k PROVE f[i] = items[i - 1]
    OBVIOUS
  <2>1. i - 1 \in 0 .. k - 1 /\ (i <= n <=> i - 1 < n)
    BY <1>3
  <2>2. items[i - 1] = IF i <= n THEN Item(mem, v, i - 1) ELSE x
    BY <2>1, <1>1, <1>4 DEF Filled
  <2>3. i <= n => i \in 1 .. n
    BY <1>3
  <2>4. QED BY <2>2, <2>3, <1>3, <1>7
<1>9. Becomes(r, v, f)
  BY <1>5, <1>7, <1>8, LeavesBecomes
<1>10. QED BY <1>6, <1>9

LEMMA ResizeWithAsC ==
  ASSUME Kept(mem), NEW v \in Live, NEW s, s = Contents(mem, v), NEW a, NEW k \in Nat
  PROVE  Becomes(ResizeWith(mem, v, k, a), v, Resized(s, k, Load(mem, a)))
<1>1. mem.vecs[v].size \in Nat /\ mem.vecs[v].capacity \in Nat /\ mem.vecs[v].size <= mem.vecs[v].capacity
  BY SizeFits DEF Live
<1>2. CASE k > mem.vecs[v].size
  <2>1. ResizeWith(mem, v, k, a) = SetSize(Fill(Reserve(mem, v, k), v, k, Load(mem, a)), v, k)
    BY <1>2 DEF ResizeWith
  <2>2. QED BY <1>2, <2>1, FillAsC
<1>3. CASE ~ (k > mem.vecs[v].size)
  <2>1. k <= mem.vecs[v].size /\ k <= mem.vecs[v].capacity
    BY <1>1, <1>3
  <2>2. ResizeWith(mem, v, k, a) = SetSize(mem, v, k)
    BY <1>3, <2>1 DEF ResizeWith, Reserve
  <2>3. QED BY <2>1, <2>2, ShrinkAsC
<1>4. QED BY <1>2, <1>3

LEMMA ResizeAsC ==
  ASSUME Kept(mem), NEW v \in Live, NEW s, s = Contents(mem, v), NEW k \in Nat
  PROVE  Becomes(Resize(mem, v, k), v, Resized(s, k, 0))
<1>1. mem.vecs[v].size \in Nat
  BY SizeFits DEF Live
<1>2. CASE k > mem.vecs[v].size
  <2>1. Resize(mem, v, k) = SetSize(Fill(Reserve(mem, v, k), v, k, 0), v, k)
    BY <1>2 DEF Resize
  <2>2. QED BY <1>2, <2>1, FillAsC
<1>3. CASE ~ (k > mem.vecs[v].size)
  <2>1. k <= mem.vecs[v].size
    BY <1>1, <1>3
  <2>2. Resize(mem, v, k) = SetSize(mem, v, k)
    BY <1>3 DEF Resize
  <2>3. QED BY <2>1, <2>2, ShrinkAsC
<1>4. QED BY <1>2, <1>3

(* The sequence around a place, put together from its two parts.           *)
Without(s, i) == First(s, i) \o From(s, i + 2)
Between(s, i, x) == First(s, i) \o <<x>> \o From(s, i + 1)

LEMMA PartsAt ==
  ASSUME NEW s, IsSeq(s), NEW i \in 0 .. Len(s), NEW k \in 1 .. Len(s) + 1
  PROVE  /\ IsSeq(First(s, i)) /\ Len(First(s, i)) = i /\ (\A j \in 1 .. i : First(s, i)[j] = s[j])
         /\ IsSeq(From(s, k)) /\ Len(From(s, k)) = Len(s) + 1 - k
         /\ \A j \in 1 .. Len(s) + 1 - k : From(s, k)[j] = s[k + j - 1]
BY FirstAt, FromAt

LEMMA WithoutAt ==
  ASSUME NEW s, IsSeq(s), NEW i \in 0 .. Len(s) - 1, NEW f, f = Without(s, i)
  PROVE  IsSeq(f) /\ Len(f) = Len(s) - 1 /\ \A j \in 1 .. Len(s) - 1 : f[j] = IF j <= i THEN s[j] ELSE s[j + 1]
<1>1. PICK k : k = i + 2
  OBVIOUS
<1>2. Len(s) \in Nat /\ i \in 0 .. Len(s) /\ k \in 1 .. Len(s) + 1
  BY <1>1 DEF IsSeq
<1>3. PICK a, b : a = First(s, i) /\ b = From(s, k)
  OBVIOUS
<1>4. /\ IsSeq(a) /\ Len(a) = i /\ (\A j \in 1 .. i : a[j] = s[j])
      /\ IsSeq(b) /\ Len(b) = Len(s) + 1 - k
      /\ \A j \in 1 .. Len(s) + 1 - k : b[j] = s[k + j - 1]
  BY <1>2, <1>3, PartsAt
<1>5. /\ IsSeq(f) /\ Len(f) = Len(a) + Len(b)
      /\ \A j \in 1 .. Len(a) + Len(b) : f[j] = IF j <= Len(a) THEN a[j] ELSE b[j - Len(a)]
  <2>1. f = a \o b
    BY <1>1, <1>3 DEF Without
  <2>2. IsSeq(a) /\ IsSeq(b)
    BY <1>4
  <2>3. IsSeq(f) /\ Len(f) = Len(a) + Len(b)
    BY <2>1, <2>2, ConcatAt
  <2>4. \A j \in 1 .. Len(a) + Len(b) : f[j] = IF j <= Len(a) THEN a[j] ELSE b[j - Len(a)]
    BY <2>1, <2>2, ConcatAt
  <2>5. QED BY <2>3, <2>4
<1>6. Len(f) = Len(s) - 1 /\ i + (Len(s) + 1 - k) = Len(s) - 1
  BY <1>1, <1>2, <1>4, <1>5
<1>7. \A j \in 1 .. i + (Len(s) + 1 - k) : f[j] = IF j <= i THEN a[j] ELSE b[j - i]
  BY <1>4, <1>5
<1>8. ASSUME NEW j \in 1 .. Len(s) - 1 PROVE f[j] = IF j <= i THEN s[j] ELSE s[j + 1]
  <2>1. f[j] = IF j <= i THEN a[j] ELSE b[j - i]
    BY <1>6, <1>7
  <2>2. ASSUME j <= i PROVE f[j] = s[j]
    <3>1. j \in 1 .. i
      BY <1>2, <2>2
    <3>2. QED BY <2>1, <2>2, <3>1, <1>4
  <2>3. ASSUME ~ (j <= i) PROVE f[j] = s[j + 1]
    <3>1. j - i \in 1 .. Len(s) + 1 - k /\ k + (j - i) - 1 = j + 1
      BY <1>1, <1>2, <2>3
    <3>2. b[j - i] = s[j + 1]
      BY <3>1, <1>4
    <3>3. QED BY <2>1, <2>3, <3>2
  <2>4. QED BY <2>2, <2>3, Zenon
<1>9. QED BY <1>5, <1>6, <1>8

LEMMA BetweenAt ==
  ASSUME NEW s, IsSeq(s), NEW i \in 0 .. Len(s), NEW x,
         NEW f, f = Between(s, i, x)
  PROVE  /\ IsSeq(f) /\ Len(f) = Len(s) + 1
         /\ \A j \in 1 .. Len(s) + 1 : f[j] = IF j <= i THEN s[j] ELSE IF j = i + 1 THEN x ELSE s[j - 1]
<1>1. PICK k : k = i + 1
  OBVIOUS
<1>2. Len(s) \in Nat /\ k \in 1 .. Len(s) + 1
  BY <1>1 DEF IsSeq
<1>3. PICK a, b : a = First(s, i) /\ b = From(s, k)
  OBVIOUS
<1>4. /\ IsSeq(a) /\ Len(a) = i /\ (\A j \in 1 .. i : a[j] = s[j])
      /\ IsSeq(b) /\ Len(b) = Len(s) + 1 - k
      /\ \A j \in 1 .. Len(s) + 1 - k : b[j] = s[k + j - 1]
  BY <1>2, <1>3, PartsAt
<1>5. PICK one : one = <<x>>
  OBVIOUS
<1>6. IsSeq(one) /\ Len(one) = 1 /\ one[1] = x
  BY <1>5 DEF IsSeq
<1>7. PICK c : c = a \o one
  OBVIOUS
<1>8. /\ IsSeq(c) /\ Len(c) = Len(a) + Len(one)
      /\ \A j \in 1 .. Len(a) + Len(one) : c[j] = IF j <= Len(a) THEN a[j] ELSE one[j - Len(a)]
  BY <1>4, <1>6, <1>7, ConcatAt
<1>9. Len(c) = k /\ (\A j \in 1 .. i : c[j] = s[j]) /\ c[k] = x
  BY <1>1, <1>2, <1>4, <1>6, <1>8
<1>10. f = c \o b
  BY <1>1, <1>3, <1>5, <1>7 DEF Between
<1>11. /\ IsSeq(f) /\ Len(f) = Len(c) + Len(b)
       /\ \A j \in 1 .. Len(c) + Len(b) : f[j] = IF j <= Len(c) THEN c[j] ELSE b[j - Len(c)]
  <2>1. IsSeq(c) /\ IsSeq(b)
    BY <1>4, <1>8
  <2>2. IsSeq(f) /\ Len(f) = Len(c) + Len(b)
    BY <2>1, <1>10, ConcatAt
  <2>3. \A j \in 1 .. Len(c) + Len(b) : f[j] = IF j <= Len(c) THEN c[j] ELSE b[j - Len(c)]
    BY <2>1, <1>10, ConcatAt
  <2>4. QED BY <2>2, <2>3
<1>12. Len(f) = Len(s) + 1 /\ Len(c) + Len(b) = Len(s) + 1
  BY <1>2, <1>4, <1>9, <1>11
<1>13. ASSUME NEW j \in 1 .. Len(s) + 1
       PROVE  f[j] = IF j <= i THEN s[j] ELSE IF j = i + 1 THEN x ELSE s[j - 1]
  <2>1. f[j] = IF j <= k THEN c[j] ELSE b[j - k]
    BY <1>9, <1>11, <1>12
  <2>2. ASSUME j <= i PROVE f[j] = s[j]
    <3>1. j \in 1 .. i /\ j <= k
      BY <1>1, <1>2, <2>2
    <3>2. QED BY <2>1, <3>1, <1>9
  <2>3. ASSUME j = i + 1 PROVE f[j] = x
    <3>1. j = k /\ j <= k
      BY <1>1, <1>2, <2>3
    <3>2. QED BY <2>1, <3>1, <1>9
  <2>4. ASSUME j > i + 1 PROVE f[j] = s[j - 1]
    <3>1. j - k \in 1 .. Len(s) + 1 - k /\ k + (j - k) - 1 = j - 1 /\ ~ (j <= k)
      BY <1>1, <1>2, <2>4
    <3>2. b[j - k] = s[j - 1]
      BY <3>1, <1>4
    <3>3. QED BY <2>1, <3>1, <3>2
  <2>5. /\ j <= i \/ j = i + 1 \/ j > i + 1
        /\ ~ (j <= i /\ j = i + 1) /\ ~ (j <= i /\ j > i + 1) /\ ~ (j = i + 1 /\ j > i + 1)
    BY <1>2
  <2>6. QED BY <2>2, <2>3, <2>4, <2>5, Zenon
<1>14. QED BY <1>11, <1>12, <1>13

LEMMA EraseAsC ==
  ASSUME Kept(mem), NEW v \in Live, NEW s, s = Contents(mem, v), NEW i \in 0 .. Len(s) - 1
  PROVE  Becomes(Erase(mem, v, i), v, First(s, i) \o From(s, i + 2))
<1>1. PICK n : n = mem.vecs[v].size
  OBVIOUS
<1>2. /\ n \in Nat /\ IsSeq(s) /\ Len(s) = n
      /\ \A j \in 1 .. n : s[j] = Item(mem, v, j - 1)
  BY <1>1, ContentsSeq DEF Live
<1>3. PICK items : items = [j \in 0 .. n - 2 |-> IF j < i THEN Item(mem, v, j) ELSE Item(mem, v, j + 1)]
  OBVIOUS
<1>4. PICK r : r = Erase(mem, v, i)
  OBVIOUS
<1>5. Leaves(mem, r, v, n - 1, items)
  BY <1>1, <1>2, <1>3, <1>4, EraseLeaves DEF Live
<1>6. PICK f : f = Without(s, i)
  OBVIOUS
<1>7. /\ IsSeq(f) /\ Len(f) = n - 1
      /\ \A j \in 1 .. n - 1 : f[j] = IF j <= i THEN s[j] ELSE s[j + 1]
  <2>1. IsSeq(s) /\ Len(s) = n
    BY <1>2
  <2>2. IsSeq(f) /\ Len(f) = Len(s) - 1
    BY <2>1, <1>6, WithoutAt
  <2>3. \A j \in 1 .. Len(s) - 1 : f[j] = IF j <= i THEN s[j] ELSE s[j + 1]
    BY <2>1, <1>6, WithoutAt
  <2>4. QED BY <2>1, <2>2, <2>3
<1>8. ASSUME NEW j \in 1 .. n - 1 PROVE f[j] = items[j - 1]
  <2>1. j - 1 \in 0 .. n - 2 /\ (j <= i <=> j - 1 < i) /\ j \in 1 .. n /\ j + 1 \in 1 .. n /\ (j + 1) - 1 = (j - 1) + 1
    BY <1>2
  <2>2. items[j - 1] = IF j <= i THEN Item(mem, v, j - 1) ELSE Item(mem, v, (j - 1) + 1)
    BY <2>1, <1>3
  <2>3. s[j] = Item(mem, v, j - 1) /\ s[j + 1] = Item(mem, v, (j - 1) + 1)
    BY <2>1, <1>2
  <2>4. QED BY <2>2, <2>3, <1>7
<1>9. n - 1 \in Nat
  BY <1>2
<1>10. Becomes(r, v, f)
  BY <1>5, <1>7, <1>8, <1>9, LeavesBecomes
<1>11. QED BY <1>4, <1>6, <1>10 DEF Without

LEMMA InsertAsC ==
  ASSUME Kept(mem), NEW v \in Live, NEW s, s = Contents(mem, v), NEW i \in 0 .. Len(s), NEW a
  PROVE  Becomes(Insert(mem, v, i, a), v, First(s, i) \o <<Load(mem, a)>> \o From(s, i + 1))
<1>1. PICK n : n = mem.vecs[v].size
  OBVIOUS
<1>2. PICK x : x = Load(mem, a)
  OBVIOUS
<1>3. /\ n \in Nat /\ IsSeq(s) /\ Len(s) = n
      /\ \A j \in 1 .. n : s[j] = Item(mem, v, j - 1)
  BY <1>1, ContentsSeq DEF Live
<1>4. PICK items : items =
        [j \in 0 .. n |-> IF j < i THEN Item(mem, v, j) ELSE IF j = i THEN x ELSE Item(mem, v, j - 1)]
  OBVIOUS
<1>5. PICK r : r = Insert(mem, v, i, a)
  OBVIOUS
<1>6. Leaves(mem, r, v, n + 1, items)
  BY <1>1, <1>2, <1>3, <1>4, <1>5, InsertLeaves DEF Live
<1>7. PICK f : f = Between(s, i, x)
  OBVIOUS
<1>8. /\ IsSeq(f) /\ Len(f) = n + 1
      /\ \A j \in 1 .. n + 1 : f[j] = IF j <= i THEN s[j] ELSE IF j = i + 1 THEN x ELSE s[j - 1]
  <2>1. IsSeq(s) /\ Len(s) = n
    BY <1>3
  <2>2. IsSeq(f) /\ Len(f) = Len(s) + 1
    BY <2>1, <1>7, BetweenAt
  <2>3. \A j \in 1 .. Len(s) + 1 : f[j] = IF j <= i THEN s[j] ELSE IF j = i + 1 THEN x ELSE s[j - 1]
    BY <2>1, <1>7, BetweenAt
  <2>4. QED BY <2>1, <2>2, <2>3
<1>9. ASSUME NEW j \in 1 .. n + 1 PROVE f[j] = items[j - 1]
  <2>1. j - 1 \in 0 .. n /\ (j <= i <=> j - 1 < i) /\ (j = i + 1 <=> j - 1 = i) /\ i \in 0 .. n
    BY <1>3
  <2>2. items[j - 1] = IF j <= i THEN Item(mem, v, j - 1) ELSE IF j = i + 1 THEN x ELSE Item(mem, v, (j - 1) - 1)
    BY <2>1, <1>4
  <2>3. j <= i => s[j] = Item(mem, v, j - 1)
    BY <2>1, <1>3
  <2>4. j > i + 1 => s[j - 1] = Item(mem, v, (j - 1) - 1)
    BY <2>1, <1>3
  <2>5. QED BY <2>1, <2>2, <2>3, <2>4, <1>8
<1>10. n + 1 \in Nat
  BY <1>3
<1>11. Becomes(r, v, f)
  BY <1>6, <1>8, <1>9, <1>10, LeavesBecomes
<1>12. QED BY <1>2, <1>5, <1>7, <1>11 DEF Between

LEMMA AssignAsC ==
  ASSUME Kept(mem), NEW v \in Live, NEW w \in Live
  PROVE  Becomes(Assign(mem, v, w), v, Contents(mem, w))
<1>1. CASE v = w
  BY <1>1 DEF Assign, Becomes
<1>2. CASE v # w
  <2>1. PICK n : n = mem.vecs[w].size
    OBVIOUS
  <2>2. PICK s : s = Contents(mem, w)
    OBVIOUS
  <2>3. /\ n \in Nat /\ IsSeq(s) /\ Len(s) = n
        /\ \A j \in 1 .. n : s[j] = Item(mem, w, j - 1)
    BY <2>1, <2>2, ContentsSeq DEF Live
  <2>4. PICK items : items = [i \in 0 .. n - 1 |-> Item(mem, w, i)]
    OBVIOUS
  <2>5. PICK r : r = Assign(mem, v, w)
    OBVIOUS
  <2>6. Leaves(mem, r, v, n, items)
    BY <1>2, <2>1, <2>4, <2>5, AssignLeaves DEF Live
  <2>7. \A j \in 1 .. n : s[j] = items[j - 1]
    BY <2>3, <2>4
  <2>8. Becomes(r, v, s)
    BY <2>3, <2>6, <2>7, LeavesBecomes
  <2>9. QED BY <2>2, <2>5, <2>8
<1>3. QED BY <1>1, <1>2

LEMMA KeptAsC ==
  ASSUME Kept(mem)
  PROVE  VectorsAsC
<1> SUFFICES ASSUME NEW v \in Live, NEW s, s = Contents(mem, v)
             PROVE  /\ \A a \in Arguments :
                         /\ Becomes(PushBack(mem, v, a), v, Append(s, Load(mem, a)))
                         /\ \A i \in 0 .. Len(s) :
                              Becomes(Insert(mem, v, i, a), v, First(s, i) \o <<Load(mem, a)>> \o From(s, i + 1))
                         /\ \A n \in 0 .. MaxSize + 1 :
                              Becomes(ResizeWith(mem, v, n, a), v, Resized(s, n, Load(mem, a)))
                    /\ \A n \in 0 .. MaxSize + 1 :
                         Becomes(Resize(mem, v, n), v, Resized(s, n, 0)) /\ Becomes(Reserve(mem, v, n), v, s)
                    /\ \A i \in 0 .. Len(s) - 1 : Becomes(Erase(mem, v, i), v, First(s, i) \o From(s, i + 2))
                    /\ \A w \in Live : Becomes(Assign(mem, v, w), v, Contents(mem, w))
  BY DEF VectorsAsC
<1>1. \A n \in 0 .. MaxSize + 1 : n \in Nat
  BY VectorBounds
<1>2. ASSUME NEW a \in Arguments
      PROVE  /\ Becomes(PushBack(mem, v, a), v, Append(s, Load(mem, a)))
             /\ \A i \in 0 .. Len(s) :
                  Becomes(Insert(mem, v, i, a), v, First(s, i) \o <<Load(mem, a)>> \o From(s, i + 1))
             /\ \A n \in 0 .. MaxSize + 1 :
                  Becomes(ResizeWith(mem, v, n, a), v, Resized(s, n, Load(mem, a)))
  BY <1>1, PushBackAsC, InsertAsC, ResizeWithAsC
<1>3. \A n \in 0 .. MaxSize + 1 :
        Becomes(Resize(mem, v, n), v, Resized(s, n, 0)) /\ Becomes(Reserve(mem, v, n), v, s)
  BY <1>1, ResizeAsC, ReserveAsC
<1>4. \A i \in 0 .. Len(s) - 1 : Becomes(Erase(mem, v, i), v, First(s, i) \o From(s, i + 2))
  BY EraseAsC
<1>5. \A w \in Live : Becomes(Assign(mem, v, w), v, Contents(mem, w))
  BY AssignAsC
<1>6. QED BY <1>2, <1>3, <1>4, <1>5

-----------------------------------------------------------------------------
(* The pointer the program keeps: it points where C++ says it does.        *)
HeldStands ==
  held # Null =>
    /\ held.vec \in Live /\ held.index \in Nat /\ held.index < Size(held.vec)
    /\ held.place = ElementAt(mem, held.vec, held.index)

VectorInv == Kept(mem) /\ HeldStands

LEMMA VectorInvBehaves ==
  ASSUME VectorInv
  PROVE  VectorsBehave
<1>1. VectorsAsC
  BY KeptAsC DEF VectorInv
<1>2. StorageOwned
  <2>1. DOMAIN mem.heap = {mem.vecs[v].data : v \in Live} \ {Null}
    BY DEF VectorInv, Kept, Live
  <2>2. ASSUME NEW v \in Live
        PROVE  /\ Size(v) <= mem.vecs[v].capacity
               /\ mem.vecs[v].data # Null =>
                    /\ DOMAIN mem.heap[mem.vecs[v].data] = 0 .. mem.vecs[v].capacity - 1
                    /\ \A w \in Live \ {v} : mem.vecs[w].data # mem.vecs[v].data
    BY DEF VectorInv, Kept, Live, VectorTyped, Size
  <2>3. QED BY <2>1, <2>2 DEF StorageOwned, VectorInv, HeldStands
<1>3. QED BY <1>1, <1>2 DEF VectorsBehave

(* A call that drops the pointers from i on, and leaves the block where it *)
(* is unless it drops them all.                                            *)
LEMMA DropStands ==
  ASSUME VectorInv, NEW v \in Live, NEW i \in Nat, NEW n \in Nat, NEW items,
         Leaves(mem, mem', v, n, items), i <= n,
         i > 0 => mem'.vecs[v].data = mem.vecs[v].data,
         Drop(v, i)
  PROVE  VectorInv'
<1>1. Kept(mem') /\ Kept(mem)' /\ OthersKept(mem, mem', v) /\ mem'.vecs[v].size = n
  BY DEF Leaves, Kept, VectorTyped
<1>2. HeldStands'
  <2>1. CASE held' = Null
    BY <2>1 DEF HeldStands
  <2>2. CASE held' # Null
    <3>1. held' = held /\ held # Null /\ (held.vec = v => ~ (held.index >= i))
      BY <2>2 DEF Drop
    <3>2. /\ held.vec \in Live /\ held.index \in Nat /\ held.index < Size(held.vec)
          /\ held.place = ElementAt(mem, held.vec, held.index)
      BY <3>1 DEF VectorInv, HeldStands
    <3>3. held.vec \in DOMAIN mem.vecs /\ DOMAIN mem'.vecs = DOMAIN mem.vecs
      BY <1>1, <3>2 DEF Live, OthersKept
    <3>4. CASE held.vec = v
      <4>1. held.index < i
        BY <3>1, <3>2, <3>4
      <4>2. i > 0 /\ held.index < n
        BY <4>1, <3>2
      <4>3. mem'.vecs[v].data = mem.vecs[v].data
        BY <4>2
      <4>4. QED BY <1>1, <3>1, <3>2, <3>3, <3>4, <4>2, <4>3 DEF HeldStands, Live, Size, ElementAt
    <3>5. CASE held.vec # v
      <4>1. mem'.vecs[held.vec] = mem.vecs[held.vec]
        BY <1>1, <3>3, <3>5 DEF OthersKept
      <4>2. QED BY <3>1, <3>2, <3>3, <4>1 DEF HeldStands, Live, Size, ElementAt
    <3>6. QED BY <3>4, <3>5
  <2>3. QED BY <2>1, <2>2
<1>3. QED BY <1>1, <1>2 DEF VectorInv

(* A call that returns a pointer the program keeps.                        *)
LEMMA HoldStands ==
  ASSUME NEW v \in DOMAIN mem'.vecs, NEW i \in Nat, Kept(mem'), i < mem'.vecs[v].size,
         Hold(mem', v, i)
  PROVE  VectorInv'
<1>1. Kept(mem)'
  BY DEF Kept, VectorTyped
<1>2. HeldStands'
  BY DEF Hold, HeldStands, Live, Size
<1>3. QED BY <1>1, <1>2 DEF VectorInv

LEMMA CallSizes ==
  ASSUME VectorInv, NEW v \in Live
  PROVE  /\ v \in DOMAIN mem.vecs /\ Kept(mem)
         /\ Size(v) = mem.vecs[v].size /\ Size(v) \in Nat
         /\ mem.vecs[v].capacity \in Nat /\ Size(v) <= mem.vecs[v].capacity
BY SizeFits DEF VectorInv, Live, Size

LEMMA VectorInit_Inv ==
  ASSUME VectorInit
  PROVE  VectorInv
<1>1. mem.heap = <<>> /\ DOMAIN mem.vecs = {} /\ mem = [heap |-> mem.heap, vecs |-> mem.vecs]
  BY DEF VectorInit
<1>2. DOMAIN mem.heap = {}
  BY <1>1
<1>3. Kept(mem)
  BY <1>1, <1>2 DEF Kept
<1>4. QED BY <1>3 DEF VectorInv, HeldStands, VectorInit

LEMMA PushBackCall_Inv ==
  ASSUME VectorInv, PushBackCall
  PROVE  VectorInv'
<1>1. PICK v \in Live, a \in Arguments :
        mem' = PushBack(mem, v, a) /\ DropIfMoved(v, Size(v) + 1, Size(v))
  BY DEF PushBackCall
<1>2. PICK n : n = Size(v)
  OBVIOUS
<1>3. /\ v \in DOMAIN mem.vecs /\ Kept(mem) /\ n = mem.vecs[v].size /\ n \in Nat
      /\ mem.vecs[v].capacity \in Nat
  BY <1>2, CallSizes
<1>4. PICK i : i = IF n + 1 > mem.vecs[v].capacity THEN 0 ELSE n
  OBVIOUS
<1>5. PICK items : items = Pushed(mem, v, a, n)
  OBVIOUS
<1>6. Leaves(mem, mem', v, n + 1, items)
  BY <1>1, <1>3, <1>5, PushBackLeaves
<1>7. n + 1 <= mem.vecs[v].capacity => mem'.vecs[v].data = mem.vecs[v].data
  BY <1>1, <1>3, PushBackLeaves
<1>8. i > 0 => mem'.vecs[v].data = mem.vecs[v].data
  BY <1>3, <1>4, <1>7
<1>9. i \in Nat /\ n + 1 \in Nat /\ i <= n + 1
  BY <1>3, <1>4
<1>10. Drop(v, i)
  BY <1>1, <1>2, <1>4 DEF DropIfMoved
<1>11. QED BY <1>6, <1>8, <1>9, <1>10, DropStands

LEMMA PopBackCall_Inv ==
  ASSUME VectorInv, PopBackCall
  PROVE  VectorInv'
<1>1. PICK v \in Live : Size(v) > 0 /\ mem' = PopBack(mem, v) /\ Drop(v, Size(v) - 1)
  BY DEF PopBackCall
<1>2. PICK n : n = Size(v) - 1
  OBVIOUS
<1>3. v \in DOMAIN mem.vecs /\ Kept(mem) /\ n = mem.vecs[v].size - 1 /\ n \in 0 .. mem.vecs[v].size
  BY <1>1, <1>2, CallSizes
<1>4. mem' = SetSize(mem, v, n)
  BY <1>1, <1>3 DEF PopBack
<1>5. PICK items : items = [j \in 0 .. n - 1 |-> Item(mem, v, j)]
  OBVIOUS
<1>6. Leaves(mem, mem', v, n, items) /\ mem'.vecs[v].data = mem.vecs[v].data
  BY <1>3, <1>4, <1>5, ShrinkLeaves
<1>7. QED BY <1>1, <1>2, <1>3, <1>6, DropStands

LEMMA ClearCall_Inv ==
  ASSUME VectorInv, ClearCall
  PROVE  VectorInv'
<1>1. PICK v \in Live : mem' = Clear(mem, v) /\ Drop(v, 0)
  BY DEF ClearCall
<1>2. v \in DOMAIN mem.vecs /\ Kept(mem) /\ 0 \in 0 .. mem.vecs[v].size
  BY CallSizes
<1>3. mem' = SetSize(mem, v, 0)
  BY <1>1 DEF Clear
<1>4. PICK items : items = [j \in 0 .. 0 - 1 |-> Item(mem, v, j)]
  OBVIOUS
<1>5. Leaves(mem, mem', v, 0, items)
  BY <1>2, <1>3, <1>4, ShrinkLeaves
<1>6. QED BY <1>1, <1>5, DropStands

LEMMA ReserveCall_Inv ==
  ASSUME VectorInv, ReserveCall
  PROVE  VectorInv'
<1>1. PICK v \in Live, n \in 0 .. MaxSize : mem' = Reserve(mem, v, n) /\ DropIfMoved(v, n, Size(v))
  BY DEF ReserveCall
<1>2. /\ v \in DOMAIN mem.vecs /\ Kept(mem) /\ Size(v) = mem.vecs[v].size /\ Size(v) \in Nat
      /\ mem.vecs[v].capacity \in Nat /\ n \in Nat
  BY CallSizes, VectorBounds
<1>3. PICK i : i = IF n > mem.vecs[v].capacity THEN 0 ELSE Size(v)
  OBVIOUS
<1>4. PICK items : items = [j \in 0 .. mem.vecs[v].size - 1 |-> Item(mem, v, j)]
  OBVIOUS
<1>5. Leaves(mem, mem', v, mem.vecs[v].size, items)
  BY <1>1, <1>2, <1>4, ReserveLeaves
<1>6. n <= mem.vecs[v].capacity => mem'.vecs[v].data = mem.vecs[v].data
  BY <1>1, <1>2, ReserveLeaves
<1>7. i > 0 => mem'.vecs[v].data = mem.vecs[v].data
  BY <1>2, <1>3, <1>6
<1>8. i \in Nat /\ i <= Size(v)
  BY <1>2, <1>3
<1>9. Drop(v, i)
  BY <1>1, <1>3 DEF DropIfMoved
<1>10. QED BY <1>2, <1>5, <1>7, <1>8, <1>9, DropStands

(* resize() with either value.                                             *)
LEMMA Resize_Inv ==
  ASSUME VectorInv, NEW v \in Live, NEW n \in Nat, NEW x,
         \/ mem' = SetSize(mem, v, n) /\ n <= Size(v)
         \/ mem' = SetSize(Fill(Reserve(mem, v, n), v, n, x), v, n) /\ n > Size(v),
         DropIfMoved(v, n, n)
  PROVE  VectorInv'
<1>1. /\ v \in DOMAIN mem.vecs /\ Kept(mem) /\ Size(v) = mem.vecs[v].size /\ Size(v) \in Nat
      /\ mem.vecs[v].capacity \in Nat /\ Size(v) <= mem.vecs[v].capacity
  BY CallSizes
<1>2. PICK i : i = IF n > mem.vecs[v].capacity THEN 0 ELSE n
  OBVIOUS
<1>3. i \in Nat /\ i <= n /\ Drop(v, i)
  BY <1>2 DEF DropIfMoved
<1>4. CASE mem' = SetSize(mem, v, n) /\ n <= Size(v)
  <2>1. PICK items : items = [j \in 0 .. n - 1 |-> Item(mem, v, j)]
    OBVIOUS
  <2>2. n \in 0 .. mem.vecs[v].size
    BY <1>1, <1>4
  <2>3. Leaves(mem, mem', v, n, items) /\ mem'.vecs[v].data = mem.vecs[v].data
    BY <1>1, <1>4, <2>1, <2>2, ShrinkLeaves
  <2>4. QED BY <1>3, <2>3, DropStands
<1>5. CASE mem' = SetSize(Fill(Reserve(mem, v, n), v, n, x), v, n) /\ n > Size(v)
  <2>1. PICK items : items = Filled(mem, v, n, x)
    OBVIOUS
  <2>2. n > mem.vecs[v].size
    BY <1>1, <1>5
  <2>3. Leaves(mem, mem', v, n, items)
    BY <1>1, <1>5, <2>1, <2>2, FillLeaves
  <2>4. n <= mem.vecs[v].capacity => mem'.vecs[v].data = mem.vecs[v].data
    BY <1>1, <1>5, <2>2, FillLeaves
  <2>5. i > 0 => mem'.vecs[v].data = mem.vecs[v].data
    BY <1>1, <1>2, <2>4
  <2>6. QED BY <1>3, <2>3, <2>5, DropStands
<1>6. QED BY <1>4, <1>5

LEMMA ResizeCall_Inv ==
  ASSUME VectorInv, ResizeCall
  PROVE  VectorInv'
<1>1. PICK v \in Live, n \in 0 .. MaxSize : mem' = Resize(mem, v, n) /\ DropIfMoved(v, n, n)
  BY DEF ResizeCall
<1>2. n \in Nat /\ Size(v) = mem.vecs[v].size /\ Size(v) \in Nat
  BY CallSizes, VectorBounds
<1>3. \/ mem' = SetSize(mem, v, n) /\ n <= Size(v)
      \/ mem' = SetSize(Fill(Reserve(mem, v, n), v, n, 0), v, n) /\ n > Size(v)
  <2>1. CASE n > mem.vecs[v].size
    BY <1>1, <1>2, <2>1 DEF Resize
  <2>2. CASE ~ (n > mem.vecs[v].size)
    BY <1>1, <1>2, <2>2 DEF Resize
  <2>3. QED BY <2>1, <2>2
<1>4. QED BY <1>1, <1>2, <1>3, Resize_Inv

LEMMA ResizeWithCall_Inv ==
  ASSUME VectorInv, ResizeWithCall
  PROVE  VectorInv'
<1>1. PICK v \in Live, n \in 0 .. MaxSize, a \in Arguments :
        mem' = ResizeWith(mem, v, n, a) /\ DropIfMoved(v, n, n)
  BY DEF ResizeWithCall
<1>2. /\ n \in Nat /\ Size(v) = mem.vecs[v].size /\ Size(v) \in Nat
      /\ mem.vecs[v].capacity \in Nat /\ Size(v) <= mem.vecs[v].capacity
  BY CallSizes, VectorBounds
<1>3. PICK x : x = Load(mem, a)
  OBVIOUS
<1>4. \/ mem' = SetSize(mem, v, n) /\ n <= Size(v)
      \/ mem' = SetSize(Fill(Reserve(mem, v, n), v, n, x), v, n) /\ n > Size(v)
  <2>1. CASE n > Size(v)
    BY <1>1, <1>2, <1>3, <2>1 DEF ResizeWith
  <2>2. CASE ~ (n > Size(v))
    <3>1. n <= Size(v) /\ Reserve(mem, v, n) = mem
      BY <1>2, <2>2 DEF Reserve
    <3>2. ~ (n > mem.vecs[v].size)
      BY <1>2, <2>2
    <3>3. ResizeWith(mem, v, n, a) = SetSize(Reserve(mem, v, n), v, n)
      BY <3>2 DEF ResizeWith
    <3>4. mem' = SetSize(mem, v, n)
      BY <1>1, <3>1, <3>3
    <3>5. QED BY <3>1, <3>4
  <2>3. QED BY <2>1, <2>2
<1>5. QED BY <1>1, <1>2, <1>4, Resize_Inv

LEMMA EraseCall_Inv ==
  ASSUME VectorInv, EraseCall
  PROVE  VectorInv'
<1>1. PICK v \in Live, i \in 0 .. MaxSize - 1 :
        /\ i < Size(v)
        /\ mem' = Erase(mem, v, i)
        /\ IF i < Size(v) - 1 THEN Hold(mem', v, i) ELSE Drop(v, i)
  BY DEF EraseCall
<1>2. PICK n : n = Size(v)
  OBVIOUS
<1>3. v \in DOMAIN mem.vecs /\ Kept(mem) /\ n = mem.vecs[v].size /\ n \in Nat /\ i \in 0 .. n - 1
  BY <1>1, <1>2, CallSizes
<1>4. PICK items : items = [j \in 0 .. n - 2 |-> IF j < i THEN Item(mem, v, j) ELSE Item(mem, v, j + 1)]
  OBVIOUS
<1>5. Leaves(mem, mem', v, n - 1, items)
  BY <1>1, <1>3, <1>4, EraseLeaves
<1>6. mem'.vecs[v].data = mem.vecs[v].data
  BY <1>1, <1>3, EraseLeaves
<1>7. CASE i < Size(v) - 1
  <2>1. v \in DOMAIN mem'.vecs /\ Kept(mem') /\ i < mem'.vecs[v].size
    BY <1>2, <1>3, <1>5, <1>7 DEF Leaves, OthersKept
  <2>2. Hold(mem', v, i)
    BY <1>1, <1>7
  <2>3. QED BY <1>3, <2>1, <2>2, HoldStands
<1>8. CASE ~ (i < Size(v) - 1)
  <2>1. Drop(v, i) /\ i <= n - 1 /\ i \in Nat /\ n - 1 \in Nat
    BY <1>1, <1>3, <1>8
  <2>2. QED BY <1>5, <1>6, <2>1, DropStands
<1>9. QED BY <1>7, <1>8

LEMMA InsertCall_Inv ==
  ASSUME VectorInv, InsertCall
  PROVE  VectorInv'
<1>1. PICK v \in Live, i \in 0 .. MaxSize - 1, a \in Arguments :
        i <= Size(v) /\ mem' = Insert(mem, v, i, a) /\ Hold(mem', v, i)
  BY DEF InsertCall
<1>2. PICK n : n = Size(v)
  OBVIOUS
<1>3. v \in DOMAIN mem.vecs /\ Kept(mem) /\ n = mem.vecs[v].size /\ n \in Nat /\ i \in 0 .. n
  BY <1>1, <1>2, CallSizes
<1>4. PICK items : items =
        [j \in 0 .. n |-> IF j < i THEN Item(mem, v, j) ELSE IF j = i THEN Load(mem, a) ELSE Item(mem, v, j - 1)]
  OBVIOUS
<1>5. Leaves(mem, mem', v, n + 1, items)
  BY <1>1, <1>3, <1>4, InsertLeaves
<1>6. v \in DOMAIN mem'.vecs /\ Kept(mem') /\ i < mem'.vecs[v].size
  BY <1>3, <1>5 DEF Leaves, OthersKept
<1>7. QED BY <1>1, <1>3, <1>6, HoldStands

LEMMA AssignCall_Inv ==
  ASSUME VectorInv, AssignCall
  PROVE  VectorInv'
<1>1. PICK v \in Live, w \in Live :
        mem' = Assign(mem, v, w) /\ IF v = w THEN UNCHANGED held ELSE Drop(v, 0)
  BY DEF AssignCall
<1>2. CASE v = w
  <2>1. mem' = mem /\ held' = held
    BY <1>1, <1>2 DEF Assign
  <2>2. QED BY <2>1 DEF VectorInv, HeldStands, Kept, VectorTyped, Live, Size, ElementAt
<1>3. CASE v # w
  <2>1. PICK n : n = mem.vecs[w].size
    OBVIOUS
  <2>2. n \in Nat /\ Kept(mem) /\ v \in DOMAIN mem.vecs /\ w \in DOMAIN mem.vecs
    BY <2>1, CallSizes
  <2>3. PICK items : items = [j \in 0 .. n - 1 |-> Item(mem, w, j)]
    OBVIOUS
  <2>4. Leaves(mem, mem', v, n, items)
    BY <1>1, <1>3, <2>1, <2>2, <2>3, AssignLeaves
  <2>5. Drop(v, 0)
    BY <1>1, <1>3
  <2>6. QED BY <2>2, <2>4, <2>5, DropStands
<1>4. QED BY <1>2, <1>3

LEMMA ConstructVector_Inv ==
  ASSUME VectorInv, ConstructVector
  PROVE  VectorInv'
<1>1. PICK v \in Vec \ Live : mem' = Construct(mem, v) /\ held' = held
  BY DEF ConstructVector
<1>2. /\ Kept(mem') /\ DOMAIN mem'.vecs = DOMAIN mem.vecs \cup {v}
      /\ \A w \in DOMAIN mem.vecs : mem'.vecs[w] = mem.vecs[w]
  BY <1>1, ConstructKeeps DEF VectorInv, Live
<1>3. Kept(mem)'
  BY <1>2 DEF Kept, VectorTyped
<1>4. HeldStands'
  BY <1>1, <1>2 DEF VectorInv, HeldStands, Live, Size, ElementAt
<1>5. QED BY <1>3, <1>4 DEF VectorInv

LEMMA DestroyVector_Inv ==
  ASSUME VectorInv, DestroyVector
  PROVE  VectorInv'
<1>1. PICK v \in Live : mem' = Destroy(mem, v) /\ Drop(v, 0)
  BY DEF DestroyVector
<1>2. /\ Kept(mem') /\ DOMAIN mem'.vecs = DOMAIN mem.vecs \ {v}
      /\ \A w \in DOMAIN mem.vecs \ {v} : mem'.vecs[w] = mem.vecs[w]
  BY <1>1, DestroyKeeps DEF VectorInv, Live
<1>3. Kept(mem)'
  BY <1>2 DEF Kept, VectorTyped
<1>4. HeldStands'
  BY <1>1, <1>2 DEF VectorInv, HeldStands, Live, Size, ElementAt, Drop
<1>5. QED BY <1>3, <1>4 DEF VectorInv

LEMMA HoldElement_Inv ==
  ASSUME VectorInv, HoldElement
  PROVE  VectorInv'
<1>1. PICK v \in Live, i \in 0 .. MaxSize - 1 : i < Size(v) /\ Hold(mem, v, i) /\ mem' = mem
  BY DEF HoldElement
<1>2. v \in DOMAIN mem'.vecs /\ i \in Nat /\ Kept(mem') /\ i < mem'.vecs[v].size /\ Hold(mem', v, i)
  BY <1>1, CallSizes DEF Hold
<1>3. QED BY <1>2, HoldStands

LEMMA StoreThrough_Inv ==
  ASSUME VectorInv, StoreThrough
  PROVE  VectorInv'
<1>1. PICK x \in Element : mem' = [mem EXCEPT !.heap[held.place.block][held.place.at] = x]
  BY DEF StoreThrough
<1>2. held # Null /\ held' = held
  BY DEF StoreThrough
<1>3. /\ held.vec \in Live /\ held.index \in Nat /\ held.index < Size(held.vec)
      /\ held.place = ElementAt(mem, held.vec, held.index)
  BY <1>2 DEF VectorInv, HeldStands
<1>4. PICK v, i : v = held.vec /\ i = held.index
  OBVIOUS
<1>5. v \in DOMAIN mem.vecs /\ Kept(mem) /\ i \in 0 .. mem.vecs[v].capacity - 1
  BY <1>3, <1>4, CallSizes
<1>6. held.place.block = mem.vecs[v].data /\ held.place.at = i
  BY <1>3, <1>4 DEF ElementAt
<1>7. mem' = SetItem(mem, v, i, x)
  BY <1>1, <1>6 DEF SetItem
<1>8. Kept(mem') /\ mem'.vecs = mem.vecs
  BY <1>5, <1>7, SetItemKeeps
<1>9. Kept(mem)'
  BY <1>8 DEF Kept, VectorTyped
<1>10. HeldStands'
  BY <1>2, <1>3, <1>8 DEF HeldStands, Live, Size, ElementAt
<1>11. QED BY <1>9, <1>10 DEF VectorInv

(* std::vector: each call of each vector leaves what C++ says, to it and   *)
(* to the others, each block has one owner that gives it back, and a       *)
(* pointer that C++ says is valid points to its element.                   *)
THEOREM VectorsBehaveAlways == VectorSpec => []VectorsBehave
<1>1. VectorInit => VectorInv
  BY VectorInit_Inv
<1>2. VectorInv /\ [VectorNext]_vectorVars => VectorInv'
  <2> SUFFICES ASSUME VectorInv, [VectorNext]_vectorVars PROVE VectorInv'
    OBVIOUS
  <2>1. CASE UNCHANGED vectorVars
    BY <2>1 DEF VectorInv, HeldStands, Kept, VectorTyped, Live, Size, ElementAt, vectorVars
  <2>2. CASE VectorNext
    BY <2>2, PushBackCall_Inv, PopBackCall_Inv, ClearCall_Inv, ReserveCall_Inv, ResizeCall_Inv,
       ResizeWithCall_Inv, EraseCall_Inv, InsertCall_Inv, AssignCall_Inv, ConstructVector_Inv,
       DestroyVector_Inv, HoldElement_Inv, StoreThrough_Inv DEF VectorNext
  <2>3. QED BY <2>1, <2>2
<1>3. VectorInv => VectorsBehave
  BY VectorInvBehaves
<1>4. QED BY <1>1, <1>2, <1>3, PTL DEF VectorSpec

-----------------------------------------------------------------------------
(* std::string: what a call leaves is read off the words of the object.    *)
(* Least and greatest.                                                     *)
LEMMA MinOfTwo ==
  ASSUME NEW a \in Int, NEW b \in Int
  PROVE  Min({a, b}) = IF a <= b THEN a ELSE b
<1>1. PICK x : x = IF a <= b THEN a ELSE b
  OBVIOUS
<1>2. x \in {a, b} /\ \A y \in {a, b} : x <= y
  BY <1>1
<1>3. \A z \in {a, b} : (\A y \in {a, b} : z <= y) => z = x
  BY <1>1
<1>4. QED BY <1>1, <1>2, <1>3 DEF Min

LEMMA MaxOfTwo ==
  ASSUME NEW a \in Int, NEW b \in Int
  PROVE  Max({a, b}) = IF a >= b THEN a ELSE b
<1>1. PICK x : x = IF a >= b THEN a ELSE b
  OBVIOUS
<1>2. x \in {a, b} /\ \A y \in {a, b} : x >= y
  BY <1>1
<1>3. \A z \in {a, b} : (\A y \in {a, b} : z >= y) => z = x
  BY <1>1
<1>4. QED BY <1>1, <1>2, <1>3 DEF Max

LEMMA MinIs ==
  ASSUME NEW S, S \subseteq Int, NEW x \in S, \A y \in S : x <= y
  PROVE  Min(S) = x
<1>1. \A z \in S : (\A y \in S : z <= y) => z = x
  OBVIOUS
<1>2. x \in S /\ \A y \in S : x <= y
  OBVIOUS
<1>3. QED BY <1>1, <1>2 DEF Min

LEMMA MaxIs ==
  ASSUME NEW S, S \subseteq Int, NEW x \in S, \A y \in S : x >= y
  PROVE  Max(S) = x
<1>1. \A z \in S : (\A y \in S : z >= y) => z = x
  OBVIOUS
<1>2. x \in S /\ \A y \in S : x >= y
  OBVIOUS
<1>3. QED BY <1>1, <1>2 DEF Max

(* A set of naturals that is bounded has a greatest element.               *)
LEMMA MaxOfBounded ==
  ASSUME NEW n \in Nat, NEW S, S \subseteq 0 .. n, S # {}
  PROVE  Max(S) \in S /\ \A y \in S : Max(S) >= y
<1>1. PICK T : T = {n - y : y \in S}
  OBVIOUS
<1>2. T \subseteq Nat /\ T # {}
  <2>1. \A y \in S : n - y \in Nat
    OBVIOUS
  <2>2. PICK y : y \in S
    OBVIOUS
  <2>3. n - y \in T
    BY <1>1, <2>2
  <2>4. QED BY <1>1, <2>1, <2>3
<1>3. PICK t : t = Min(T)
  OBVIOUS
<1>4. t \in T /\ \A y \in T : t <= y
  BY <1>2, <1>3, MinOfNaturals
<1>5. PICK x \in S : t = n - x
  BY <1>1, <1>4
<1>6. \A y \in S : n - y \in T
  BY <1>1
<1>7. \A y \in S : x >= y
  BY <1>4, <1>5, <1>6
<1>8. Max(S) = x
  <2>1. S \subseteq Int
    OBVIOUS
  <2>2. QED BY <2>1, <1>7, MaxIs
<1>9. QED BY <1>7, <1>8

-----------------------------------------------------------------------------
(* Sequences, again.                                                       *)
LEMMA SubSeqAt ==
  ASSUME NEW s, IsSeq(s), NEW a \in 1 .. Len(s) + 1, NEW b \in a - 1 .. Len(s),
         NEW f, f = SubSeq(s, a, b)
  PROVE  IsSeq(f) /\ Len(f) = b - a + 1 /\ \A i \in 1 .. b - a + 1 : f[i] = s[a + i - 1]
<1>0. Len(s) \in Nat
  BY DEF IsSeq
<1>1. PICK T : T = {s[i] : i \in 1 .. Len(s)}
  OBVIOUS
<1>2. \A i \in a .. b : s[i] \in T
  BY <1>0, <1>1
<1>3. /\ f \in Seq(T)
      /\ Len(f) = IF a <= b THEN b - a + 1 ELSE 0
      /\ \A i \in 1 .. b - a + 1 : f[i] = s[a + i - 1]
  BY <1>0, <1>2, SubSeqProperties
<1>4. IsSeq(f)
  BY <1>3, InSeq
<1>5. QED BY <1>0, <1>3, <1>4

LEMMA PrefixAt ==
  ASSUME NEW s, IsSeq(s), NEW n \in Nat, NEW f, f = Prefix(s, n)
  PROVE  /\ IsSeq(f) /\ Len(f) = (IF n <= Len(s) THEN n ELSE Len(s))
         /\ \A i \in 1 .. Len(f) : f[i] = s[i]
<1>0. Len(s) \in Nat
  BY DEF IsSeq
<1>1. PICK m : m = IF n <= Len(s) THEN n ELSE Len(s)
  OBVIOUS
<1>2. Min({n, Len(s)}) = m
  BY <1>0, <1>1, MinOfTwo
<1>3. m \in 1 - 1 .. Len(s) /\ 1 \in 1 .. Len(s) + 1
  BY <1>0, <1>1
<1>4. f = SubSeq(s, 1, m)
  BY <1>2 DEF Prefix
<1>5. IsSeq(f) /\ Len(f) = m - 1 + 1 /\ \A i \in 1 .. m - 1 + 1 : f[i] = s[1 + i - 1]
  BY <1>3, <1>4, SubSeqAt
<1>6. Len(f) = m /\ \A i \in 1 .. m : f[i] = s[i]
  BY <1>0, <1>1, <1>5
<1>7. QED BY <1>1, <1>5, <1>6

LEMMA SameSeq ==
  ASSUME NEW s, IsSeq(s), NEW t, IsSeq(t), Len(s) = Len(t), \A i \in 1 .. Len(s) : s[i] = t[i]
  PROVE  s = t
BY DEF IsSeq

LEMMA RunAt ==
  ASSUME NEW n \in Int, NEW c, NEW f, f = Run(n, c)
  PROVE  /\ IsSeq(f) /\ Len(f) = (IF n >= 0 THEN n ELSE 0)
         /\ \A i \in 1 .. Len(f) : f[i] = c
<1>1. PICK m : m = IF n >= 0 THEN n ELSE 0
  OBVIOUS
<1>2. Max({n, 0}) = m /\ m \in Nat
  BY <1>1, MaxOfTwo
<1>3. f = [k \in 1 .. m |-> c]
  BY <1>2 DEF Run
<1>4. Len(f) = m
  BY <1>2, <1>3
<1>5. QED BY <1>1, <1>2, <1>3, <1>4 DEF IsSeq

(* Adding and cutting: what is left of s and t within n.                   *)
Joined(f, s, t, n) ==
  /\ IsSeq(f) /\ Len(f) = (IF n <= Len(s) + Len(t) THEN n ELSE Len(s) + Len(t))
  /\ \A i \in 1 .. Len(f) : f[i] = IF i <= Len(s) THEN s[i] ELSE t[i - Len(s)]

LEMMA JoinedAt ==
  ASSUME NEW s, IsSeq(s), NEW t, IsSeq(t), NEW n \in Nat, NEW f, f = Prefix(s \o t, n)
  PROVE  Joined(f, s, t, n)
<1>1. PICK g : g = s \o t
  OBVIOUS
<1>2. /\ IsSeq(g) /\ Len(g) = Len(s) + Len(t)
      /\ \A i \in 1 .. Len(s) + Len(t) : g[i] = IF i <= Len(s) THEN s[i] ELSE t[i - Len(s)]
  BY <1>1, ConcatAt
<1>3. f = Prefix(g, n)
  BY <1>1
<1>4. /\ IsSeq(f) /\ Len(f) = (IF n <= Len(g) THEN n ELSE Len(g))
      /\ \A i \in 1 .. Len(f) : f[i] = g[i]
  BY <1>2, <1>3, PrefixAt
<1>5. Len(f) \in Nat /\ Len(s) \in Nat /\ Len(t) \in Nat
  BY <1>4 DEF IsSeq
<1>6. \A i \in 1 .. Len(f) : i \in 1 .. Len(s) + Len(t)
  BY <1>2, <1>4, <1>5
<1>7. QED BY <1>2, <1>4, <1>6 DEF Joined
-----------------------------------------------------------------------------
(* The words of r hold the text u: its characters, and the 0 behind them.  *)
Text(u) == IsSeq(u) /\ \A i \in 1 .. Len(u) : u[i] \in 1 .. 127

Holds(r, u) ==
  /\ r = [data |-> r.data, size |-> r.size] /\ DOMAIN r.data = Position
  /\ Text(u) /\ Len(u) <= Capacity
  /\ r.size = Len(u) /\ r.data[Len(u)] = 0
  /\ \A i \in 0 .. Len(u) - 1 : r.data[i] = u[i + 1]

LEMMA HoldsText ==
  ASSUME NEW r, NEW u, Holds(r, u)
  PROVE  /\ Text(u) /\ IsSeq(u) /\ Len(u) \in 0 .. Capacity /\ Capacity \in Nat
         /\ r.size = Len(u) /\ r.data[Len(u)] = 0
BY StringBounds DEF Holds, Text, IsSeq

LEMMA HoldsRead ==
  ASSUME NEW r, NEW u, Holds(r, u)
  PROVE  Chars(r) = u /\ Terminated(r) = u /\ Len(u) \in 0 .. Capacity
<1>0. Len(u) \in 0 .. Capacity /\ IsSeq(u) /\ r.size = Len(u)
  BY DEF Holds, Text, IsSeq
<1>1. \A k \in 1 .. Len(u) : r.data[k - 1] = u[k]
  <2> SUFFICES ASSUME NEW k \in 1 .. Len(u) PROVE r.data[k - 1] = u[k]
    OBVIOUS
  <2>1. k - 1 \in 0 .. Len(u) - 1 /\ k - 1 + 1 = k
    BY <1>0
  <2>2. QED BY <2>1 DEF Holds
<1>2. Chars(r) = u
  <2>1. u = [k \in 1 .. Len(u) |-> u[k]]
    BY <1>0 DEF IsSeq
  <2>2. QED BY <1>0, <1>1, <2>1 DEF Chars
<1>3. Min({i \in Position : r.data[i] = 0}) = Len(u)
  <2>1. PICK S : S = {i \in Position : r.data[i] = 0}
    OBVIOUS
  <2>2. Len(u) \in S /\ S \subseteq Int
    BY <1>0, <2>1, StringBounds DEF Holds, Position
  <2>3. \A i \in 0 .. Len(u) - 1 : i + 1 \in 1 .. Len(u)
    BY <1>0
  <2>9. \A x \in 1 .. 127 : x # 0
    OBVIOUS
  <2>4. \A i \in 0 .. Len(u) - 1 : r.data[i] # 0
    <3> SUFFICES ASSUME NEW i \in 0 .. Len(u) - 1 PROVE r.data[i] # 0
      OBVIOUS
    <3>1. r.data[i] = u[i + 1]
      BY DEF Holds
    <3>2. u[i + 1] \in 1 .. 127
      BY <2>3 DEF Holds, Text
    <3>3. QED BY <3>1, <3>2, <2>9, Zenon
  <2>5. \A i \in 0 .. Len(u) - 1 : i \notin S
    BY <2>1, <2>4, Zenon
  <2>6. \A i \in S : Len(u) <= i
    BY <1>0, <2>1, <2>5 DEF Position
  <2>7. Min(S) = Len(u)
    BY <2>2, <2>6, MinIs
  <2>8. QED BY <2>1, <2>7
<1>4. Terminated(r) = Chars(r)
  BY <1>0, <1>3 DEF Terminated, Chars
<1>5. QED BY <1>0, <1>2, <1>4

LEMMA HoldsSays ==
  ASSUME NEW r, NEW u, NEW v, Holds(r, u), u = Prefix(v, Capacity)
  PROVE  Says(r, v)
<1>1. Chars(r) = u /\ Len(u) \in 0 .. Capacity
  BY HoldsRead
<1>2. QED BY <1>1 DEF Says, Holds

(* A text that fits is not cut.                                            *)
LEMMA FitsUncut ==
  ASSUME NEW u, IsSeq(u), Len(u) <= Capacity
  PROVE  Prefix(u, Capacity) = u
<1>1. PICK f : f = Prefix(u, Capacity)
  OBVIOUS
<1>2. Capacity \in Nat /\ Len(u) \in Nat
  BY StringBounds DEF IsSeq
<1>3. IsSeq(f) /\ Len(f) = Len(u) /\ \A i \in 1 .. Len(f) : f[i] = u[i]
  <2>1. IsSeq(f) /\ Len(f) = (IF Capacity <= Len(u) THEN Capacity ELSE Len(u))
    BY <1>1, <1>2, PrefixAt
  <2>2. \A i \in 1 .. Len(f) : f[i] = u[i]
    BY <1>1, <1>2, PrefixAt
  <2>3. QED BY <1>2, <2>1, <2>2
<1>4. f = u
  BY <1>3, SameSeq
<1>5. QED BY <1>1, <1>4

LEMMA ClearHolds ==
  ASSUME NEW r, r = [data |-> r.data, size |-> r.size], DOMAIN r.data = Position
  PROVE  Holds(StrClear(r), <<>>)
<1>1. PICK q : q = StrClear(r)
  OBVIOUS
<1>2. q = [data |-> [r.data EXCEPT ![0] = 0], size |-> 0]
  BY <1>1 DEF StrClear
<1>3. 0 \in Position /\ 0 <= Capacity
  BY StringBounds DEF Position
<1>4. q.size = 0 /\ DOMAIN q.data = Position /\ q.data[0] = 0 /\ q = [data |-> q.data, size |-> q.size]
  BY <1>2, <1>3
<1>5. Len(<<>>) = 0 /\ Text(<<>>)
  BY DEF Text, IsSeq
<1>6. Holds(q, <<>>)
  BY <1>3, <1>4, <1>5 DEF Holds
<1>7. QED BY <1>1, <1>6

LEMMA NewHolds == Holds(NewString, <<>>)
<1>1. PICK r : r = Unwritten
  OBVIOUS
<1>2. r = [data |-> r.data, size |-> r.size] /\ DOMAIN r.data = Position
  BY <1>1 DEF Unwritten
<1>3. QED BY <1>1, <1>2, ClearHolds DEF NewString

LEMMA PutHolds ==
  ASSUME NEW r, NEW u, Holds(r, u), NEW t, Text(t),
         NEW f, f = Prefix(u \o t, Capacity), NEW q, q = Put(r, t)
  PROVE  Holds(q, f)
<1>0. Len(u) \in 0 .. Capacity /\ Len(t) \in Nat /\ Capacity \in Nat
  BY StringBounds DEF Holds, Text, IsSeq
<1>1. PICK n : n = IF Len(t) <= Capacity - Len(u) THEN Len(t) ELSE Capacity - Len(u)
  OBVIOUS
<1>2. Min({Len(t), Capacity - r.size}) = n /\ r.size = Len(u)
  <2>1. r.size = Len(u)
    BY DEF Holds
  <2>2. Capacity - Len(u) \in Int
    BY <1>0
  <2>3. QED BY <1>0, <1>1, <2>1, <2>2, MinOfTwo
<1>3. q = [data |-> [i \in Position |->
                       IF i = Len(u) + n THEN 0
                       ELSE IF i \in Len(u) .. Len(u) + n THEN t[i - Len(u) + 1] ELSE r.data[i]],
           size |-> Len(u) + n]
  BY <1>2 DEF Put
<1>4. /\ IsSeq(f) /\ Len(f) = (IF Capacity <= Len(u) + Len(t) THEN Capacity ELSE Len(u) + Len(t))
      /\ \A i \in 1 .. Len(f) : f[i] = IF i <= Len(u) THEN u[i] ELSE t[i - Len(u)]
  <2>1. IsSeq(u) /\ IsSeq(t)
    BY DEF Holds, Text
  <2>2. Joined(f, u, t, Capacity)
    BY <1>0, <2>1, JoinedAt
  <2>3. QED BY <2>2 DEF Joined
<1>5. Len(f) = Len(u) + n /\ Len(f) \in 0 .. Capacity
  BY <1>0, <1>1, <1>4
<1>6. \A i \in 1 .. Len(f) : f[i] \in 1 .. 127
  <2> SUFFICES ASSUME NEW i \in 1 .. Len(f) PROVE f[i] \in 1 .. 127
    OBVIOUS
  <2>1. CASE i <= Len(u)
    BY <1>0, <1>4, <1>5, <2>1 DEF Holds, Text
  <2>2. CASE ~ (i <= Len(u))
    <3>1. i - Len(u) \in 1 .. Len(t)
      BY <1>0, <1>1, <1>5, <2>2
    <3>2. f[i] = t[i - Len(u)]
      BY <1>4, <2>2
    <3>3. QED BY <3>1, <3>2 DEF Text
  <2>3. QED BY <2>1, <2>2
<1>7. /\ q.size = Len(f) /\ DOMAIN q.data = Position /\ q = [data |-> q.data, size |-> q.size]
      /\ q.data[Len(f)] = 0
  BY <1>3, <1>5 DEF Position
<1>8. ASSUME NEW i \in 0 .. Len(f) - 1 PROVE q.data[i] = f[i + 1]
  <2>1. i \in Position /\ i # Len(u) + n /\ i + 1 \in 1 .. Len(f)
    BY <1>0, <1>5 DEF Position
  <2>2. q.data[i] = IF i \in Len(u) .. Len(u) + n THEN t[i - Len(u) + 1] ELSE r.data[i]
    BY <1>3, <2>1
  <2>3. CASE i < Len(u)
    <3>1. q.data[i] = r.data[i] /\ i \in 0 .. Len(u) - 1 /\ i + 1 <= Len(u)
      BY <1>0, <1>5, <2>2, <2>3
    <3>2. r.data[i] = u[i + 1]
      BY <3>1 DEF Holds
    <3>3. QED BY <1>4, <2>1, <3>1, <3>2
  <2>4. CASE ~ (i < Len(u))
    <3>1. i \in Len(u) .. Len(u) + n /\ ~ (i + 1 <= Len(u)) /\ i - Len(u) + 1 = i + 1 - Len(u)
      BY <1>0, <1>5, <2>4
    <3>2. QED BY <1>4, <2>1, <2>2, <3>1
  <2>5. QED BY <2>3, <2>4
<1>9. QED BY <1>4, <1>5, <1>6, <1>7, <1>8 DEF Holds, Text

(* What a text becomes: a piece of it, without a piece, with one set in.   *)
Span(u, p, k) == IF k < 0 THEN Len(u) - p ELSE Min({k, Len(u) - p})
Piece(u, p, k) == SubSeq(u, p + 1, p + Span(u, p, k))
Erased(u, p, k) == Prefix(u, p) \o SubSeq(u, p + Span(u, p, k) + 1, Len(u))
Inlaid(u, p, t) == Prefix(u, p) \o t \o SubSeq(u, p + 1, Len(u))

IsPiece(f, u, p, n) == IsSeq(f) /\ Len(f) = n /\ \A j \in 1 .. n : f[j] = u[p + j]

IsErased(f, u, p, n) ==
  /\ IsSeq(f) /\ Len(f) = Len(u) - n
  /\ \A j \in 1 .. Len(f) : f[j] = IF j <= p THEN u[j] ELSE u[j + n]

IsInlaid(f, u, p, t) ==
  /\ IsSeq(f) /\ Len(f) = Len(u) + Len(t)
  /\ \A j \in 1 .. Len(f) :
       f[j] = IF j <= p THEN u[j] ELSE IF j <= p + Len(t) THEN t[j - p] ELSE u[j - Len(t)]

LEMMA SpanFits ==
  ASSUME NEW u, IsSeq(u), NEW p \in 0 .. Len(u), NEW k \in Int, NEW n, n = Span(u, p, k)
  PROVE  n \in 0 .. Len(u) - p /\ n = IF k < 0 \/ k > Len(u) - p THEN Len(u) - p ELSE k
<1>1. Len(u) \in Nat /\ Len(u) - p \in Nat
  BY DEF IsSeq
<1>2. Min({k, Len(u) - p}) = IF k <= Len(u) - p THEN k ELSE Len(u) - p
  BY <1>1, MinOfTwo
<1>3. QED BY <1>1, <1>2 DEF Span

LEMMA PieceAt ==
  ASSUME NEW u, IsSeq(u), NEW p \in 0 .. Len(u), NEW k \in Int, NEW f, f = Piece(u, p, k)
  PROVE  IsPiece(f, u, p, Span(u, p, k))
<1>1. PICK n : n = Span(u, p, k)
  OBVIOUS
<1>2. n \in 0 .. Len(u) - p
  BY <1>1, SpanFits
<1>3. PICK a, b : a = p + 1 /\ b = p + n
  OBVIOUS
<1>4. a \in 1 .. Len(u) + 1 /\ b \in a - 1 .. Len(u) /\ b - a + 1 = n
  BY <1>2, <1>3 DEF IsSeq
<1>5. f = SubSeq(u, a, b)
  BY <1>1, <1>3 DEF Piece
<1>6. IsSeq(f) /\ Len(f) = b - a + 1 /\ \A j \in 1 .. b - a + 1 : f[j] = u[a + j - 1]
  BY <1>4, <1>5, SubSeqAt
<1>7. \A j \in 1 .. n : a + j - 1 = p + j
  BY <1>2, <1>3
<1>8. QED BY <1>1, <1>4, <1>6, <1>7 DEF IsPiece

LEMMA ErasedAt ==
  ASSUME NEW u, IsSeq(u), NEW p \in 0 .. Len(u), NEW k \in Int, NEW f, f = Erased(u, p, k)
  PROVE  IsErased(f, u, p, Span(u, p, k))
<1>0. Len(u) \in Nat
  BY DEF IsSeq
<1>1. PICK n : n = Span(u, p, k)
  OBVIOUS
<1>2. n \in 0 .. Len(u) - p
  BY <1>1, SpanFits
<1>3. PICK a, b, c, d : a = Prefix(u, p) /\ c = p + n + 1 /\ d = Len(u) /\ b = SubSeq(u, c, d)
  OBVIOUS
<1>4. IsSeq(a) /\ Len(a) = p /\ \A j \in 1 .. p : a[j] = u[j]
  <2>1. IsSeq(a) /\ Len(a) = (IF p <= Len(u) THEN p ELSE Len(u)) /\ \A j \in 1 .. Len(a) : a[j] = u[j]
    BY <1>0, <1>3, PrefixAt
  <2>2. QED BY <2>1, <1>0
<1>5. c \in 1 .. Len(u) + 1 /\ d \in c - 1 .. Len(u) /\ d = Len(u)
  BY <1>0, <1>2, <1>3
<1>6. IsSeq(b) /\ Len(b) = Len(u) - c + 1 /\ \A j \in 1 .. Len(u) - c + 1 : b[j] = u[c + j - 1]
  <2>1. IsSeq(b) /\ Len(b) = d - c + 1 /\ \A j \in 1 .. d - c + 1 : b[j] = u[c + j - 1]
    <3>1. b = SubSeq(u, c, d) /\ IsSeq(u)
      BY <1>3
    <3>2. c \in 1 .. Len(u) + 1 /\ d \in c - 1 .. Len(u)
      BY <1>5
    <3>3. QED BY <3>1, <3>2, SubSeqAt
  <2>2. QED BY <1>5, <2>1
<1>7. f = a \o b
  BY <1>1, <1>3 DEF Erased
<1>8. /\ IsSeq(f) /\ Len(f) = Len(a) + Len(b)
      /\ \A j \in 1 .. Len(a) + Len(b) : f[j] = IF j <= Len(a) THEN a[j] ELSE b[j - Len(a)]
  BY <1>4, <1>6, <1>7, ConcatAt
<1>9. Len(f) = Len(u) - n
  BY <1>0, <1>2, <1>3, <1>4, <1>6, <1>8
<1>10. ASSUME NEW j \in 1 .. Len(f) PROVE f[j] = IF j <= p THEN u[j] ELSE u[j + n]
  <2>1. f[j] = IF j <= p THEN a[j] ELSE b[j - p]
    <3>1. j \in 1 .. Len(a) + Len(b)
      BY <1>8
    <3>2. f[j] = IF j <= Len(a) THEN a[j] ELSE b[j - Len(a)]
      BY <3>1, <1>8
    <3>3. QED BY <3>2, <1>4
  <2>2. CASE j <= p
    BY <2>1, <2>2, <1>0, <1>4, <1>9
  <2>3. CASE ~ (j <= p)
    <3>1. j - p \in 1 .. Len(u) - c + 1 /\ c + (j - p) - 1 = j + n
      BY <1>0, <1>2, <1>3, <1>9, <2>3
    <3>2. b[j - p] = u[j + n]
      BY <3>1, <1>6
    <3>3. QED BY <2>1, <2>3, <3>2
  <2>4. QED BY <2>2, <2>3
<1>11. QED BY <1>1, <1>8, <1>9, <1>10 DEF IsErased

LEMMA InlaidAt ==
  ASSUME NEW u, IsSeq(u), NEW p \in 0 .. Len(u), NEW t, IsSeq(t), NEW f, f = Inlaid(u, p, t)
  PROVE  IsInlaid(f, u, p, t)
<1>0. Len(u) \in Nat /\ Len(t) \in Nat
  BY DEF IsSeq
<1>3. PICK a, b, c, d : a = Prefix(u, p) /\ c = p + 1 /\ d = Len(u) /\ b = SubSeq(u, c, d)
  OBVIOUS
<1>4. IsSeq(a) /\ Len(a) = p /\ \A j \in 1 .. p : a[j] = u[j]
  <2>1. IsSeq(a) /\ Len(a) = (IF p <= Len(u) THEN p ELSE Len(u)) /\ \A j \in 1 .. Len(a) : a[j] = u[j]
    BY <1>0, <1>3, PrefixAt
  <2>2. QED BY <2>1, <1>0
<1>5. c \in 1 .. Len(u) + 1 /\ d \in c - 1 .. Len(u) /\ d = Len(u)
  BY <1>0, <1>3
<1>6. IsSeq(b) /\ Len(b) = Len(u) - c + 1 /\ \A j \in 1 .. Len(u) - c + 1 : b[j] = u[c + j - 1]
  <2>1. IsSeq(b) /\ Len(b) = d - c + 1 /\ \A j \in 1 .. d - c + 1 : b[j] = u[c + j - 1]
    <3>1. b = SubSeq(u, c, d) /\ IsSeq(u)
      BY <1>3
    <3>2. c \in 1 .. Len(u) + 1 /\ d \in c - 1 .. Len(u)
      BY <1>5
    <3>3. QED BY <3>1, <3>2, SubSeqAt
  <2>2. QED BY <1>5, <2>1
<1>7. PICK g : g = a \o t
  OBVIOUS
<1>8. f = g \o b
  BY <1>3, <1>7 DEF Inlaid
<1>9. /\ IsSeq(g) /\ Len(g) = Len(a) + Len(t)
      /\ \A j \in 1 .. Len(a) + Len(t) : g[j] = IF j <= Len(a) THEN a[j] ELSE t[j - Len(a)]
  BY <1>4, <1>7, ConcatAt
<1>10. /\ IsSeq(f) /\ Len(f) = Len(g) + Len(b)
       /\ \A j \in 1 .. Len(g) + Len(b) : f[j] = IF j <= Len(g) THEN g[j] ELSE b[j - Len(g)]
  BY <1>6, <1>8, <1>9, ConcatAt
<1>11. Len(g) = p + Len(t) /\ Len(f) = Len(u) + Len(t)
  BY <1>0, <1>3, <1>4, <1>6, <1>9, <1>10
<1>12. ASSUME NEW j \in 1 .. Len(f)
       PROVE  f[j] = IF j <= p THEN u[j] ELSE IF j <= p + Len(t) THEN t[j - p] ELSE u[j - Len(t)]
  <2>1. f[j] = IF j <= p + Len(t) THEN g[j] ELSE b[j - (p + Len(t))]
    <3>1. j \in 1 .. Len(g) + Len(b)
      BY <1>10
    <3>2. f[j] = IF j <= Len(g) THEN g[j] ELSE b[j - Len(g)]
      BY <3>1, <1>10
    <3>3. QED BY <3>2, <1>11
  <2>2. CASE j <= p
    <3>1. j \in 1 .. p /\ j <= p + Len(t) /\ j \in 1 .. Len(a) + Len(t)
      BY <1>0, <1>4, <1>11, <2>2
    <3>2. g[j] = a[j]
      BY <3>1, <1>4, <1>9, <2>2
    <3>3. QED BY <3>1, <3>2, <2>1, <2>2, <1>4
  <2>3. CASE ~ (j <= p) /\ j <= p + Len(t)
    <3>1. j \in 1 .. Len(a) + Len(t) /\ ~ (j <= Len(a))
      BY <1>0, <1>4, <1>11, <2>3
    <3>2. g[j] = t[j - p]
      BY <3>1, <1>4, <1>9
    <3>3. QED BY <3>2, <2>1, <2>3
  <2>4. CASE ~ (j <= p) /\ ~ (j <= p + Len(t))
    <3>1. j - (p + Len(t)) \in 1 .. Len(u) - c + 1 /\ c + (j - (p + Len(t))) - 1 = j - Len(t)
      BY <1>0, <1>3, <1>11, <2>4
    <3>2. b[j - (p + Len(t))] = u[j - Len(t)]
      BY <3>1, <1>6
    <3>3. QED BY <3>2, <2>1, <2>4
  <2>5. QED BY <2>2, <2>3, <2>4
<1>13. QED BY <1>10, <1>11, <1>12 DEF IsInlaid

-----------------------------------------------------------------------------
(* Each method, and the text it leaves.                                    *)
LEMMA AppendIs ==
  ASSUME NEW s, IsSeq(s), NEW x
  PROVE  Append(s, x) = s \o <<x>>
<1>1. PICK one, f, g : one = <<x>> /\ f = Append(s, x) /\ g = s \o one
  OBVIOUS
<1>2. IsSeq(one) /\ Len(one) = 1 /\ one[1] = x
  BY <1>1 DEF IsSeq
<1>3. IsSeq(f) /\ Len(f) = Len(s) + 1 /\ \A i \in 1 .. Len(s) + 1 : f[i] = IF i = Len(s) + 1 THEN x ELSE s[i]
  <2>1. f = Append(s, x)
    BY <1>1
  <2>2. IsSeq(f) /\ Len(f) = Len(s) + 1
    BY <2>1, AppendAt
  <2>3. \A i \in 1 .. Len(s) + 1 : f[i] = IF i = Len(s) + 1 THEN x ELSE s[i]
    BY <2>1, AppendAt
  <2>4. QED BY <2>2, <2>3
<1>4. /\ IsSeq(g) /\ Len(g) = Len(s) + Len(one)
      /\ \A i \in 1 .. Len(s) + Len(one) : g[i] = IF i <= Len(s) THEN s[i] ELSE one[i - Len(s)]
  <2>1. g = s \o one
    BY <1>1
  <2>2. QED BY <1>2, <2>1, ConcatAt
<1>5. Len(s) \in Nat
  BY DEF IsSeq
<1>6. \A i \in 1 .. Len(f) : f[i] = g[i]
  <2> SUFFICES ASSUME NEW i \in 1 .. Len(f) PROVE f[i] = g[i]
    OBVIOUS
  <2>1. i \in 1 .. Len(s) + 1
    BY <1>3
  <2>2. f[i] = IF i = Len(s) + 1 THEN x ELSE s[i]
    BY <2>1, <1>3
  <2>3. g[i] = IF i <= Len(s) THEN s[i] ELSE one[i - Len(s)]
    BY <2>1, <1>2, <1>4
  <2>4. QED BY <1>2, <1>5, <2>1, <2>2, <2>3
<1>7. f = g
  <2>1. Len(f) = Len(g)
    BY <1>2, <1>3, <1>4
  <2>2. QED BY <1>3, <1>4, <1>6, <2>1, SameSeq
<1>8. QED BY <1>1, <1>7

LEMMA TextJoined ==
  ASSUME NEW u, Text(u), NEW t, Text(t), NEW f, f = u \o t
  PROVE  Text(f)
<1>1. /\ IsSeq(f) /\ Len(f) = Len(u) + Len(t)
      /\ \A i \in 1 .. Len(u) + Len(t) : f[i] = IF i <= Len(u) THEN u[i] ELSE t[i - Len(u)]
  BY ConcatAt DEF Text
<1>2. Len(u) \in Nat /\ Len(t) \in Nat
  BY DEF Text, IsSeq
<1>3. ASSUME NEW i \in 1 .. Len(f) PROVE f[i] \in 1 .. 127
  <2>1. i \in 1 .. Len(u) \/ i - Len(u) \in 1 .. Len(t)
    BY <1>1, <1>2
  <2>2. f[i] = IF i <= Len(u) THEN u[i] ELSE t[i - Len(u)]
    BY <1>1
  <2>3. CASE i <= Len(u)
    BY <1>2, <2>1, <2>2, <2>3 DEF Text
  <2>4. CASE ~ (i <= Len(u))
    <3>1. i - Len(u) \in 1 .. Len(t) /\ f[i] = t[i - Len(u)]
      BY <1>2, <2>1, <2>2, <2>4
    <3>2. QED BY <3>1 DEF Text
  <2>5. QED BY <2>3, <2>4
<1>4. QED BY <1>1, <1>3 DEF Text

LEMMA PrefixOfFull ==
  ASSUME NEW u, IsSeq(u), Len(u) = Capacity, NEW t, IsSeq(t)
  PROVE  Prefix(u \o t, Capacity) = u
<1>1. PICK f : f = Prefix(u \o t, Capacity)
  OBVIOUS
<1>2. Capacity \in Nat /\ Len(t) \in Nat
  BY StringBounds DEF IsSeq
<1>3. Joined(f, u, t, Capacity)
  BY <1>1, <1>2, JoinedAt
<1>4. Len(f) = Len(u) /\ \A i \in 1 .. Len(f) : f[i] = u[i]
  BY <1>2, <1>3 DEF Joined
<1>5. f = u
  BY <1>3, <1>4, SameSeq DEF Joined
<1>6. QED BY <1>1, <1>5

LEMMA PushBackHolds ==
  ASSUME NEW r, NEW u, Holds(r, u), NEW c \in 1 .. 127
  PROVE  Holds(StrPushBack(r, c), Prefix(Append(u, c), Capacity))
<1>1. PICK one : one = <<c>>
  OBVIOUS
<1>2. Text(one)
  BY <1>1 DEF Text, IsSeq
<1>3. Append(u, c) = u \o one
  BY <1>1, AppendIs, HoldsText
<1>4. CASE r.size >= Capacity
  <2>1. Len(u) = Capacity /\ IsSeq(u) /\ IsSeq(one)
    BY <1>2, <1>4, HoldsText DEF Text
  <2>2. Prefix(u \o one, Capacity) = u
    BY <2>1, PrefixOfFull
  <2>3. QED BY <1>3, <1>4, <2>2 DEF StrPushBack
<1>5. CASE ~ (r.size >= Capacity)
  <2>1. StrPushBack(r, c) = Put(r, one)
    BY <1>1, <1>5 DEF StrPushBack
  <2>2. Holds(Put(r, one), Prefix(u \o one, Capacity))
    BY <1>2, PutHolds
  <2>3. QED BY <1>3, <2>1, <2>2
<1>6. QED BY <1>4, <1>5

Shrunk(r, m) == [data |-> [i \in Position |-> IF i = m THEN 0 ELSE r.data[i]], size |-> m]

LEMMA ShrunkHolds ==
  ASSUME NEW r, NEW u, Holds(r, u), NEW m \in 0 .. Len(u), NEW f, f = Prefix(u, m)
  PROVE  Holds(Shrunk(r, m), f)
<1>0. Len(u) \in 0 .. Capacity /\ IsSeq(u) /\ Text(u) /\ Capacity \in Nat
  BY HoldsText
<1>1. IsSeq(f) /\ Len(f) = m /\ \A i \in 1 .. m : f[i] = u[i]
  <2>1. m \in Nat
    BY <1>0
  <2>2. IsSeq(f) /\ Len(f) = (IF m <= Len(u) THEN m ELSE Len(u)) /\ \A j \in 1 .. Len(f) : f[j] = u[j]
    BY <1>0, <2>1, PrefixAt
  <2>3. QED BY <1>0, <2>2
<1>2. Text(f)
  <2>1. ASSUME NEW i \in 1 .. Len(f) PROVE f[i] \in 1 .. 127
    <3>1. i \in 1 .. m /\ i \in 1 .. Len(u)
      BY <1>0, <1>1
    <3>2. f[i] = u[i]
      BY <3>1, <1>1
    <3>3. QED BY <3>1, <3>2, <1>0 DEF Text
  <2>2. QED BY <1>1, <2>1 DEF Text
<1>3. PICK q : q = Shrunk(r, m)
  OBVIOUS
<1>4. /\ q.size = m /\ DOMAIN q.data = Position /\ q = [data |-> q.data, size |-> q.size]
      /\ \A i \in Position : q.data[i] = IF i = m THEN 0 ELSE r.data[i]
  BY <1>3 DEF Shrunk
<1>5. q.data[m] = 0
  BY <1>0, <1>4 DEF Position
<1>6. ASSUME NEW i \in 0 .. m - 1 PROVE q.data[i] = f[i + 1]
  <2>1. i \in Position /\ i # m /\ i \in 0 .. Len(u) - 1 /\ i + 1 \in 1 .. m
    BY <1>0 DEF Position
  <2>2. q.data[i] = r.data[i]
    BY <1>4, <2>1
  <2>3. r.data[i] = u[i + 1]
    BY <2>1 DEF Holds
  <2>4. QED BY <1>1, <2>1, <2>2, <2>3
<1>7. Holds(q, f)
  BY <1>0, <1>1, <1>2, <1>4, <1>5, <1>6 DEF Holds
<1>8. QED BY <1>3, <1>7

LEMMA PopBackHolds ==
  ASSUME NEW r, NEW u, Holds(r, u)
  PROVE  Holds(StrPopBack(r), IF Len(u) > 0 THEN Front(u) ELSE u)
<1>0. Len(u) \in 0 .. Capacity /\ IsSeq(u) /\ r.size = Len(u) /\ Capacity \in Nat
  BY HoldsText
<1>1. PICK m : m = IF Len(u) > 0 THEN Len(u) - 1 ELSE 0
  OBVIOUS
<1>2. m \in 0 .. Len(u) /\ m \in Position
  BY <1>0, <1>1 DEF Position
<1>3. Max({r.size - 1, 0}) = m
  BY <1>0, <1>1, MaxOfTwo
<1>4. StrPopBack(r) = Shrunk(r, m)
  <2>1. r = [data |-> r.data, size |-> r.size] /\ DOMAIN r.data = Position
    BY DEF Holds
  <2>2. StrPopBack(r) = [data |-> [r.data EXCEPT ![m] = 0], size |-> m]
    <3>1. PICK q : q = [r EXCEPT !.size = m, !.data[m] = 0]
      OBVIOUS
    <3>2. q = [data |-> [r.data EXCEPT ![m] = 0], size |-> m]
      BY <2>1, <3>1
    <3>3. QED BY <1>3, <3>1, <3>2 DEF StrPopBack
  <2>3. [r.data EXCEPT ![m] = 0] = [i \in Position |-> IF i = m THEN 0 ELSE r.data[i]]
    BY <2>1
  <2>4. QED BY <2>2, <2>3 DEF Shrunk
<1>5. Holds(Shrunk(r, m), Prefix(u, m))
  BY <1>2, ShrunkHolds
<1>6. CASE Len(u) > 0
  <2>1. Min({m, Len(u)}) = m
    BY <1>0, <1>1, <1>6, MinOfTwo
  <2>2. Prefix(u, m) = Front(u)
    BY <1>1, <1>6, <2>1 DEF Prefix, Front
  <2>3. QED BY <1>4, <1>5, <1>6, <2>2
<1>7. CASE ~ (Len(u) > 0)
  <2>1. PICK f : f = Prefix(u, m)
    OBVIOUS
  <2>2. m \in Nat /\ m = Len(u)
    BY <1>0, <1>1, <1>7
  <2>3. IsSeq(f) /\ Len(f) = (IF m <= Len(u) THEN m ELSE Len(u)) /\ \A i \in 1 .. Len(f) : f[i] = u[i]
    BY <1>0, <2>1, <2>2, PrefixAt
  <2>4. f = u
    BY <1>0, <2>2, <2>3, SameSeq
  <2>5. QED BY <1>4, <1>5, <1>7, <2>1, <2>4
<1>8. QED BY <1>6, <1>7

LEMMA ResizeHolds ==
  ASSUME NEW r, NEW u, Holds(r, u), NEW k \in Int, NEW c \in 1 .. 127,
         NEW f, f = IF k <= Len(u) THEN Prefix(u, IF k >= 0 THEN k ELSE 0) ELSE Prefix(u \o Run(k - Len(u), c), Capacity)
  PROVE  Holds(StrResize(r, k, c), f)
<1>0. Len(u) \in 0 .. Capacity /\ IsSeq(u) /\ r.size = Len(u) /\ Capacity \in Nat
  BY HoldsText
<1>1. PICK n : n = IF k < 0 THEN 0 ELSE IF k <= Capacity THEN k ELSE Capacity
  OBVIOUS
<1>2. Max({0, Min({k, Capacity})}) = n /\ n \in 0 .. Capacity
  <2>1. PICK x : x = IF k <= Capacity THEN k ELSE Capacity
    OBVIOUS
  <2>2. Min({k, Capacity}) = x /\ x \in Int
    BY <1>0, <2>1, MinOfTwo
  <2>3. Max({0, x}) = IF 0 >= x THEN 0 ELSE x
    BY <2>2, MaxOfTwo
  <2>4. (IF 0 >= x THEN 0 ELSE x) = n /\ n \in 0 .. Capacity
    BY <1>0, <1>1, <2>1
  <2>5. QED BY <2>2, <2>3, <2>4, Zenon
<1>3. PICK q : q = StrResize(r, k, c)
  OBVIOUS
<1>4. q = [data |-> [i \in Position |-> IF i = n THEN 0 ELSE IF i \in Len(u) .. n THEN c ELSE r.data[i]], size |-> n]
  BY <1>0, <1>2, <1>3 DEF StrResize
<1>5. CASE k <= Len(u)
  <2>1. n = (IF k >= 0 THEN k ELSE 0) /\ n \in 0 .. Len(u) /\ f = Prefix(u, n)
    BY <1>0, <1>1, <1>5
  <2>2. \A i \in Position : i \in Len(u) .. n => i = n
    BY <1>0, <2>1 DEF Position
  <2>3. q = Shrunk(r, n)
    BY <1>4, <2>2 DEF Shrunk
  <2>4. QED BY <1>3, <2>1, <2>3, ShrunkHolds
<1>6. CASE ~ (k <= Len(u))
  <2>1. PICK m, t : m = k - Len(u) /\ t = Run(m, c)
    OBVIOUS
  <2>2. m \in Nat /\ m \in Int
    BY <1>0, <1>6, <2>1
  <2>3. IsSeq(t) /\ Len(t) = m /\ \A i \in 1 .. m : t[i] = c
    <3>1. t = Run(m, c)
      BY <2>1
    <3>2. IsSeq(t) /\ Len(t) = (IF m >= 0 THEN m ELSE 0) /\ \A i \in 1 .. Len(t) : t[i] = c
      BY <2>2, <3>1, RunAt
    <3>3. QED BY <2>2, <3>2
  <2>4. Text(t)
    BY <2>3 DEF Text
  <2>5. f = Prefix(u \o t, Capacity)
    BY <1>6, <2>1
  <2>6. q = Put(r, t)
    <3>1. PICK z : z = IF m <= Capacity - Len(u) THEN m ELSE Capacity - Len(u)
      OBVIOUS
    <3>2. Min({Len(t), Capacity - r.size}) = z
      BY <1>0, <2>2, <2>3, <3>1, MinOfTwo
    <3>3. Len(u) + z = n /\ z \in Nat /\ z <= m
      BY <1>0, <1>1, <1>6, <2>1, <3>1
    <3>4. Put(r, t) = [data |-> [i \in Position |->
                                  IF i = n THEN 0 ELSE IF i \in Len(u) .. n THEN t[i - Len(u) + 1] ELSE r.data[i]],
                       size |-> n]
      BY <1>0, <3>2, <3>3 DEF Put
    <3>5. \A i \in Position : i # n /\ i \in Len(u) .. n => t[i - Len(u) + 1] = c
      <4> SUFFICES ASSUME NEW i \in Position, i # n, i \in Len(u) .. n PROVE t[i - Len(u) + 1] = c
        OBVIOUS
      <4>1. i - Len(u) + 1 \in 1 .. m
        BY <1>0, <1>2, <2>2, <3>3 DEF Position
      <4>2. QED BY <4>1, <2>3
    <3>6. QED BY <1>4, <3>4, <3>5
  <2>7. QED BY <1>3, <2>4, <2>5, <2>6, PutHolds
<1>7. QED BY <1>5, <1>6

LEMMA PutClearHolds ==
  ASSUME NEW r, NEW u, Holds(r, u), NEW t, Text(t)
  PROVE  Holds(Put(StrClear(r), t), Prefix(t, Capacity))
<1>1. PICK e, z : e = <<>> /\ z = StrClear(r)
  OBVIOUS
<1>2. Holds(z, e)
  BY <1>1, ClearHolds DEF Holds
<1>3. e \o t = t
  <2>1. PICK f : f = e \o t
    OBVIOUS
  <2>2. IsSeq(e) /\ Len(e) = 0
    BY <1>1 DEF IsSeq
  <2>3. /\ IsSeq(f) /\ Len(f) = Len(e) + Len(t)
        /\ \A i \in 1 .. Len(e) + Len(t) : f[i] = IF i <= Len(e) THEN e[i] ELSE t[i - Len(e)]
    BY <2>1, <2>2, ConcatAt DEF Text
  <2>4. Len(t) \in Nat /\ IsSeq(t)
    BY DEF Text, IsSeq
  <2>5. Len(f) = Len(t) /\ \A i \in 1 .. Len(f) : f[i] = t[i]
    BY <2>2, <2>3, <2>4
  <2>6. f = t
    BY <2>3, <2>4, <2>5, SameSeq
  <2>7. QED BY <2>1, <2>6
<1>4. Holds(Put(z, t), Prefix(e \o t, Capacity))
  BY <1>2, PutHolds
<1>5. QED BY <1>1, <1>3, <1>4

LEMMA NewPutHolds ==
  ASSUME NEW t, Text(t)
  PROVE  Holds(Put(NewString, t), Prefix(t, Capacity))
<1>1. Holds(NewString, <<>>) /\ NewString = StrClear(NewString)
  BY NewHolds DEF NewString, StrClear, Unwritten
<1>2. QED BY <1>1, PutClearHolds

LEMMA AssignHolds ==
  ASSUME NEW r, NEW u, Holds(r, u), NEW o, NEW v, Holds(o, v)
  PROVE  Holds(StrAssign(r, o), v)
<1>1. CASE o = r
  BY <1>1 DEF StrAssign
<1>2. CASE o # r
  <2>1. Chars(o) = v /\ Text(v) /\ Prefix(v, Capacity) = v
    BY HoldsRead, HoldsText, FitsUncut
  <2>2. Holds(Put(StrClear(r), v), v)
    BY <2>1, PutClearHolds
  <2>3. QED BY <1>2, <2>1, <2>2 DEF StrAssign
<1>3. QED BY <1>1, <1>2

LEMMA AppendPartIs ==
  ASSUME NEW r, NEW o, NEW v, Holds(o, v), NEW pos \in Int, NEW k \in Int
  PROVE  \E t : /\ Text(t) /\ StrAppendPart(r, o, pos, k) = Put(r, t)
                /\ pos \in 0 .. Len(v) => t = Piece(v, pos, k)
<1>0. Len(v) \in 0 .. Capacity /\ IsSeq(v) /\ o.size = Len(v) /\ Text(v)
  BY HoldsText
<1>1. PICK p : p = IF pos >= 0 THEN pos ELSE 0
  OBVIOUS
<1>2. Max({pos, 0}) = p /\ p \in Nat
  BY <1>1, MaxOfTwo
<1>3. PICK n, m : /\ n = IF k < 0 \/ k > Len(v) - p THEN Len(v) - p ELSE k
                  /\ m = IF n >= 0 THEN n ELSE 0
  OBVIOUS
<1>4. n \in Int /\ m \in Nat
  BY <1>0, <1>2, <1>3
<1>5. Max({n, 0}) = m
  BY <1>3, <1>4, MaxOfTwo
<1>6. PICK t : t = [j \in 1 .. m |-> o.data[p + j - 1]]
  OBVIOUS
<1>7. StrAppendPart(r, o, pos, k) = Put(r, t)
  BY <1>0, <1>2, <1>3, <1>5, <1>6 DEF StrAppendPart
<1>8. Len(t) = m /\ IsSeq(t)
  BY <1>4, <1>6 DEF IsSeq
<1>9. ASSUME NEW j \in 1 .. m PROVE t[j] = v[p + j] /\ p + j \in 1 .. Len(v)
  <2>1. n \in Nat /\ m = n /\ n <= Len(v) - p
    BY <1>0, <1>2, <1>3, <1>4
  <2>2. p + j \in 1 .. Len(v) /\ p + j - 1 \in 0 .. Len(v) - 1 /\ p + j - 1 + 1 = p + j
    BY <1>0, <1>2, <2>1
  <2>3. t[j] = o.data[p + j - 1]
    BY <1>6
  <2>4. o.data[p + j - 1] = v[p + j - 1 + 1]
    BY <2>2 DEF Holds
  <2>5. QED BY <2>2, <2>3, <2>4
<1>10. Text(t)
  BY <1>0, <1>8, <1>9 DEF Text
<1>11. ASSUME pos \in 0 .. Len(v) PROVE t = Piece(v, pos, k)
  <2>1. PICK f : f = Piece(v, pos, k)
    OBVIOUS
  <2>2. p = pos /\ p \in 0 .. Len(v)
    BY <1>1, <1>11
  <2>3. Span(v, p, k) = n /\ n \in 0 .. Len(v) - p
    BY <1>0, <1>3, <2>2, SpanFits
  <2>4. m = n
    BY <1>0, <1>3, <2>3
  <2>5. IsPiece(f, v, p, n)
    <3>1. f = Piece(v, p, k)
      BY <2>1, <2>2
    <3>2. IsPiece(f, v, p, Span(v, p, k))
      BY <1>0, <2>2, <3>1, PieceAt
    <3>3. QED BY <2>3, <3>2
  <2>6. \A j \in 1 .. Len(t) : t[j] = f[j]
    BY <1>8, <1>9, <2>4, <2>5 DEF IsPiece
  <2>7. IsSeq(f) /\ Len(f) = Len(t)
    BY <1>8, <2>4, <2>5 DEF IsPiece
  <2>8. t = f
    BY <1>8, <2>6, <2>7, SameSeq
  <2>9. QED BY <2>1, <2>8
<1>12. QED BY <1>7, <1>10, <1>11

LEMMA TextErased ==
  ASSUME NEW u, Text(u), NEW p \in Nat, NEW n \in 0 .. Len(u), NEW f, IsErased(f, u, p, n)
  PROVE  Text(f)
<1>1. ASSUME NEW j \in 1 .. Len(f) PROVE f[j] \in 1 .. 127
  <2>1. Len(u) \in Nat /\ Len(f) = Len(u) - n
    BY DEF Text, IsSeq, IsErased
  <2>2. j \in 1 .. Len(u) /\ j + n \in 1 .. Len(u)
    BY <2>1
  <2>3. f[j] = u[j] \/ f[j] = u[j + n]
    BY DEF IsErased
  <2>4. QED BY <2>2, <2>3 DEF Text
<1>2. QED BY <1>1 DEF Text, IsErased

LEMMA EraseHolds ==
  ASSUME NEW r, NEW u, Holds(r, u), NEW p \in 0 .. Len(u), NEW k \in Int, NEW f, f = Erased(u, p, k)
  PROVE  Holds(StrErase(r, p, k), f)
<1>0. Len(u) \in 0 .. Capacity /\ IsSeq(u) /\ r.size = Len(u) /\ Text(u) /\ Capacity \in Nat
  BY HoldsText
<1>1. PICK n : n = Span(u, p, k)
  OBVIOUS
<1>2. n \in 0 .. Len(u) - p /\ n = IF k < 0 \/ k > Len(u) - p THEN Len(u) - p ELSE k
  BY <1>0, <1>1, SpanFits
<1>3. IsErased(f, u, p, n)
  BY <1>0, <1>1, ErasedAt
<1>4. Max({p, 0}) = p
  <2>1. Max({p, 0}) = IF p >= 0 THEN p ELSE 0
    BY MaxOfTwo
  <2>2. QED BY <1>0, <2>1
<1>5. PICK q : q = StrErase(r, p, k)
  OBVIOUS
<1>6. CASE p >= Len(u)
  <2>1. n = 0 /\ q = r
    BY <1>0, <1>2, <1>4, <1>5, <1>6 DEF StrErase
  <2>2. Len(f) = Len(u) /\ \A j \in 1 .. Len(f) : f[j] = u[j]
    BY <1>0, <1>3, <1>6, <2>1 DEF IsErased
  <2>3. f = u
    BY <1>0, <1>3, <2>2, SameSeq DEF IsErased
  <2>4. QED BY <1>5, <2>1, <2>3
<1>7. CASE ~ (p >= Len(u))
  <2> PICK l, s : l = Len(u) - n /\ s = Len(u)
    OBVIOUS
  <2>0. s \in 0 .. Capacity /\ Capacity \in Nat /\ n \in 0 .. s - p /\ l = s - n /\ p \in 0 .. l /\ l \in 0 .. Capacity
    BY <1>0, <1>2
  <2>1. q = [data |-> [i \in Position |-> IF i \in p .. l THEN r.data[i + n] ELSE r.data[i]], size |-> l]
    BY <1>0, <1>2, <1>4, <1>5, <1>7 DEF StrErase
  <2>2. Text(f) /\ Len(f) = l
    <3>1. Text(f)
      BY <1>0, <1>2, <1>3, TextErased
    <3>2. QED BY <1>3, <3>1 DEF IsErased
  <2>3. /\ q.size = l /\ DOMAIN q.data = Position /\ q = [data |-> q.data, size |-> q.size]
        /\ \A i \in Position : q.data[i] = IF i \in p .. l THEN r.data[i + n] ELSE r.data[i]
    BY <2>1
  <2>4. q.data[l] = 0
    <3>1. l \in Position /\ l \in p .. l /\ l + n = s
      BY <2>0 DEF Position
    <3>2. q.data[l] = r.data[l + n]
      BY <2>3, <3>1
    <3>3. QED BY <3>1, <3>2 DEF Holds
  <2>5. ASSUME NEW i \in 0 .. l - 1 PROVE q.data[i] = f[i + 1]
    <3>1. i \in Position /\ i + 1 \in 1 .. l
      BY <2>0 DEF Position
    <3>2. f[i + 1] = IF i + 1 <= p THEN u[i + 1] ELSE u[i + 1 + n]
      BY <1>3, <2>2, <3>1 DEF IsErased
    <3>3. CASE i < p
      <4>1. i \in 0 .. s - 1 /\ i + 1 <= p /\ i \notin p .. l
        BY <2>0, <3>3
      <4>2. q.data[i] = r.data[i]
        BY <2>3, <3>1, <4>1
      <4>3. r.data[i] = u[i + 1]
        BY <4>1 DEF Holds
      <4>4. QED BY <3>2, <4>1, <4>2, <4>3
    <3>4. CASE ~ (i < p)
      <4>1. i + n \in 0 .. s - 1 /\ i \in p .. l /\ i + n + 1 = i + 1 + n /\ ~ (i + 1 <= p)
        BY <2>0, <3>4
      <4>2. q.data[i] = r.data[i + n]
        BY <2>3, <3>1, <4>1
      <4>3. r.data[i + n] = u[i + n + 1]
        BY <4>1 DEF Holds
      <4>4. QED BY <3>2, <4>1, <4>2, <4>3
    <3>5. QED BY <3>3, <3>4
  <2>6. Holds(q, f)
    BY <2>0, <2>2, <2>3, <2>4, <2>5 DEF Holds
  <2>7. QED BY <1>5, <2>6
<1>8. QED BY <1>6, <1>7

LEMMA EraseAnywhere ==
  ASSUME NEW r, NEW u, Holds(r, u), NEW pos \in Int, NEW k \in Int
  PROVE  \E v : Holds(StrErase(r, pos, k), v)
<1>0. Len(u) \in Nat /\ r.size = Len(u)
  BY HoldsText
<1>1. PICK p : p = IF pos >= 0 THEN pos ELSE 0
  OBVIOUS
<1>2. Max({pos, 0}) = p /\ p \in Nat
  BY <1>1, MaxOfTwo
<1>3. Max({p, 0}) = p
  BY <1>2, MaxOfTwo
<1>4. StrErase(r, pos, k) = StrErase(r, p, k)
  BY <1>2, <1>3 DEF StrErase
<1>5. CASE p <= Len(u)
  <2>1. p \in 0 .. Len(u)
    BY <1>0, <1>2, <1>5
  <2>2. QED BY <2>1, <1>4, EraseHolds
<1>6. CASE ~ (p <= Len(u))
  <2>1. p >= r.size
    BY <1>0, <1>2, <1>6
  <2>2. StrErase(r, pos, k) = r
    BY <1>2, <2>1 DEF StrErase
  <2>3. QED BY <2>2
<1>7. QED BY <1>5, <1>6

LEMMA InsertHolds ==
  ASSUME NEW r, NEW u, Holds(r, u), NEW pos \in Int, NEW t, Text(t),
         NEW p, p = (IF pos < 0 THEN 0 ELSE IF pos > Len(u) THEN Len(u) ELSE pos),
         NEW g, g = Inlaid(u, p, t), NEW f, f = Prefix(g, Capacity)
  PROVE  Holds(StrInsert(r, pos, t), f)
<1> PICK s, k : s = Len(u) /\ k = Len(t)
  OBVIOUS
<1>0. /\ s \in 0 .. Capacity /\ r.size = s /\ Capacity \in Nat /\ k \in Nat
      /\ p = (IF pos < 0 THEN 0 ELSE IF pos > s THEN s ELSE pos) /\ p \in 0 .. s
  BY HoldsText DEF Text, IsSeq
<1>1. IsSeq(u) /\ IsSeq(t) /\ Text(u)
  BY HoldsText DEF Text
<1>2. Min({Max({pos, 0}), r.size}) = p
  <2>1. PICK x : x = IF pos >= 0 THEN pos ELSE 0
    OBVIOUS
  <2>2. Max({pos, 0}) = x /\ x \in Int
    BY <2>1, MaxOfTwo
  <2>3. Min({x, s}) = IF x <= s THEN x ELSE s
    BY <1>0, <2>2, MinOfTwo
  <2>4. (IF x <= s THEN x ELSE s) = p
    BY <1>0, <2>1
  <2>5. QED BY <1>0, <2>2, <2>3, <2>4, Zenon
<1>3. PICK n : n = IF k <= Capacity - p THEN k ELSE Capacity - p
  OBVIOUS
<1>4. Min({k, Capacity - p}) = n /\ n \in Nat /\ n <= k
  BY <1>0, <1>3, MinOfTwo
<1>5. PICK size : size = IF s + n <= Capacity THEN s + n ELSE Capacity
  OBVIOUS
<1>6. Min({s + n, Capacity}) = size /\ size \in 0 .. Capacity /\ size <= s + n
  <2>1. s + n \in Int
    BY <1>0, <1>4
  <2>2. QED BY <1>0, <1>4, <1>5, <2>1, MinOfTwo
<1>7. PICK q : q = StrInsert(r, pos, t)
  OBVIOUS
<1>8. /\ q.size = size /\ DOMAIN q.data = Position /\ q = [data |-> q.data, size |-> q.size]
      /\ \A i \in Position : q.data[i] = CASE i = size -> 0
                                          [] i \in p .. p + n - 1 -> t[i - p + 1]
                                          [] i \in p + n .. size - 1 -> r.data[i - n]
                                          [] OTHER -> r.data[i]
  BY <1>0, <1>2, <1>4, <1>6, <1>7 DEF StrInsert
<1>10. IsInlaid(g, u, p, t)
  BY <1>0, <1>1, InlaidAt
<1>11. IsSeq(g) /\ Len(g) = s + k
  BY <1>10 DEF IsInlaid
<1>12. IsSeq(f) /\ Len(f) = size /\ \A i \in 1 .. size : f[i] = g[i]
  <2>1. /\ IsSeq(f) /\ Len(f) = (IF Capacity <= Len(g) THEN Capacity ELSE Len(g))
        /\ \A i \in 1 .. Len(f) : f[i] = g[i]
    BY <1>0, <1>11, PrefixAt
  <2>2. (IF Capacity <= s + k THEN Capacity ELSE s + k) = size
    BY <1>0, <1>3, <1>5
  <2>3. QED BY <1>11, <2>1, <2>2
<1>13. p + n <= size /\ size <= s + k /\ (n # k => p + n = size)
  <2>1. n \in Int /\ size \in Int /\ s \in Int /\ k \in Int /\ Capacity \in Int /\ p \in Int /\ p <= s /\ s <= Capacity
    BY <1>0, <1>4, <1>6
  <2>2. n <= k /\ n <= Capacity - p /\ (n # k => n = Capacity - p)
    <3>1. CASE k <= Capacity - p
      <4>1. n = k
        BY <3>1, <1>3
      <4>2. QED BY <2>1, <3>1, <4>1
    <3>2. CASE ~ (k <= Capacity - p)
      <4>1. n = Capacity - p
        BY <3>2, <1>3
      <4>2. QED BY <2>1, <3>2, <4>1
    <3>3. QED BY <3>1, <3>2
  <2>3. size <= s + n /\ size <= Capacity /\ (size # s + n => size = Capacity)
    BY <2>1, <1>5
  <2>4. p + n <= size
    BY <2>1, <2>2, <2>3
  <2>5. size <= s + k
    BY <2>1, <2>2, <2>3
  <2>6. n # k => p + n = size
    BY <2>1, <2>2, <2>3, <2>4
  <2>7. QED BY <2>4, <2>5, <2>6
<1>9. /\ \A i \in Position : i = size => q.data[i] = 0
      /\ \A i \in Position : i \in p .. p + n - 1 => q.data[i] = t[i - p + 1]
      /\ \A i \in Position : i \in p + n .. size - 1 => q.data[i] = r.data[i - n]
      /\ \A i \in Position : i \in 0 .. p - 1 => q.data[i] = r.data[i]
  <2>1. \A i \in Position : i \in p .. p + n - 1 => i # size
    BY <1>0, <1>4, <1>6, <1>13
  <2>2. \A i \in Position : i \in p + n .. size - 1 => i # size /\ i \notin p .. p + n - 1
    BY <1>0, <1>4, <1>6, <1>13
  <2>3. \A i \in Position : i \in 0 .. p - 1 => i # size /\ i \notin p .. p + n - 1 /\ i \notin p + n .. size - 1
    BY <1>0, <1>4, <1>6, <1>13
  <2>4. QED BY <1>8, <2>1, <2>2, <2>3
<1>14. ASSUME NEW j \in 1 .. size
       PROVE  f[j] = IF j <= p THEN u[j] ELSE IF j <= p + n THEN t[j - p] ELSE u[j - n]
  <2>1. j \in 1 .. Len(g)
    BY <1>0, <1>6, <1>11, <1>13
  <2>2. f[j] = IF j <= p THEN u[j] ELSE IF j <= p + k THEN t[j - p] ELSE u[j - k]
    BY <2>1, <1>10, <1>12 DEF IsInlaid
  <2>3. CASE n = k
    BY <2>2, <2>3
  <2>4. CASE n # k
    <3>1. j <= p + n /\ j <= p + k
      BY <1>0, <1>4, <1>6, <1>13, <2>4
    <3>2. QED BY <2>2, <3>1
  <2>5. QED BY <2>3, <2>4
<1>15. Text(f)
  <2>1. ASSUME NEW j \in 1 .. size PROVE f[j] \in 1 .. 127
    <3>2. CASE j <= p
      <4>1. j \in 1 .. Len(u) /\ f[j] = u[j]
        BY <1>0, <1>14, <3>2
      <4>2. QED BY <4>1, <1>1 DEF Text
    <3>3. CASE ~ (j <= p) /\ j <= p + n
      <4>1. j - p \in 1 .. Len(t) /\ f[j] = t[j - p]
        BY <1>0, <1>4, <1>6, <1>14, <3>3
      <4>2. QED BY <4>1 DEF Text
    <3>4. CASE ~ (j <= p + n)
      <4>1. j - n \in 1 .. Len(u) /\ ~ (j <= p)
        BY <1>0, <1>4, <1>6, <3>4
      <4>2. f[j] = u[j - n]
        BY <1>14, <3>4, <4>1
      <4>3. QED BY <4>1, <4>2, <1>1 DEF Text
    <3>5. QED BY <3>2, <3>3, <3>4
  <2>2. QED BY <1>12, <2>1 DEF Text
<1>16. q.data[size] = 0
  <2>1. size \in Position
    BY <1>6 DEF Position
  <2>2. QED BY <1>9, <2>1
<1>17. ASSUME NEW i \in 0 .. size - 1 PROVE q.data[i] = f[i + 1]
  <2> PICK j : j = i + 1
    OBVIOUS
  <2>1. i \in Position /\ j \in 1 .. size
    BY <1>0, <1>6 DEF Position
  <2>2. f[j] = IF j <= p THEN u[j] ELSE IF j <= p + n THEN t[j - p] ELSE u[j - n]
    BY <1>14, <2>1
  <2>3. CASE i < p
    <3>1. i \in 0 .. p - 1 /\ j <= p /\ i \in 0 .. s - 1
      BY <1>0, <1>4, <1>6, <2>3
    <3>2. q.data[i] = r.data[i]
      BY <1>9, <2>1, <3>1
    <3>3. r.data[i] = u[j]
      BY <3>1 DEF Holds
    <3>4. QED BY <2>2, <3>1, <3>2, <3>3
  <2>4. CASE p <= i /\ i < p + n
    <3>1. i \in p .. p + n - 1 /\ ~ (j <= p) /\ j <= p + n /\ i - p + 1 = j - p
      BY <1>0, <1>4, <1>6, <2>4
    <3>2. q.data[i] = t[i - p + 1]
      BY <1>9, <2>1, <3>1
    <3>3. QED BY <2>2, <3>1, <3>2
  <2>5. CASE p + n <= i
    <3>1. /\ i \in p + n .. size - 1 /\ ~ (j <= p) /\ ~ (j <= p + n)
          /\ i - n + 1 = j - n /\ i - n \in 0 .. s - 1
      BY <1>0, <1>4, <1>6, <2>5
    <3>3. q.data[i] = r.data[i - n]
      BY <1>9, <2>1, <3>1
    <3>4. r.data[i - n] = u[i - n + 1]
      BY <3>1 DEF Holds
    <3>5. QED BY <2>2, <3>1, <3>3, <3>4
  <2>6. QED BY <1>0, <1>4, <1>6, <2>3, <2>4, <2>5
<1>18. Holds(q, f)
  BY <1>6, <1>8, <1>12, <1>15, <1>16, <1>17 DEF Holds
<1>19. QED BY <1>7, <1>18

-----------------------------------------------------------------------------
(* What a program has: texts, and strings that hold one.                   *)
LEMMA TextsAreTexts ==
  ASSUME NEW t \in Texts
  PROVE  Text(t)
<1>1. PICK m \in 0 .. Capacity + 1 : t \in [1 .. m -> Char]
  BY DEF Texts, BoundedSeq, SeqOf
<1>2. m \in Nat
  BY StringBounds
<1>3. Len(t) = m /\ IsSeq(t)
  BY <1>1, <1>2 DEF IsSeq
<1>4. QED BY <1>1, <1>3, StringChars DEF Text

LEMMA MadeHold ==
  ASSUME NEW o \in Made
  PROVE  \E v : Holds(o, v)
<1>1. PICK t \in BoundedSeq(Char, Capacity) : o = Put(NewString, t)
  BY DEF Made
<1>2. Text(t)
  <2>1. PICK m \in 0 .. Capacity : t \in [1 .. m -> Char]
    BY DEF BoundedSeq, SeqOf
  <2>2. m \in Nat
    BY StringBounds
  <2>3. Len(t) = m /\ IsSeq(t)
    BY <2>1, <2>2 DEF IsSeq
  <2>4. QED BY <2>1, <2>3, StringChars DEF Text
<1>3. PICK v : v = Prefix(<<>> \o t, Capacity)
  OBVIOUS
<1>4. Holds(o, v)
  BY <1>1, <1>2, <1>3, NewHolds, PutHolds
<1>5. QED BY <1>4

LEMMA ReplaceHolds ==
  ASSUME NEW r, NEW u, Holds(r, u), NEW p \in 0 .. Len(u), NEW k \in Int, NEW t, Text(t)
  PROVE  Holds(StrReplace(r, p, k, t), Prefix(Inlaid(Erased(u, p, k), p, t), Capacity))
<1>1. PICK e, q : e = Erased(u, p, k) /\ q = StrErase(r, p, k)
  OBVIOUS
<1>2. Holds(q, e)
  BY <1>1, EraseHolds
<1>3. p <= Len(e) /\ p >= 0 /\ p \in Int /\ Len(e) \in Int
  <2>1. PICK n : n = Span(u, p, k)
    OBVIOUS
  <2>2. IsSeq(u) /\ Len(u) \in Nat
    BY HoldsText
  <2>3. n \in 0 .. Len(u) - p
    BY <2>1, <2>2, SpanFits
  <2>4. IsErased(e, u, p, n)
    BY <1>1, <2>1, <2>2, ErasedAt
  <2>5. Len(e) = Len(u) - n
    BY <2>4 DEF IsErased
  <2>6. QED BY <2>2, <2>3, <2>5
<1>4. p = (IF p < 0 THEN 0 ELSE IF p > Len(e) THEN Len(e) ELSE p)
  BY <1>3
<1>5. PICK g, f : g = Inlaid(e, p, t) /\ f = Prefix(g, Capacity)
  OBVIOUS
<1>6. Holds(StrInsert(q, p, t), f)
  BY <1>2, <1>3, <1>4, <1>5, InsertHolds
<1>7. QED BY <1>1, <1>5, <1>6 DEF StrReplace

LEMMA HeldAsC ==
  ASSUME NEW u, Holds(str, u)
  PROVE  StringsAsC
<1>1. PICK s : s = Chars(str)
  OBVIOUS
<1>2. Holds(str, s) /\ Terminated(str) = s
  BY <1>1, HoldsRead
<1>3. IsSeq(s) /\ Len(s) \in 0 .. Capacity /\ Text(s) /\ Capacity \in Nat
  BY <1>2, HoldsText
<1>4. \A o \in Strings : Holds(o, Chars(o)) /\ Text(Chars(o)) /\ Terminated(o) = Chars(o)
  <2> SUFFICES ASSUME NEW o \in Strings
               PROVE  Holds(o, Chars(o)) /\ Text(Chars(o)) /\ Terminated(o) = Chars(o)
    OBVIOUS
  <2>1. PICK v : Holds(o, v)
    BY <1>2, MadeHold DEF Strings
  <2>2. QED BY <2>1, HoldsRead, HoldsText
<1>5. Says(str, s)
  BY <1>2, <1>3, FitsUncut, HoldsSays
<1>6. \A c \in Char : Says(StrPushBack(str, c), Append(s, c))
  BY <1>2, StringChars, PushBackHolds, HoldsSays
<1>7. Len(s) > 0 => Says(StrPopBack(str), Front(s))
  <2> SUFFICES ASSUME Len(s) > 0 PROVE Says(StrPopBack(str), Front(s))
    OBVIOUS
  <2>1. Holds(StrPopBack(str), Front(s))
    BY <1>2, PopBackHolds
  <2>2. Prefix(Front(s), Capacity) = Front(s)
    BY <2>1, HoldsText, FitsUncut
  <2>3. QED BY <2>1, <2>2, HoldsSays
<1>8. \A k \in 0 .. Capacity + 1, c \in Char :
        Says(StrResize(str, k, c), IF k <= Len(s) THEN Prefix(s, k) ELSE s \o Run(k - Len(s), c))
  <2> SUFFICES ASSUME NEW k \in 0 .. Capacity + 1, NEW c \in Char
               PROVE  Says(StrResize(str, k, c), IF k <= Len(s) THEN Prefix(s, k) ELSE s \o Run(k - Len(s), c))
    OBVIOUS
  <2>0. k \in Int /\ k >= 0 /\ c \in 1 .. 127
    BY <1>3, StringChars
  <2>1. CASE k <= Len(s)
    <3>1. PICK f : f = Prefix(s, k)
      OBVIOUS
    <3>2. Holds(StrResize(str, k, c), f)
      BY <1>2, <2>0, <2>1, <3>1, ResizeHolds
    <3>3. Prefix(f, Capacity) = f
      BY <3>2, HoldsText, FitsUncut
    <3>4. QED BY <2>1, <3>1, <3>2, <3>3, HoldsSays
  <2>2. CASE ~ (k <= Len(s))
    <3>1. PICK f : f = Prefix(s \o Run(k - Len(s), c), Capacity)
      OBVIOUS
    <3>2. Holds(StrResize(str, k, c), f)
      BY <1>2, <2>0, <2>2, <3>1, ResizeHolds
    <3>3. QED BY <2>2, <3>1, <3>2, HoldsSays
  <2>3. QED BY <2>1, <2>2
<1>9. \A t \in Texts : Says(Put(str, t), s \o t) /\ Says(Put(StrClear(str), t), t)
  BY <1>2, TextsAreTexts, PutHolds, PutClearHolds, HoldsSays
<1>10. \A o \in Strings :
         Says(Put(str, Chars(o)), s \o Chars(o)) /\ Says(StrAssign(str, o), Chars(o))
  <2> SUFFICES ASSUME NEW o \in Strings
               PROVE  Says(Put(str, Chars(o)), s \o Chars(o)) /\ Says(StrAssign(str, o), Chars(o))
    OBVIOUS
  <2>1. PICK v : v = Chars(o)
    OBVIOUS
  <2>2. Holds(o, v) /\ Text(v)
    BY <1>4, <2>1
  <2>3. Says(Put(str, v), s \o v)
    BY <1>2, <2>2, PutHolds, HoldsSays
  <2>4. Holds(StrAssign(str, o), v)
    BY <1>2, <2>2, AssignHolds
  <2>5. Prefix(v, Capacity) = v
    BY <2>2, HoldsText, FitsUncut
  <2>6. Says(StrAssign(str, o), v)
    BY <2>4, <2>5, HoldsSays
  <2>7. QED BY <2>1, <2>3, <2>6
<1>11. ASSUME NEW p \in 0 .. Len(s), NEW t, Text(t)
       PROVE  Says(StrInsert(str, p, t), Inlaid(s, p, t))
  <2>1. p = (IF p < 0 THEN 0 ELSE IF p > Len(s) THEN Len(s) ELSE p) /\ p \in Int
    BY <1>3
  <2>2. PICK g, f : g = Inlaid(s, p, t) /\ f = Prefix(g, Capacity)
    OBVIOUS
  <2>3. Holds(StrInsert(str, p, t), f)
    BY <1>2, <1>11, <2>1, <2>2, InsertHolds
  <2>4. QED BY <2>2, <2>3, HoldsSays
<1>12. ASSUME NEW p \in 0 .. Len(s), NEW k \in Index
       PROVE  /\ Says(StrSubstr(str, p, k), Piece(s, p, k))
              /\ Says(StrAppendPart(str, str, p, k), s \o Piece(s, p, k))
              /\ Says(StrErase(str, p, k), Erased(s, p, k))
  <2>1. k \in Int /\ p \in Int
    BY <1>3 DEF Index
  <2>2. PICK v : v = Piece(s, p, k)
    OBVIOUS
  <2>3. Text(v) /\ StrAppendPart(str, str, p, k) = Put(str, v)
    BY <1>2, <2>1, <2>2, AppendPartIs
  <2>4. Says(Put(str, v), s \o v)
    BY <1>2, <2>3, PutHolds, HoldsSays
  <2>5. StrSubstr(str, p, k) = Put(NewString, v)
    BY <1>2, <2>1, <2>2, AppendPartIs DEF StrSubstr
  <2>8. Says(Put(NewString, v), v)
    BY <2>3, NewPutHolds, HoldsSays
  <2>9. Says(StrErase(str, p, k), Erased(s, p, k))
    <3>1. PICK e : e = Erased(s, p, k)
      OBVIOUS
    <3>2. Holds(StrErase(str, p, k), e)
      BY <1>2, <2>1, <3>1, EraseHolds
    <3>3. Prefix(e, Capacity) = e
      BY <3>2, HoldsText, FitsUncut
    <3>4. QED BY <3>1, <3>2, <3>3, HoldsSays
  <2>10. QED BY <2>2, <2>3, <2>4, <2>5, <2>8, <2>9
<1>13. ASSUME NEW p \in 0 .. Len(s), NEW k \in Index, NEW o \in Strings
       PROVE  Says(StrReplaceString(str, p, k, o), Inlaid(Erased(s, p, k), p, Chars(o)))
  <2>1. k \in Int
    BY <1>3 DEF Index
  <2>2. PICK v : v = Chars(o)
    OBVIOUS
  <2>3. Text(v) /\ Terminated(o) = v
    BY <1>4, <2>2
  <2>4. Holds(StrReplace(str, p, k, v), Prefix(Inlaid(Erased(s, p, k), p, v), Capacity))
    BY <1>2, <2>1, <2>3, ReplaceHolds
  <2>5. Says(StrReplace(str, p, k, v), Inlaid(Erased(s, p, k), p, v))
    BY <2>4, HoldsSays
  <2>6. QED BY <2>2, <2>3, <2>5 DEF StrReplaceString
<1>14. \A p \in 0 .. Len(s) :
         /\ \A t \in Texts : Says(StrInsert(str, p, t), Inlaid(s, p, t))
         /\ \A o \in Strings : Says(StrInsertString(str, p, o), Inlaid(s, p, Chars(o)))
         /\ \A k \in Index :
              /\ Says(StrSubstr(str, p, k), Piece(s, p, k))
              /\ Says(StrAppendPart(str, str, p, k), s \o Piece(s, p, k))
              /\ Says(StrErase(str, p, k), Erased(s, p, k))
              /\ \A o \in Strings :
                   Says(StrReplaceString(str, p, k, o), Inlaid(Erased(s, p, k), p, Chars(o)))
  BY <1>4, <1>11, <1>12, <1>13, TextsAreTexts DEF StrInsertString
<1>15. QED
  BY <1>1, <1>2, <1>5, <1>6, <1>7, <1>8, <1>9, <1>10, <1>14
     DEF StringsAsC, Piece, Erased, Inlaid, Span

-----------------------------------------------------------------------------
(* Every call leaves a string.                                             *)
IsString(r) == \E u : Holds(r, u)

StringInv == Constructed => IsString(str)

LEMMA PrefixText ==
  ASSUME NEW t, Text(t), NEW n \in Int
  PROVE  Text(Prefix(t, n))
<1>0. Len(t) \in Nat /\ IsSeq(t)
  BY DEF Text, IsSeq
<1>1. PICK f : f = Prefix(t, n)
  OBVIOUS
<1>2. CASE n >= 0
  <2>1. IsSeq(f) /\ Len(f) = (IF n <= Len(t) THEN n ELSE Len(t)) /\ \A i \in 1 .. Len(f) : f[i] = t[i]
    BY <1>0, <1>1, <1>2, PrefixAt
  <2>2. \A i \in 1 .. Len(f) : i \in 1 .. Len(t)
    BY <1>0, <1>2, <2>1
  <2>3. QED BY <1>1, <2>1, <2>2 DEF Text
<1>3. CASE ~ (n >= 0)
  <2>1. Min({n, Len(t)}) = IF n <= Len(t) THEN n ELSE Len(t)
    BY <1>0, MinOfTwo
  <2>2. Min({n, Len(t)}) = n /\ n < 1
    BY <1>0, <1>3, <2>1
  <2>3. f = <<>>
    BY <1>1, <2>2, SubSeqEmpty DEF Prefix
  <2>4. QED BY <1>1, <2>3 DEF Text, IsSeq
<1>4. QED BY <1>2, <1>3

LEMMA RunText ==
  ASSUME NEW n \in Int, NEW c \in 1 .. 127
  PROVE  Text(Run(n, c))
BY RunAt DEF Text

LEMMA PutString ==
  ASSUME NEW r, IsString(r), NEW t, Text(t)
  PROVE  IsString(Put(r, t)) /\ IsString(Put(StrClear(r), t)) /\ IsString(Put(NewString, t)) /\ IsString(StrClear(r))
<1>1. PICK u : Holds(r, u)
  BY DEF IsString
<1>2. Holds(Put(r, t), Prefix(u \o t, Capacity))
  BY <1>1, PutHolds
<1>3. Holds(StrClear(r), <<>>)
  BY <1>1, ClearHolds DEF Holds
<1>4. QED BY <1>1, <1>2, <1>3, PutClearHolds, NewPutHolds DEF IsString

LEMMA AppendPartString ==
  ASSUME NEW r, IsString(r), NEW o, IsString(o), NEW pos \in Int, NEW k \in Int
  PROVE  IsString(StrAppendPart(r, o, pos, k))
<1>1. PICK v : Holds(o, v)
  BY DEF IsString
<1>2. PICK t : Text(t) /\ StrAppendPart(r, o, pos, k) = Put(r, t)
  BY <1>1, AppendPartIs
<1>3. QED BY <1>2, PutString

LEMMA PushString ==
  ASSUME NEW r, IsString(r), NEW c \in 1 .. 127
  PROVE  IsString(StrPushBack(r, c)) /\ IsString(StrPopBack(r))
BY PushBackHolds, PopBackHolds DEF IsString

LEMMA InsertString ==
  ASSUME NEW r, IsString(r), NEW pos \in Int, NEW t, Text(t)
  PROVE  IsString(StrInsert(r, pos, t))
<1>1. PICK u : Holds(r, u)
  BY DEF IsString
<1>2. PICK p, g, f : /\ p = (IF pos < 0 THEN 0 ELSE IF pos > Len(u) THEN Len(u) ELSE pos)
                     /\ g = Inlaid(u, p, t) /\ f = Prefix(g, Capacity)
  OBVIOUS
<1>3. Holds(StrInsert(r, pos, t), f)
  BY <1>1, <1>2, InsertHolds
<1>4. QED BY <1>3 DEF IsString

LEMMA ReplaceString ==
  ASSUME NEW r, IsString(r), NEW pos \in Int, NEW k \in Int, NEW t, Text(t)
  PROVE  IsString(StrErase(r, pos, k)) /\ IsString(StrReplace(r, pos, k, t))
<1>1. IsString(StrErase(r, pos, k))
  BY EraseAnywhere DEF IsString
<1>2. QED BY <1>1, InsertString DEF StrReplace

LEMMA ReadString ==
  ASSUME NEW o, IsString(o)
  PROVE  Text(Chars(o)) /\ Text(Terminated(o))
BY HoldsRead, HoldsText DEF IsString

LEMMA StringsAreStrings ==
  ASSUME IsString(str)
  PROVE  \A o \in Strings : IsString(o)
BY MadeHold DEF Strings, IsString

LEMMA ProgramsValues ==
  /\ \A n \in Index : n \in Int
  /\ \A c \in Char : c \in 1 .. 127
  /\ \A t \in Texts : Text(t) /\ \A n \in Index : Text(Prefix(t, n))
  /\ \A n \in Index, c \in Char : Text(Run(n, c))
<1>1. (\A n \in Index : n \in Int) /\ \A c \in Char : c \in 1 .. 127
  BY StringChars, StringBounds DEF Index
<1>2. QED BY <1>1, TextsAreTexts, PrefixText, RunText

LEMMA ConstructString_Inv ==
  ASSUME ConstructString
  PROVE  IsString(str')
<1>0. IsString(NewString)
  BY NewHolds DEF IsString
<1>1. CASE str' = NewString
  BY <1>0, <1>1
<1>2. CASE \E t \in Texts, n \in Index : str' \in {Put(NewString, t), Put(NewString, Prefix(t, n))}
  BY <1>0, <1>2, ProgramsValues, PutString
<1>3. CASE \E c \in Char, n \in Index : str' = Put(NewString, Run(n, c))
  BY <1>0, <1>3, ProgramsValues, PutString
<1>4. CASE \E o \in Made, pos, count \in Index : str' = StrAppendPart(NewString, o, pos, count)
  BY <1>0, <1>4, ProgramsValues, MadeHold, AppendPartString DEF IsString
<1>5. QED BY <1>1, <1>2, <1>3, <1>4 DEF ConstructString

LEMMA AppendChars_Inv ==
  ASSUME IsString(str), AppendChars
  PROVE  IsString(str')
<1>1. CASE \E t \in Texts, n \in Index : str' \in {Put(str, t), Put(str, Prefix(t, n))}
  BY <1>1, ProgramsValues, PutString
<1>2. CASE \E o \in Strings : str' = Put(str, Chars(o))
  BY <1>2, StringsAreStrings, ReadString, PutString
<1>3. CASE \E o \in Strings, pos, count \in Index : str' = StrAppendPart(str, o, pos, count)
  BY <1>3, ProgramsValues, StringsAreStrings, AppendPartString
<1>4. CASE \E n \in Index, c \in Char : str' = Put(str, Run(n, c))
  BY <1>4, ProgramsValues, PutString
<1>5. QED BY <1>1, <1>2, <1>3, <1>4 DEF AppendChars

LEMMA AssignString_Inv ==
  ASSUME IsString(str), AssignString
  PROVE  IsString(str')
<1>0. IsString(StrClear(str))
  BY NewHolds, PutString DEF Holds
<1>1. CASE \E t \in Texts : str' = Put(StrClear(str), t)
  BY <1>1, ProgramsValues, PutString
<1>2. CASE \E o \in Strings : str' \in {o, StrAssign(str, o)}
  <2>1. PICK o \in Strings : str' = o \/ str' = StrAssign(str, o)
    BY <1>2
  <2>2. IsString(o)
    BY StringsAreStrings
  <2>3. PICK u, v : Holds(str, u) /\ Holds(o, v)
    BY <2>2 DEF IsString
  <2>4. Holds(StrAssign(str, o), v)
    BY <2>3, AssignHolds
  <2>5. QED BY <2>1, <2>2, <2>4 DEF IsString
<1>3. CASE \E n \in Index, c \in Char : str' \in {Put(StrClear(str), Run(n, c)), StrPushBack(StrClear(str), c)}
  BY <1>0, <1>3, ProgramsValues, PutString, PushString
<1>4. QED BY <1>1, <1>2, <1>3 DEF AssignString

LEMMA InsertInString_Inv ==
  ASSUME IsString(str), InsertInString
  PROVE  IsString(str')
<1>1. CASE \E pos \in Index, t \in Texts : str' = StrInsert(str, pos, t)
  BY <1>1, ProgramsValues, InsertString
<1>2. CASE \E pos \in Index, o \in Strings : str' = StrInsertString(str, pos, o)
  BY <1>2, ProgramsValues, StringsAreStrings, ReadString, InsertString DEF StrInsertString
<1>3. CASE \E pos, n \in Index, c \in Char : str' = StrInsertRun(str, pos, n, c)
  <2>1. PICK pos \in Index, n \in Index, c \in Char : str' = StrInsert(str, pos, Terminated(Put(NewString, Run(n, c))))
    BY <1>3 DEF StrInsertRun
  <2>2. IsString(Put(NewString, Run(n, c)))
    BY ProgramsValues, PutString
  <2>3. QED BY <2>1, <2>2, ProgramsValues, ReadString, InsertString
<1>4. QED BY <1>1, <1>2, <1>3 DEF InsertInString

LEMMA ReplaceInString_Inv ==
  ASSUME IsString(str), ReplaceInString
  PROVE  IsString(str')
<1>1. CASE \E pos, count \in Index, t \in Texts : str' = StrReplace(str, pos, count, t)
  BY <1>1, ProgramsValues, ReplaceString
<1>2. CASE \E pos, count \in Index, o \in Strings : str' = StrReplaceString(str, pos, count, o)
  BY <1>2, ProgramsValues, StringsAreStrings, ReadString, ReplaceString DEF StrReplaceString
<1>3. QED BY <1>1, <1>2 DEF ReplaceInString

LEMMA StringNext_Inv ==
  ASSUME StringInv, StringNext
  PROVE  IsString(str')
<1>1. CASE ConstructString
  BY <1>1, ConstructString_Inv
<1>2. ASSUME Constructed /\ IsString(str) PROVE ClearString => IsString(str')
  BY <1>2, NewHolds, PutString DEF Holds, ClearString
<1>3. ASSUME Constructed /\ IsString(str) PROVE ResizeString => IsString(str')
  <2> SUFFICES ASSUME NEW k \in Index, NEW c \in Char, str' = StrResize(str, k, c) PROVE IsString(str')
    BY DEF ResizeString
  <2>1. PICK u : Holds(str, u)
    BY <1>3 DEF IsString
  <2>2. PICK f : f = IF k <= Len(u) THEN Prefix(u, IF k >= 0 THEN k ELSE 0)
                     ELSE Prefix(u \o Run(k - Len(u), c), Capacity)
    OBVIOUS
  <2>3. Holds(StrResize(str, k, c), f)
    BY <2>1, <2>2, ProgramsValues, ResizeHolds
  <2>4. QED BY <2>3 DEF IsString
<1>4. ASSUME Constructed /\ IsString(str) PROVE PushOrPop => IsString(str')
  <2>1. 1 \in 1 .. 127
    OBVIOUS
  <2>2. QED BY <1>4, <2>1, ProgramsValues, PushString DEF PushOrPop
<1>5. ASSUME Constructed /\ IsString(str) PROVE EraseInString => IsString(str')
  BY <1>5, ProgramsValues, EraseAnywhere DEF EraseInString, IsString
<1>6. QED BY <1>1, <1>2, <1>3, <1>4, <1>5, AppendChars_Inv, AssignString_Inv, InsertInString_Inv,
             ReplaceInString_Inv DEF StringNext, StringInv

-----------------------------------------------------------------------------
(* Questions.  t lies in s at i.                                           *)
Lies(s, t, i) == i \in 0 .. Len(s) - Len(t) /\ \A k \in 1 .. Len(t) : s[i + k] = t[k]

LEMMA FoundIs ==
  ASSUME NEW r, NEW s, Holds(r, s), NEW t, Text(t), NEW p \in Int
  PROVE  FoundAt(r, t, p) = {i \in Nat : Lies(s, t, i) /\ i >= p}
<1>0. Len(s) \in Nat /\ r.size = Len(s) /\ Len(t) \in Nat
  BY HoldsText DEF Text, IsSeq
<1>1. PICK z : z = IF p >= 0 THEN p ELSE 0
  OBVIOUS
<1>2. Max({p, 0}) = z /\ z \in Nat
  BY <1>1, MaxOfTwo
<1>3. PICK l, m : l = Len(s) /\ m = Len(t)
  OBVIOUS
<1>4. l \in Nat /\ m \in Nat
  BY <1>0, <1>3
<1>5. ASSUME NEW i \in 0 .. l - m, NEW k \in 1 .. m PROVE r.data[i + k - 1] = s[i + k]
  <2>1. i + k - 1 \in 0 .. l - 1 /\ i + k - 1 + 1 = i + k
    BY <1>4
  <2>2. r.data[i + k - 1] = s[i + k - 1 + 1]
    BY <1>3, <2>1 DEF Holds
  <2>3. QED BY <2>1, <2>2
<1>6. \A i : i \in z .. l - m <=> i \in Nat /\ i \in 0 .. l - m /\ i >= p
  BY <1>1, <1>2, <1>4
<1>7. FoundAt(r, t, p) = {i \in z .. l - m : \A k \in 1 .. m : r.data[i + k - 1] = t[k]}
  BY <1>0, <1>2, <1>3 DEF FoundAt
<1>8. \A i \in 0 .. l - m : (\A k \in 1 .. m : r.data[i + k - 1] = t[k]) <=> Lies(s, t, i)
  BY <1>3, <1>5 DEF Lies
<1>9. \A i : Lies(s, t, i) => i \in 0 .. l - m
  BY <1>3 DEF Lies
<1>10. QED BY <1>6, <1>7, <1>8, <1>9

LEMMA CutMatches ==
  ASSUME NEW s, Text(s), NEW t, Text(t), NEW p \in 0 .. Len(s)
  PROVE  Piece(s, p, Len(t)) = t <=> Lies(s, t, p)
<1>1. PICK f, l, m : f = Piece(s, p, m) /\ l = Len(s) /\ m = Len(t)
  OBVIOUS
<1>2. l \in Nat /\ m \in Nat /\ p \in 0 .. l /\ IsSeq(s) /\ IsSeq(t)
  BY <1>1 DEF Text, IsSeq
<1>3. PICK n : n = Span(s, p, m)
  OBVIOUS
<1>4. n \in Nat /\ n = IF m > l - p THEN l - p ELSE m
  <2>1. m \in Int /\ IsSeq(s)
    BY <1>2
  <2>2. n \in 0 .. Len(s) - p /\ n = IF m < 0 \/ m > Len(s) - p THEN Len(s) - p ELSE m
    BY <1>3, <2>1, SpanFits
  <2>3. n \in 0 .. l - p /\ n = IF m < 0 \/ m > l - p THEN l - p ELSE m
    BY <1>1, <2>2
  <2>4. QED BY <1>2, <2>3
<1>5. IsPiece(f, s, p, n)
  BY <1>1, <1>2, <1>3, PieceAt
<1>6. ASSUME f = t PROVE Lies(s, t, p)
  <2>1. n = m
    BY <1>1, <1>5, <1>6 DEF IsPiece
  <2>2. p \in 0 .. l - m
    BY <1>2, <1>4, <2>1
  <2>3. \A k \in 1 .. m : s[p + k] = t[k]
    BY <1>5, <1>6, <2>1 DEF IsPiece
  <2>4. QED BY <1>1, <2>2, <2>3 DEF Lies
<1>7. ASSUME Lies(s, t, p) PROVE f = t
  <2>1. p \in 0 .. l - m /\ \A k \in 1 .. m : s[p + k] = t[k]
    BY <1>1, <1>7 DEF Lies
  <2>2. n = m
    BY <1>2, <1>4, <2>1
  <2>3. IsSeq(f) /\ Len(f) = Len(t) /\ \A k \in 1 .. Len(f) : f[k] = t[k]
    BY <1>1, <1>5, <2>1, <2>2 DEF IsPiece
  <2>4. QED BY <1>2, <2>3, SameSeq
<1>8. QED BY <1>1, <1>6, <1>7

LEMMA StartsIs ==
  ASSUME NEW r, NEW s, Holds(r, s), NEW t, Text(t)
  PROVE  StrStartsWith(r, t) <=> Lies(s, t, 0)
<1>1. PICK l, m : l = Len(s) /\ m = Len(t)
  OBVIOUS
<1>2. l \in Nat /\ m \in Nat /\ r.size = l
  BY <1>1, HoldsText DEF Text, IsSeq
<1>3. ASSUME NEW k \in 1 .. m, k - 1 < l PROVE r.data[k - 1] = s[0 + k]
  <2>1. k - 1 \in 0 .. l - 1 /\ k - 1 + 1 = 0 + k
    BY <1>2, <1>3
  <2>2. r.data[k - 1] = s[k - 1 + 1]
    BY <1>1, <2>1 DEF Holds
  <2>3. QED BY <2>1, <2>2
<1>4. ASSUME Lies(s, t, 0) PROVE StrStartsWith(r, t)
  <2>1. 0 \in 0 .. l - m /\ \A k \in 1 .. m : s[0 + k] = t[k]
    BY <1>1, <1>4 DEF Lies
  <2>2. \A k \in 1 .. m : k - 1 < l
    BY <1>2, <2>1
  <2>3. QED BY <1>1, <1>2, <1>3, <2>1, <2>2 DEF StrStartsWith
<1>5. ASSUME StrStartsWith(r, t) PROVE Lies(s, t, 0)
  <2>1. \A k \in 1 .. m : k - 1 < l /\ r.data[k - 1] = t[k]
    BY <1>1, <1>2, <1>5 DEF StrStartsWith
  <2>2. \A k \in 1 .. m : s[0 + k] = t[k]
    BY <1>3, <2>1
  <2>3. 0 \in 0 .. l - m
    <3>1. CASE m = 0
      BY <1>2, <3>1
    <3>2. CASE m # 0
      <4>1. m \in 1 .. m
        BY <1>2, <3>2
      <4>2. m - 1 < l
        BY <4>1, <2>1
      <4>3. QED BY <1>2, <4>2
    <3>3. QED BY <3>1, <3>2
  <2>4. QED BY <1>1, <2>2, <2>3 DEF Lies
<1>6. QED BY <1>4, <1>5

LEMMA EndsIs ==
  ASSUME NEW r, NEW s, Holds(r, s), NEW t, Text(t)
  PROVE  StrEndsWith(r, t) <=> Len(t) <= Len(s) /\ Lies(s, t, Len(s) - Len(t))
<1>1. PICK l, m, i : l = Len(s) /\ m = Len(t) /\ i = l - m
  OBVIOUS
<1>2. l \in Nat /\ m \in Nat /\ r.size = l
  BY <1>1, HoldsText DEF Text, IsSeq
<1>3. ASSUME m <= l, NEW k \in 1 .. m PROVE r.data[i + k - 1] = s[i + k]
  <2>1. i + k - 1 \in 0 .. l - 1 /\ i + k - 1 + 1 = i + k
    BY <1>1, <1>2, <1>3
  <2>2. r.data[i + k - 1] = s[i + k - 1 + 1]
    BY <1>1, <2>1 DEF Holds
  <2>3. QED BY <2>1, <2>2
<1>4. StrEndsWith(r, t) <=> m <= l /\ \A k \in 1 .. m : r.data[i + k - 1] = t[k]
  BY <1>1, <1>2 DEF StrEndsWith
<1>5. m <= l => i \in 0 .. l - m
  BY <1>1, <1>2
<1>6. Lies(s, t, i) <=> i \in 0 .. l - m /\ \A k \in 1 .. m : s[i + k] = t[k]
  BY <1>1 DEF Lies
<1>7. StrEndsWith(r, t) <=> m <= l /\ Lies(s, t, i)
  BY <1>3, <1>4, <1>5, <1>6
<1>8. QED BY <1>1, <1>7

LEMMA CutIs ==
  ASSUME NEW r, NEW s, Holds(r, s), NEW t, Text(t), NEW p \in 0 .. Len(s)
  PROVE  Chars(StrSubstr(r, p, Len(t))) = t <=> Lies(s, t, p)
<1>0. Text(s) /\ IsSeq(s) /\ Len(s) \in 0 .. Capacity /\ Capacity \in Nat
  BY HoldsText
<1>1. PICK m : m = Len(t)
  OBVIOUS
<1>2. m \in Int /\ p \in Int
  BY <1>0, <1>1 DEF Text, IsSeq
<1>3. PICK v : /\ Text(v) /\ StrAppendPart(NewString, r, p, m) = Put(NewString, v)
               /\ p \in 0 .. Len(s) => v = Piece(s, p, m)
  BY <1>2, AppendPartIs
<1>4. v = Piece(s, p, m)
  BY <1>3
<1>5. Len(v) <= Capacity
  <2>1. PICK n : n = Span(s, p, m)
    OBVIOUS
  <2>2. n \in 0 .. Len(s) - p
    BY <1>0, <1>2, <2>1, SpanFits
  <2>3. IsPiece(v, s, p, n)
    BY <1>0, <1>2, <1>4, <2>1, PieceAt
  <2>4. Len(v) = n
    BY <2>3 DEF IsPiece
  <2>5. QED BY <1>0, <1>2, <2>2, <2>4
<1>6. Prefix(v, Capacity) = v
  BY <1>3, <1>5, FitsUncut DEF Text
<1>7. Chars(Put(NewString, v)) = v
  BY <1>3, <1>6, NewPutHolds, HoldsRead
<1>8. Piece(s, p, Len(t)) = t <=> Lies(s, t, p)
  BY <1>0, CutMatches
<1>9. QED BY <1>1, <1>3, <1>4, <1>7, <1>8 DEF StrSubstr

(* Where t lies in s: what the searches find.                              *)
Places(s, t) == {i \in Nat : Lies(s, t, i)}

LEMMA PlacesFit ==
  ASSUME NEW s, Text(s), NEW t, Text(t)
  PROVE  /\ Len(s) \in Nat /\ Len(t) \in Nat /\ Places(s, t) \subseteq Nat
         /\ \A i \in Places(s, t) : i <= Len(s) - Len(t) /\ i <= Len(s)
<1>1. PICK l, m : l = Len(s) /\ m = Len(t)
  OBVIOUS
<1>2. l \in Nat /\ m \in Nat
  BY <1>1 DEF Text, IsSeq
<1>3. ASSUME NEW i \in Places(s, t) PROVE i <= l - m /\ i <= l
  <2>1. i \in Nat /\ i \in 0 .. l - m
    BY <1>1, <1>3 DEF Places, Lies
  <2>2. QED BY <1>2, <2>1
<1>4. QED BY <1>1, <1>2, <1>3 DEF Places

Matches(r, s, t) == {p \in 0 .. Len(s) : Chars(StrSubstr(r, p, Len(t))) = t}

LEMMA FindAsC ==
  ASSUME NEW r, NEW s, Holds(r, s), NEW t, Text(t), NEW M, M = Matches(r, s, t)
  PROVE  /\ M = Places(s, t)
         /\ StrRfind(r, t) = LastOf(M)
         /\ \A p \in Int : StrFind(r, t, p) = FirstOf({q \in M : q >= p})
<1>0. Text(s)
  BY HoldsText
<1>1. M = {p \in 0 .. Len(s) : Lies(s, t, p)}
  BY CutIs DEF Matches
<1>2. M = Places(s, t)
  <2>1. \A i \in Places(s, t) : i \in 0 .. Len(s)
    BY <1>0, PlacesFit
  <2>2. \A i \in 0 .. Len(s) : i \in Nat
    BY <1>0, PlacesFit
  <2>3. QED BY <1>1, <2>1, <2>2 DEF Places
<1>3. ASSUME NEW p \in Int PROVE FoundAt(r, t, p) = {q \in M : q >= p}
  <2>1. FoundAt(r, t, p) = {i \in Nat : Lies(s, t, i) /\ i >= p}
    BY FoundIs
  <2>2. QED BY <2>1, <1>2 DEF Places
<1>4. {q \in M : q >= 0} = M
  <2>1. \A q \in M : q >= 0
    BY <1>2 DEF Places
  <2>2. QED BY <2>1
<1>5. FoundAt(r, t, 0) = M
  <2>1. 0 \in Int
    OBVIOUS
  <2>2. FoundAt(r, t, 0) = {q \in M : q >= 0}
    BY <1>3, <2>1
  <2>3. QED BY <1>4, <2>2
<1>6. QED BY <1>2, <1>3, <1>5 DEF StrRfind, StrFind

LEMMA EndsAsC ==
  ASSUME NEW r, NEW s, Holds(r, s), NEW t, Text(t)
  PROVE  /\ StrStartsWith(r, t) <=> FirstOf(Places(s, t)) = 0
         /\ StrEndsWith(r, t) <=> LastOf(Places(s, t)) = Len(s) - Len(t) /\ Len(t) <= Len(s)
<1>1. PICK M, l, m : M = Places(s, t) /\ l = Len(s) /\ m = Len(t)
  OBVIOUS
<1>2. /\ l \in Nat /\ m \in Nat /\ M \subseteq Nat
      /\ \A i \in M : i <= l - m /\ i <= l
  BY <1>1, HoldsText, PlacesFit
<1>3. 0 \in M <=> FirstOf(M) = 0
  <2>1. CASE M = {}
    BY <2>1 DEF FirstOf
  <2>2. CASE M # {}
    <3>1. PICK a : a = Min(M)
      OBVIOUS
    <3>2. a \in M /\ \A y \in M : a <= y
      BY <1>2, <2>2, <3>1, MinOfNaturals
    <3>3. FirstOf(M) = a
      BY <2>2, <3>1 DEF FirstOf
    <3>4. QED BY <1>2, <3>2, <3>3
  <2>3. QED BY <2>1, <2>2
<1>4. m <= l /\ l - m \in M <=> LastOf(M) = l - m /\ m <= l
  <2>1. CASE M = {}
    <3>1. LastOf(M) = -1
      BY <2>1 DEF LastOf
    <3>2. QED BY <1>2, <2>1, <3>1
  <2>2. CASE M # {}
    <3>1. PICK a : a = Max(M)
      OBVIOUS
    <3>2. M \subseteq 0 .. l
      BY <1>2
    <3>3. a \in M /\ \A y \in M : a >= y
      BY <1>2, <2>2, <3>1, <3>2, MaxOfBounded
    <3>4. LastOf(M) = a
      BY <2>2, <3>1 DEF LastOf
    <3>5. QED BY <1>2, <3>3, <3>4
  <2>3. QED BY <2>1, <2>2
<1>5. StrStartsWith(r, t) <=> 0 \in M
  BY <1>1, StartsIs DEF Places
<1>6. StrEndsWith(r, t) <=> m <= l /\ l - m \in M
  <2>1. StrEndsWith(r, t) <=> m <= l /\ Lies(s, t, l - m)
    BY <1>1, EndsIs
  <2>2. m <= l => l - m \in Nat
    BY <1>2
  <2>3. QED BY <1>1, <2>1, <2>2 DEF Places
<1>7. QED BY <1>1, <1>3, <1>4, <1>5, <1>6

LEMMA ListedAsC ==
  ASSUME NEW r, NEW s, Holds(r, s), NEW t, Text(t)
  PROVE  /\ \A p \in Int : Listed(r, t, p) = {q \in p .. Len(s) - 1 : q >= 0 /\ s[q + 1] \in ToSet(t)}
         /\ Listed(r, t, 0) \cup NotListed(r, t, 0) = 0 .. Len(s) - 1
<1>1. PICK l, m : l = Len(s) /\ m = Len(t)
  OBVIOUS
<1>2. l \in Nat /\ m \in Nat /\ r.size = l
  BY <1>1, HoldsText DEF Text, IsSeq
<1>3. DOMAIN t = 1 .. m
  BY <1>1 DEF Text, IsSeq
<1>4. \A i \in 0 .. l - 1 : r.data[i] = s[i + 1]
  BY <1>1 DEF Holds
<1>5. ASSUME NEW p \in Int
      PROVE  Listed(r, t, p) = {q \in p .. l - 1 : q >= 0 /\ s[q + 1] \in ToSet(t)}
  <2>1. PICK z : z = IF p >= 0 THEN p ELSE 0
    OBVIOUS
  <2>2. Max({p, 0}) = z
    BY <2>1, MaxOfTwo
  <2>3. Listed(r, t, p) = {i \in z .. l - 1 : \E k \in 1 .. m : r.data[i] = t[k]}
    BY <1>1, <1>2, <2>2 DEF Listed
  <2>4. \A i : i \in z .. l - 1 <=> i \in p .. l - 1 /\ i >= 0
    BY <1>2, <2>1
  <2>5. \A i \in z .. l - 1 : r.data[i] = s[i + 1]
    <3>1. \A i \in z .. l - 1 : i \in 0 .. l - 1
      BY <1>2, <2>1
    <3>2. QED BY <3>1, <1>4
  <2>6. \A i : i \in ToSet(t) <=> \E k \in 1 .. m : i = t[k]
    BY <1>3 DEF ToSet
  <2>7. QED BY <2>3, <2>4, <2>5, <2>6
<1>6. Max({0, 0}) = 0
  BY MaxOfTwo
<1>7. Listed(r, t, 0) \subseteq 0 .. l - 1
  BY <1>1, <1>2, <1>6 DEF Listed
<1>8. NotListed(r, t, 0) = (0 .. l - 1) \ Listed(r, t, 0)
  BY <1>2, <1>6 DEF NotListed
<1>9. QED BY <1>1, <1>5, <1>7, <1>8

LEMMA PrefixesAgree ==
  ASSUME NEW u, Text(u), NEW t, Text(t), NEW k \in Nat, k <= Len(u), k <= Len(t)
  PROVE  Prefix(u, k) = Prefix(t, k) <=> \A j \in 1 .. k : u[j] = t[j]
<1>1. PICK f, g : f = Prefix(u, k) /\ g = Prefix(t, k)
  OBVIOUS
<1>2. IsSeq(u) /\ IsSeq(t) /\ Len(u) \in Nat /\ Len(t) \in Nat
  BY DEF Text, IsSeq
<1>3. IsSeq(f) /\ Len(f) = k /\ \A j \in 1 .. k : f[j] = u[j]
  <2>1. IsSeq(f) /\ Len(f) = (IF k <= Len(u) THEN k ELSE Len(u)) /\ \A j \in 1 .. Len(f) : f[j] = u[j]
    BY <1>1, <1>2, PrefixAt
  <2>2. QED BY <2>1
<1>4. IsSeq(g) /\ Len(g) = k /\ \A j \in 1 .. k : g[j] = t[j]
  <2>1. IsSeq(g) /\ Len(g) = (IF k <= Len(t) THEN k ELSE Len(t)) /\ \A j \in 1 .. Len(g) : g[j] = t[j]
    BY <1>1, <1>2, PrefixAt
  <2>2. QED BY <2>1
<1>5. (\A j \in 1 .. k : u[j] = t[j]) => f = g
  <2> SUFFICES ASSUME \A j \in 1 .. k : u[j] = t[j] PROVE f = g
    OBVIOUS
  <2>1. \A j \in 1 .. Len(f) : f[j] = g[j]
    BY <1>3, <1>4
  <2>2. QED BY <1>3, <1>4, <2>1, SameSeq
<1>6. f = g => \A j \in 1 .. k : u[j] = t[j]
  BY <1>3, <1>4
<1>7. QED BY <1>1, <1>5, <1>6

(* The order is decided where the two differ first, or one ends.           *)
LEMMA PrecedesAt ==
  ASSUME NEW u, Text(u), NEW t, Text(t), NEW i \in Nat, i <= Len(u), i <= Len(t),
         \A j \in 1 .. i : u[j] = t[j],
         i < Len(u) /\ i < Len(t) => u[i + 1] # t[i + 1]
  PROVE  Precedes(u, t) <=> i < Len(t) /\ (i < Len(u) => u[i + 1] < t[i + 1])
<1>1. PICK l, m : l = Len(u) /\ m = Len(t)
  OBVIOUS
<1>2. l \in Nat /\ m \in Nat
  BY <1>1 DEF Text, IsSeq
<1>3. \A j \in 1 .. l : u[j] \in Int
  <2>1. \A j \in 1 .. l : u[j] \in 1 .. 127
    BY <1>1 DEF Text
  <2>2. \A x \in 1 .. 127 : x \in Int
    OBVIOUS
  <2>3. QED BY <2>1, <2>2, Zenon
<1>4. ASSUME i < m, i < l => u[i + 1] < t[i + 1] PROVE Precedes(u, t)
  <2>1. Prefix(u, i) = Prefix(t, i)
    BY PrefixesAgree
  <2>2. i \in 0 .. l
    BY <1>1, <1>2
  <2>3. QED BY <1>1, <1>4, <2>1, <2>2 DEF Precedes
<1>5. ASSUME Precedes(u, t) PROVE i < m /\ (i < l => u[i + 1] < t[i + 1])
  <2>1. PICK k \in 0 .. l : k < m /\ Prefix(u, k) = Prefix(t, k) /\ (k < l => u[k + 1] < t[k + 1])
    BY <1>1, <1>5 DEF Precedes
  <2>2. k \in Nat /\ k <= l
    BY <1>2, <2>1
  <2>3. \A j \in 1 .. k : u[j] = t[j]
    <3>1. k <= Len(u) /\ k <= Len(t)
      BY <1>1, <1>2, <2>1, <2>2
    <3>2. QED BY <2>1, <2>2, <3>1, PrefixesAgree
  <2>4. ~ (k < i)
    <3> SUFFICES ASSUME k < i PROVE FALSE
      OBVIOUS
    <3>1. k + 1 \in 1 .. i /\ k < l /\ k + 1 \in 1 .. l
      BY <1>1, <1>2, <2>2
    <3>2. u[k + 1] = t[k + 1] /\ u[k + 1] \in Int
      BY <1>3, <3>1
    <3>3. u[k + 1] < t[k + 1]
      BY <2>1, <3>1
    <3>4. QED BY <3>2, <3>3
  <2>5. ~ (i < k)
    <3> SUFFICES ASSUME i < k PROVE FALSE
      OBVIOUS
    <3>1. i + 1 \in 1 .. k /\ i < l /\ i < m
      BY <1>2, <2>1, <2>2
    <3>2. u[i + 1] = t[i + 1]
      BY <2>3, <3>1
    <3>3. QED BY <1>1, <3>1, <3>2
  <2>6. k = i
    BY <2>2, <2>4, <2>5
  <2>7. QED BY <2>1, <2>6
<1>6. QED BY <1>1, <1>4, <1>5

LEMMA CompareAsC ==
  ASSUME NEW r, NEW s, Holds(r, s), NEW t, Text(t)
  PROVE  /\ StrCompare(r, t) < 0 <=> Precedes(s, t)
         /\ StrCompare(r, t) > 0 <=> Precedes(t, s)
<1> DEFINE Theirs(i) == IF i < Len(t) THEN t[i + 1] ELSE 0
<1>1. PICK J, i : /\ J = {j \in 0 .. r.size : j = r.size \/ Theirs(j) = 0 \/ r.data[j] # Theirs(j)}
                  /\ i = Min(J)
  OBVIOUS
<1>2. StrCompare(r, t) = (IF i < r.size THEN r.data[i] ELSE 0) - Theirs(i)
  BY <1>1 DEF StrCompare
<1>3. PICK l, m : l = Len(s) /\ m = Len(t)
  OBVIOUS
<1>4. l \in Nat /\ m \in Nat /\ r.size = l /\ Text(s)
  BY <1>3, HoldsText DEF Text, IsSeq
<1>5. \A j \in 0 .. l - 1 : r.data[j] = s[j + 1]
  BY <1>3 DEF Holds
<1>6. \A j : Theirs(j) = IF j < m THEN t[j + 1] ELSE 0
  BY <1>3
<1> HIDE DEF Theirs
<1>7. /\ i \in 0 .. l /\ (i = l \/ Theirs(i) = 0 \/ r.data[i] # Theirs(i))
      /\ \A j \in 0 .. l : j < i => ~ (j = l \/ Theirs(j) = 0 \/ r.data[j] # Theirs(j))
  <2>1. J \subseteq Nat /\ J # {}
    <3>1. l \in J
      BY <1>1, <1>4
    <3>2. QED BY <1>1, <1>4, <3>1
  <2>2. i \in J /\ \A y \in J : i <= y
    BY <1>1, <2>1, MinOfNaturals
  <2>3. \A j \in 0 .. l : j < i => j \notin J
    BY <1>4, <2>1, <2>2
  <2>4. QED BY <1>1, <1>4, <2>2, <2>3
<1>8. \A j \in 0 .. l : j < i => j < l /\ j < m /\ s[j + 1] = t[j + 1]
  <2> SUFFICES ASSUME NEW j \in 0 .. l, j < i PROVE j < l /\ j < m /\ s[j + 1] = t[j + 1]
    OBVIOUS
  <2>1. j # l /\ Theirs(j) # 0 /\ r.data[j] = Theirs(j)
    BY <1>7
  <2>2. j < m /\ Theirs(j) = t[j + 1]
    BY <1>6, <2>1
  <2>3. j \in 0 .. l - 1
    BY <1>4, <2>1
  <2>4. QED BY <1>5, <2>1, <2>2, <2>3, <1>4
<1>9. i \in Nat /\ i <= l /\ i <= m
  <2>1. CASE i = 0
    BY <1>4, <2>1
  <2>2. CASE i # 0
    <3>1. i - 1 \in 0 .. l /\ i - 1 < i
      BY <1>4, <1>7, <2>2
    <3>2. i - 1 < m
      BY <1>8, <3>1
    <3>3. QED BY <1>4, <1>7, <3>2
  <2>3. QED BY <2>1, <2>2
<1>10. \A j \in 1 .. i : s[j] = t[j]
  <2> SUFFICES ASSUME NEW j \in 1 .. i PROVE s[j] = t[j]
    OBVIOUS
  <2>1. j - 1 \in 0 .. l /\ j - 1 < i /\ j - 1 + 1 = j
    BY <1>4, <1>9
  <2>2. s[j - 1 + 1] = t[j - 1 + 1]
    BY <1>8, <2>1
  <2>3. QED BY <2>1, <2>2
<1>11. i < m => t[i + 1] \in 1 .. 127 /\ Theirs(i) = t[i + 1]
  <2>1. i < m => i + 1 \in 1 .. m
    BY <1>4, <1>9
  <2>2. QED BY <1>3, <1>6, <2>1 DEF Text
<1>12. i < l => s[i + 1] \in 1 .. 127 /\ r.data[i] = s[i + 1]
  <2>1. i < l => i + 1 \in 1 .. l /\ i \in 0 .. l - 1
    BY <1>4, <1>9
  <2>2. QED BY <1>3, <1>4, <1>5, <2>1 DEF Text
<1>13. i < l /\ i < m => s[i + 1] # t[i + 1]
  <2> SUFFICES ASSUME i < l, i < m PROVE s[i + 1] # t[i + 1]
    OBVIOUS
  <2>1. Theirs(i) # 0 /\ i # l
    BY <1>11, <1>4, <1>9
  <2>2. QED BY <1>7, <1>11, <1>12, <2>1
<1>14. ~ (i < m) => Theirs(i) = 0
  BY <1>6
<1>15. PICK a, b : a = (IF i < l THEN s[i + 1] ELSE 0) /\ b = (IF i < m THEN t[i + 1] ELSE 0)
  OBVIOUS
<1>16. StrCompare(r, t) = a - b
  BY <1>2, <1>4, <1>11, <1>12, <1>14, <1>15
<1>17. a \in Int /\ b \in Int
  BY <1>11, <1>12, <1>15
<1>18. /\ a - b < 0 <=> i < m /\ (i < l => s[i + 1] < t[i + 1])
       /\ a - b > 0 <=> i < l /\ (i < m => t[i + 1] < s[i + 1])
  <2>1. CASE i < l
    <3>1. a \in 1 .. 127 /\ a = s[i + 1]
      BY <1>12, <1>15, <2>1
    <3>2. CASE i < m
      <4>1. b \in 1 .. 127 /\ b = t[i + 1]
        BY <1>11, <1>15, <3>2
      <4>2. (a - b < 0 <=> a < b) /\ (a - b > 0 <=> b < a)
        BY <3>1, <4>1
      <4>3. QED BY <2>1, <3>1, <3>2, <4>1, <4>2
    <3>3. CASE ~ (i < m)
      <4>1. b = 0
        BY <1>15, <3>3
      <4>2. ~ (a - b < 0) /\ a - b > 0
        BY <3>1, <4>1
      <4>3. QED BY <2>1, <3>3, <4>2
    <3>4. QED BY <3>2, <3>3
  <2>2. CASE ~ (i < l)
    <3>1. a = 0
      BY <1>15, <2>2
    <3>2. CASE i < m
      <4>1. b \in 1 .. 127
        BY <1>11, <1>15, <3>2
      <4>2. a - b < 0 /\ ~ (a - b > 0)
        BY <3>1, <4>1
      <4>3. QED BY <2>2, <3>2, <4>2
    <3>3. CASE ~ (i < m)
      <4>1. b = 0
        BY <1>15, <3>3
      <4>2. ~ (a - b < 0) /\ ~ (a - b > 0)
        BY <3>1, <4>1
      <4>3. QED BY <2>2, <3>3, <4>2
    <3>4. QED BY <3>2, <3>3
  <2>3. QED BY <2>1, <2>2
<1>20. Precedes(s, t) <=> i < m /\ (i < l => s[i + 1] < t[i + 1])
  BY <1>3, <1>4, <1>9, <1>10, <1>13, PrecedesAt
<1>21. Precedes(t, s) <=> i < l /\ (i < m => t[i + 1] < s[i + 1])
  <2>1. \A j \in 1 .. i : t[j] = s[j]
    BY <1>10
  <2>2. i < m /\ i < l => t[i + 1] # s[i + 1]
    BY <1>13
  <2>3. QED BY <1>3, <1>4, <1>9, <2>1, <2>2, PrecedesAt
<1>22. QED BY <1>16, <1>18, <1>20, <1>21

-----------------------------------------------------------------------------
(* Numbers.                                                                *)
(* The recursive functions exist.                                          *)
Evaluates(f, w, n) ==
  /\ f = [k \in 0 .. n |-> f[k]]
  /\ \A k \in 0 .. n : f[k] = IF k = 0 THEN 0 ELSE Wrap(f[k - 1] * 10 + (w[k] - Zero))

LEMMA ValueIs ==
  ASSUME NEW w, IsSeq(w)
  PROVE  Evaluates(Value(w), w, Len(w))
<1>0. Len(w) \in Nat
  BY DEF IsSeq
<1>1. PICK S : S = {n \in Nat : \A f : ~ Evaluates(f, w, n)}
  OBVIOUS
<1>2. S = {}
  <2> SUFFICES ASSUME S # {} PROVE FALSE
    OBVIOUS
  <2>1. PICK n : n = Min(S)
    OBVIOUS
  <2>2. n \in S /\ \A y \in S : n <= y
    BY <1>1, <2>1, MinOfNaturals
  <2>3. n \in Nat
    BY <1>1, <2>2
  <2>4. CASE n = 0
    <3>1. PICK f : f = [k \in 0 .. 0 |-> 0]
      OBVIOUS
    <3>2. Evaluates(f, w, 0)
      BY <3>1 DEF Evaluates
    <3>3. QED BY <1>1, <2>2, <2>4, <3>2
  <2>5. CASE n # 0
    <3>1. n - 1 \in Nat /\ n - 1 \notin S
      BY <2>2, <2>3, <2>5
    <3>2. PICK g : Evaluates(g, w, n - 1)
      BY <1>1, <3>1
    <3>3. PICK f : f = [k \in 0 .. n |-> IF k = n THEN Wrap(g[n - 1] * 10 + (w[n] - Zero)) ELSE g[k]]
      OBVIOUS
    <3>4. Evaluates(f, w, n)
      <4>1. \A k \in 0 .. n - 1 : f[k] = g[k]
        BY <2>3, <3>3
      <4>2. f[n] = Wrap(f[n - 1] * 10 + (w[n] - Zero))
        BY <2>3, <2>5, <3>3, <4>1
      <4>3. \A k \in 0 .. n - 1 : f[k] = IF k = 0 THEN 0 ELSE Wrap(f[k - 1] * 10 + (w[k] - Zero))
        <5>1. \A k \in 0 .. n - 1 : k = 0 \/ k - 1 \in 0 .. n - 1
          BY <2>3
        <5>2. QED BY <3>2, <4>1, <5>1 DEF Evaluates
      <4>4. \A k \in 0 .. n : k = n \/ k \in 0 .. n - 1
        BY <2>3
      <4>5. f = [k \in 0 .. n |-> f[k]]
        BY <3>3
      <4>6. QED BY <2>3, <2>5, <4>2, <4>3, <4>4, <4>5 DEF Evaluates
    <3>5. QED BY <1>1, <2>2, <3>4
  <2>6. QED BY <2>4, <2>5
<1>3. PICK g : Evaluates(g, w, Len(w))
  BY <1>0, <1>1, <1>2
<1>4. g = [k \in 0 .. Len(w) |-> IF k = 0 THEN 0 ELSE Wrap(g[k - 1] * 10 + (w[k] - Zero))]
  BY <1>3 DEF Evaluates
<1>5. PICK f : f = Value(w)
  OBVIOUS
<1>6. f = CHOOSE h : h = [k \in 0 .. Len(w) |-> IF k = 0 THEN 0 ELSE Wrap(h[k - 1] * 10 + (w[k] - Zero))]
  BY <1>5, Zenon DEF Value
<1>7. f = [k \in 0 .. Len(w) |-> IF k = 0 THEN 0 ELSE Wrap(f[k - 1] * 10 + (w[k] - Zero))]
  BY <1>4, <1>6, Zenon
<1>8. QED BY <1>5, <1>7 DEF Evaluates

LEMMA WrapIs ==
  /\ \A x \in MinInt .. MaxInt : Wrap(x) = x
  /\ Wrap(2 ^ (Bits - 1)) = MinInt
<1>1. PICK N, M : N = 2 ^ (Bits - 1) /\ M = 2 ^ Bits
  OBVIOUS
<1>2. N \in Nat \ {0} /\ M = 2 * N
  BY <1>1, Powers
<1>3. MinInt = -N /\ MaxInt = N - 1
  BY <1>1 DEF MinInt, MaxInt
<1>4. \A x : Wrap(x) = ((x - MinInt) % M) + MinInt
  BY <1>1 DEF Wrap
<1>5. \A y \in 0 .. M - 1 : y % M = y
  BY <1>2
<1>6. M % M = 0
  BY <1>2
<1>7. ASSUME NEW x \in MinInt .. MaxInt PROVE Wrap(x) = x
  <2>1. x - MinInt \in 0 .. M - 1
    BY <1>2, <1>3
  <2>2. (x - MinInt) % M = x - MinInt
    BY <1>5, <2>1
  <2>3. QED BY <1>2, <1>3, <1>4, <2>2
<1>8. Wrap(N) = MinInt
  <2>1. N - MinInt = M
    BY <1>2, <1>3
  <2>2. Wrap(N) = 0 + MinInt
    BY <1>4, <1>6, <2>1
  <2>3. QED BY <1>2, <1>3, <2>2
<1>9. QED BY <1>1, <1>7, <1>8

Written(f, v) == <<Zero - Units(v)>> \o (IF Tenth(v) = 0 THEN <<>> ELSE f[Tenth(v)])

Counts(f, n) == f = [v \in -n .. 0 |-> f[v]] /\ \A v \in -n .. 0 : f[v] = Written(f, v)

LEMMA TenthIs ==
  ASSUME NEW a \in Nat
  PROVE  \E q \in Nat, r \in 0 .. 9 :
           a = 10 * q + r /\ Tenth(-a) = -q /\ Units(-a) = -r /\ (a # 0 => q < a)
<1>1. PICK q, r : q = a \div 10 /\ r = a - 10 * q
  OBVIOUS
<1>2. q \in Nat /\ r \in 0 .. 9 /\ a = 10 * q + r
  BY <1>1
<1>3. Tenth(-a) = -q
  <2>1. CASE ~ (a > 0)
    <3>1. 0 \div 10 = 0
      OBVIOUS
    <3>2. Tenth(0) = 0
      BY <3>1 DEF Tenth
    <3>3. -a = 0
      BY <2>1
    <3>4. ~ (q > 0)
      BY <1>2, <2>1
    <3>5. -q = 0
      BY <1>2, <3>4
    <3>6. QED BY <3>2, <3>3, <3>5
  <2>2. CASE a > 0
    <3>1. -a < 0 /\ -(-a) = a
      BY <2>2
    <3>2. QED BY <1>1, <3>1 DEF Tenth
  <2>3. QED BY <2>1, <2>2
<1>4. Units(-a) = -r
  BY <1>2, <1>3 DEF Units
<1>5. a # 0 => q < a
  BY <1>2
<1>6. QED BY <1>2, <1>3, <1>4, <1>5

LEMMA DigitsIs ==
  \A a \in 0 .. 2 ^ (Bits - 1) : Digits[-a] = Written(Digits, -a)
<1>1. PICK S : S = {n \in Nat : \A f : ~ Counts(f, n)}
  OBVIOUS
<1>2. S = {}
  <2> SUFFICES ASSUME S # {} PROVE FALSE
    OBVIOUS
  <2>1. PICK n : n = Min(S)
    OBVIOUS
  <2>2. n \in S /\ \A y \in S : n <= y
    BY <1>1, <2>1, MinOfNaturals
  <2>3. n \in Nat
    BY <1>1, <2>2
  <2>4. CASE n = 0
    <3>1. Tenth(0) = 0
      BY DEF Tenth
    <3>2. PICK f : f = [v \in -0 .. 0 |-> <<Zero - Units(0)>> \o <<>>]
      OBVIOUS
    <3>3. \A v \in -0 .. 0 : v = 0
      OBVIOUS
    <3>4. Written(f, 0) = <<Zero - Units(0)>> \o <<>>
      BY <3>1 DEF Written
    <3>5. Counts(f, 0)
      BY <3>2, <3>3, <3>4 DEF Counts
    <3>6. QED BY <1>1, <2>2, <2>4, <3>5
  <2>5. CASE n # 0
    <3>1. n - 1 \in Nat /\ n - 1 \notin S
      BY <2>2, <2>3, <2>5
    <3>2. PICK g : Counts(g, n - 1)
      BY <1>1, <3>1
    <3>3. PICK f : f = [v \in -n .. 0 |-> IF v = -n THEN Written(g, -n) ELSE g[v]]
      OBVIOUS
    <3>4. ASSUME NEW v \in -n .. 0 PROVE f[v] = Written(f, v)
      <4>1. PICK a : a = -v
        OBVIOUS
      <4>2. a \in 0 .. n /\ v = -a
        BY <2>3, <4>1
      <4>3. PICK q \in Nat, r \in 0 .. 9 : Tenth(-a) = -q /\ (a # 0 => q < a) /\ a = 10 * q + r
        BY <2>3, <4>2, TenthIs
      <4>4. -q \in -(n - 1) .. 0
        BY <2>3, <2>5, <4>2, <4>3
      <4>5. f[-q] = g[-q]
        BY <2>3, <3>3, <4>4
      <4>6. Written(f, v) = Written(g, v)
        BY <4>2, <4>3, <4>5 DEF Written
      <4>7. f[v] = Written(g, v)
        <5>1. CASE v = -n
          BY <2>3, <3>3, <5>1
        <5>2. CASE v # -n
          <6>1. v \in -(n - 1) .. 0
            BY <2>3, <5>2
          <6>2. QED BY <2>3, <3>2, <3>3, <5>2, <6>1 DEF Counts
        <5>3. QED BY <5>1, <5>2
      <4>8. QED BY <4>6, <4>7
    <3>5. Counts(f, n)
      <4>1. f = [v \in -n .. 0 |-> f[v]]
        BY <3>3
      <4>2. QED BY <3>4, <4>1 DEF Counts
    <3>6. QED BY <1>1, <2>2, <3>5
  <2>6. QED BY <2>4, <2>5
<1>3. PICK N : N = 2 ^ (Bits - 1)
  OBVIOUS
<1>4. N \in Nat /\ MinInt = -N
  BY <1>3, Powers DEF MinInt
<1>5. PICK g : Counts(g, N)
  BY <1>1, <1>2, <1>4
<1>6. g = [v \in MinInt .. 0 |-> <<Zero - Units(v)>> \o (IF Tenth(v) = 0 THEN <<>> ELSE g[Tenth(v)])]
  BY <1>4, <1>5 DEF Counts, Written
<1>7. PICK f : f = Digits
  OBVIOUS
<1>8. f = CHOOSE h : h = [v \in MinInt .. 0 |-> <<Zero - Units(v)>> \o (IF Tenth(v) = 0 THEN <<>> ELSE h[Tenth(v)])]
  BY <1>7, Zenon DEF Digits
<1>9. f = [v \in MinInt .. 0 |-> <<Zero - Units(v)>> \o (IF Tenth(v) = 0 THEN <<>> ELSE f[Tenth(v)])]
  BY <1>6, <1>8, Zenon
<1>10. \A v \in MinInt .. 0 : f[v] = Written(f, v)
  BY <1>9 DEF Written
<1>11. \A a \in 0 .. N : -a \in MinInt .. 0
  BY <1>4
<1>12. QED BY <1>3, <1>7, <1>10, <1>11

(* A number's digits are the last one, and those of its tenth.             *)
Led(f, x, g) ==
  IsSeq(f) /\ Len(f) = Len(g) + 1 /\ f[1] = x /\ \A i \in 1 .. Len(g) : f[i + 1] = g[i]

LEMMA LedAt ==
  ASSUME NEW x, NEW g, IsSeq(g), NEW f, f = <<x>> \o g
  PROVE  Led(f, x, g)
<1>1. PICK one : one = <<x>>
  OBVIOUS
<1>2. IsSeq(one) /\ Len(one) = 1 /\ one[1] = x
  BY <1>1 DEF IsSeq
<1>3. /\ IsSeq(f) /\ Len(f) = Len(one) + Len(g)
      /\ \A i \in 1 .. Len(one) + Len(g) : f[i] = IF i <= Len(one) THEN one[i] ELSE g[i - Len(one)]
  <2>1. f = one \o g
    BY <1>1
  <2>2. QED BY <1>2, <2>1, ConcatAt
<1>4. PICK n : n = Len(g)
  OBVIOUS
<1>5. n \in Nat
  BY <1>4 DEF IsSeq
<1>6. Len(f) = n + 1 /\ \A i \in 1 .. n + 1 : f[i] = IF i <= 1 THEN one[i] ELSE g[i - 1]
  BY <1>2, <1>3, <1>4, <1>5
<1>7. f[1] = x
  BY <1>2, <1>5, <1>6
<1>8. \A i \in 1 .. n : f[i + 1] = g[i]
  <2>1. \A i \in 1 .. n : i + 1 \in 1 .. n + 1 /\ ~ (i + 1 <= 1) /\ i + 1 - 1 = i
    BY <1>5
  <2>2. QED BY <1>6, <2>1
<1>9. QED BY <1>3, <1>4, <1>6, <1>7, <1>8 DEF Led

LEMMA DigitsStep ==
  ASSUME NEW a \in 0 .. 2 ^ (Bits - 1)
  PROVE  \E q \in Nat, r \in 0 .. 9 :
           /\ a = 10 * q + r /\ (a # 0 => q < a) /\ q \in 0 .. 2 ^ (Bits - 1)
           /\ q = 0 => Led(Digits[-a], Zero + r, <<>>)
           /\ q # 0 /\ IsSeq(Digits[-q]) => Led(Digits[-a], Zero + r, Digits[-q])
<1>1. PICK N : N = 2 ^ (Bits - 1)
  OBVIOUS
<1>2. N \in Nat /\ a \in Nat /\ a <= N
  BY <1>1, Powers
<1>3. PICK q \in Nat, r \in 0 .. 9 :
        a = 10 * q + r /\ Tenth(-a) = -q /\ Units(-a) = -r /\ (a # 0 => q < a)
  BY <1>2, TenthIs
<1>4. PICK f, g : f = Digits[-a] /\ g = Digits[-q]
  OBVIOUS
<1>5. f = Written(Digits, -a)
  BY <1>4, DigitsIs
<1>6. Zero - (-r) = Zero + r
  BY <1>3 DEF Zero
<1>7. f = <<Zero + r>> \o (IF -q = 0 THEN <<>> ELSE g)
  BY <1>3, <1>4, <1>5, <1>6 DEF Written
<1>8. -q = 0 <=> q = 0
  BY <1>3
<1>9. ASSUME q = 0 PROVE Led(f, Zero + r, <<>>)
  <2>1. f = <<Zero + r>> \o <<>>
    BY <1>7, <1>8, <1>9
  <2>2. IsSeq(<<>>)
    BY DEF IsSeq
  <2>3. QED BY <2>1, <2>2, LedAt
<1>10. ASSUME q # 0, IsSeq(g) PROVE Led(f, Zero + r, g)
  <2>1. f = <<Zero + r>> \o g
    BY <1>7, <1>8, <1>10
  <2>2. QED BY <2>1, <1>10, LedAt
<1>11. q \in 0 .. N
  BY <1>2, <1>3
<1>12. QED BY <1>1, <1>3, <1>4, <1>9, <1>10, <1>11

Tidy(u, a) ==
  /\ IsSeq(u) /\ Len(u) >= 1 /\ \A i \in 1 .. Len(u) : u[i] \in Zero .. Zero + 9
  /\ \A k \in 1 .. Capacity - 1 : a < 10 ^ k => Len(u) <= k

LEMMA DigitsTidy ==
  \A a \in 0 .. 2 ^ (Bits - 1) : Tidy(Digits[-a], a)
<1>1. PICK N, S : N = 2 ^ (Bits - 1) /\ S = {a \in 0 .. N : ~ Tidy(Digits[-a], a)}
  OBVIOUS
<1>2. N \in Nat
  BY <1>1, Powers
<1>3. S = {}
  <2> SUFFICES ASSUME S # {} PROVE FALSE
    OBVIOUS
  <2>1. PICK a : a = Min(S)
    OBVIOUS
  <2>2. S \subseteq Nat
    BY <1>1, <1>2
  <2>3. a \in S /\ \A y \in S : a <= y
    BY <2>1, <2>2, MinOfNaturals
  <2>4. a \in 0 .. N /\ a \in Nat /\ ~ Tidy(Digits[-a], a)
    BY <1>1, <1>2, <2>3
  <2>5. PICK q \in Nat, r \in 0 .. 9 :
          /\ a = 10 * q + r /\ (a # 0 => q < a) /\ q \in 0 .. N
          /\ q = 0 => Led(Digits[-a], Zero + r, <<>>)
          /\ q # 0 /\ IsSeq(Digits[-q]) => Led(Digits[-a], Zero + r, Digits[-q])
    BY <1>1, <2>4, DigitsStep
  <2>6. PICK f, g, x : f = Digits[-a] /\ g = Digits[-q] /\ x = Zero + r
    OBVIOUS
  <2>7. x \in Zero .. Zero + 9
    BY <2>5, <2>6 DEF Zero
  <2>8. CASE q = 0
    <3>1. Led(f, x, <<>>)
      BY <2>5, <2>6, <2>8
    <3>2. IsSeq(f) /\ Len(f) = 1 /\ f[1] = x
      BY <3>1 DEF Led
    <3>3. \A i \in 1 .. Len(f) : f[i] \in Zero .. Zero + 9
      BY <2>7, <3>2
    <3>4. \A k \in 1 .. Capacity - 1 : Len(f) <= k
      BY <3>2, StringBounds
    <3>5. Tidy(f, a)
      BY <3>2, <3>3, <3>4 DEF Tidy
    <3>6. QED BY <2>4, <2>6, <3>5
  <2>9. CASE q # 0
    <3>1. q < a
      BY <2>4, <2>5, <2>9
    <3>2. q \notin S
      BY <2>2, <2>3, <2>5, <3>1
    <3>3. Tidy(g, q)
      BY <1>1, <2>5, <2>6, <3>2
    <3>4. Led(f, x, g)
      BY <2>5, <2>6, <2>9, <3>3 DEF Tidy
    <3>5. PICK m : m = Len(g)
      OBVIOUS
    <3>6. m \in Nat /\ m >= 1
      BY <3>3, <3>5 DEF Tidy, IsSeq
    <3>7. IsSeq(f) /\ Len(f) = m + 1 /\ f[1] = x /\ \A i \in 1 .. m : f[i + 1] = g[i]
      BY <3>4, <3>5 DEF Led
    <3>8. ASSUME NEW i \in 1 .. m + 1 PROVE f[i] \in Zero .. Zero + 9
      <4>1. CASE i = 1
        BY <2>7, <3>7, <4>1
      <4>2. CASE i # 1
        <5>1. i - 1 \in 1 .. m /\ i - 1 + 1 = i
          BY <3>6, <4>2
        <5>2. f[i - 1 + 1] = g[i - 1]
          BY <3>7, <5>1
        <5>3. g[i - 1] \in Zero .. Zero + 9
          BY <3>3, <3>5, <5>1 DEF Tidy
        <5>4. QED BY <5>1, <5>2, <5>3
      <4>3. QED BY <4>1, <4>2
    <3>9. ASSUME NEW k \in 1 .. Capacity - 1, a < 10 ^ k PROVE m + 1 <= k
      <4>0. Capacity \in Nat
        BY StringBounds
      <4>1. PICK j : j = k - 1
        OBVIOUS
      <4>2. j \in 0 .. Capacity - 1 /\ k = j + 1
        BY <4>0, <4>1
      <4>3. 10 ^ j \in Nat /\ 10 ^ (j + 1) = 10 * 10 ^ j
        BY <4>2, Powers
      <4>4. PICK w : w = 10 ^ j
        OBVIOUS
      <4>5. w \in Nat /\ a < 10 * w
        BY <3>9, <4>2, <4>3, <4>4
      <4>6. q < w
        BY <2>5, <4>5
      <4>7. j # 0
        <5>1. j = 0 => w = 1
          BY <4>4, Powers
        <5>2. QED BY <2>5, <2>9, <4>6, <5>1
      <4>8. j \in 1 .. Capacity - 1
        BY <4>0, <4>2, <4>7
      <4>9. m <= j
        BY <3>3, <3>5, <4>4, <4>6, <4>8 DEF Tidy
      <4>10. QED BY <3>6, <4>2, <4>9
    <3>10. Tidy(f, a)
      <4>1. Len(f) >= 1
        BY <3>6, <3>7
      <4>2. QED BY <3>7, <3>8, <3>9, <4>1 DEF Tidy
    <3>11. QED BY <2>4, <2>6, <3>10
  <2>10. QED BY <2>8, <2>9
<1>4. QED BY <1>1, <1>3

(* w begins with u, the last digit of which is first.                      *)
Spelt(w, u) == \A i \in 1 .. Len(u) : w[i] = u[Len(u) + 1 - i]

ReadsAs(u, a) ==
  \A w, h : \A n \in Nat : Evaluates(h, w, n) /\ Len(u) <= n /\ Spelt(w, u) => h[Len(u)] = Wrap(a)

LEMMA DigitsRead ==
  \A a \in 0 .. 2 ^ (Bits - 1) : ReadsAs(Digits[-a], a)
<1>1. PICK N, S : N = 2 ^ (Bits - 1) /\ S = {a \in 0 .. N : ~ ReadsAs(Digits[-a], a)}
  OBVIOUS
<1>2. N \in Nat /\ MinInt = -N /\ MaxInt = N - 1
  BY <1>1, Powers DEF MinInt, MaxInt
<1>3. S = {}
  <2> SUFFICES ASSUME S # {} PROVE FALSE
    OBVIOUS
  <2>1. PICK a : a = Min(S)
    OBVIOUS
  <2>2. S \subseteq Nat
    BY <1>1, <1>2
  <2>3. a \in S /\ \A y \in S : a <= y
    BY <2>1, <2>2, MinOfNaturals
  <2>4. a \in 0 .. N /\ a \in Nat /\ ~ ReadsAs(Digits[-a], a)
    BY <1>1, <1>2, <2>3
  <2>5. PICK q \in Nat, r \in 0 .. 9 :
          /\ a = 10 * q + r /\ (a # 0 => q < a) /\ q \in 0 .. N
          /\ q = 0 => Led(Digits[-a], Zero + r, <<>>)
          /\ q # 0 /\ IsSeq(Digits[-q]) => Led(Digits[-a], Zero + r, Digits[-q])
    BY <1>1, <2>4, DigitsStep
  <2>6. PICK f, g, x : f = Digits[-a] /\ g = Digits[-q] /\ x = Zero + r
    OBVIOUS
  <2>7. PICK w, h, n, m : /\ n \in Nat /\ Evaluates(h, w, n) /\ m = Len(f) /\ m <= n /\ Spelt(w, f)
                          /\ h[m] # Wrap(a)
    BY <2>4, <2>6 DEF ReadsAs
  <2>8. x - Zero = r /\ a = q * 10 + r
    BY <2>5, <2>6 DEF Zero
  <2>9. CASE q = 0
    <3>1. m = 1 /\ f[1] = x
      BY <2>5, <2>6, <2>7, <2>9 DEF Led
    <3>2. w[1] = x
      BY <2>7, <3>1 DEF Spelt
    <3>3. 0 \in 0 .. n /\ 1 \in 0 .. n
      BY <2>7, <3>1
    <3>4. h[0] = 0
      BY <2>7, <3>3 DEF Evaluates
    <3>5. h[1] = Wrap(h[1 - 1] * 10 + (w[1] - Zero))
      <4>1. \A k \in 0 .. n : k # 0 => h[k] = Wrap(h[k - 1] * 10 + (w[k] - Zero))
        BY <2>7 DEF Evaluates
      <4>2. 1 # 0
        OBVIOUS
      <4>3. QED BY <3>3, <4>1, <4>2, Zenon
    <3>6. 1 - 1 = 0 /\ 0 * 10 + r = a
      BY <2>8, <2>9
    <3>7. h[1] = Wrap(a)
      BY <2>8, <3>2, <3>4, <3>5, <3>6
    <3>8. QED BY <2>7, <3>1, <3>7
  <2>10. CASE q # 0
    <3>1. q < a /\ q \notin S
      BY <2>2, <2>3, <2>4, <2>5, <2>10
    <3>2. ReadsAs(g, q)
      BY <1>1, <2>5, <2>6, <3>1
    <3>3. IsSeq(g)
      BY <1>1, <2>5, <2>6, DigitsTidy DEF Tidy
    <3>4. PICK k : k = Len(g)
      OBVIOUS
    <3>5. k \in Nat
      BY <3>3, <3>4 DEF IsSeq
    <3>6. m = k + 1 /\ f[1] = x /\ \A i \in 1 .. k : f[i + 1] = g[i]
      BY <2>5, <2>6, <2>7, <2>10, <3>3, <3>4 DEF Led
    <3>7. \A i \in 1 .. k + 1 : w[i] = f[k + 1 + 1 - i]
      BY <2>7, <3>6 DEF Spelt
    <3>8. Spelt(w, g)
      <4>1. ASSUME NEW i \in 1 .. k PROVE w[i] = g[k + 1 - i]
        <5>1. i \in 1 .. k + 1 /\ k + 1 - i \in 1 .. k /\ k + 1 - i + 1 = k + 1 + 1 - i
          BY <3>5
        <5>2. w[i] = f[k + 1 - i + 1]
          BY <3>7, <5>1
        <5>3. QED BY <3>6, <5>1, <5>2
      <4>2. QED BY <3>4, <4>1 DEF Spelt
    <3>9. w[k + 1] = x
      <4>1. k + 1 \in 1 .. k + 1 /\ k + 1 + 1 - (k + 1) = 1
        BY <3>5
      <4>2. QED BY <3>6, <3>7, <4>1
    <3>10. h[k] = Wrap(q)
      <4>1. k <= n
        BY <2>7, <3>5, <3>6
      <4>2. QED BY <2>7, <3>2, <3>4, <3>8, <4>1 DEF ReadsAs
    <3>11. Wrap(q) = q
      <4>1. q \in MinInt .. MaxInt
        BY <1>2, <2>4, <2>5, <3>1
      <4>2. QED BY <4>1, WrapIs
    <3>12. h[k + 1] = Wrap(h[k] * 10 + (w[k + 1] - Zero))
      <4>1. k + 1 \in 0 .. n /\ k + 1 # 0 /\ k + 1 - 1 = k
        BY <2>7, <3>5, <3>6
      <4>2. h[k + 1] = Wrap(h[k + 1 - 1] * 10 + (w[k + 1] - Zero))
        BY <2>7, <4>1 DEF Evaluates
      <4>3. QED BY <4>1, <4>2
    <3>13. QED BY <2>7, <2>8, <3>6, <3>9, <3>10, <3>11, <3>12
  <2>11. QED BY <2>9, <2>10
<1>4. QED BY <1>1, <1>3

LEMMA ReverseAt ==
  ASSUME NEW s, IsSeq(s), NEW f, f = Reverse(s)
  PROVE  IsSeq(f) /\ Len(f) = Len(s) /\ \A i \in 1 .. Len(s) : f[i] = s[Len(s) + 1 - i]
<1>1. PICK n : n = Len(s)
  OBVIOUS
<1>2. n \in Nat
  BY <1>1 DEF IsSeq
<1>3. f = [i \in 1 .. n |-> s[(n - i) + 1]]
  BY <1>1 DEF Reverse
<1>4. Len(f) = n
  BY <1>2, <1>3
<1>5. \A i \in 1 .. n : n - i + 1 = n + 1 - i
  BY <1>2
<1>6. QED BY <1>1, <1>3, <1>4, <1>5 DEF IsSeq

LEMMA ReverseText ==
  ASSUME NEW s, Text(s)
  PROVE  Text(Reverse(s)) /\ Len(Reverse(s)) = Len(s)
<1>1. PICK f, n : f = Reverse(s) /\ n = Len(s)
  OBVIOUS
<1>2. n \in Nat
  BY <1>1 DEF Text, IsSeq
<1>3. IsSeq(f) /\ Len(f) = n /\ \A i \in 1 .. n : f[i] = s[n + 1 - i]
  BY <1>1, ReverseAt DEF Text
<1>4. \A i \in 1 .. n : n + 1 - i \in 1 .. n
  BY <1>2
<1>5. \A i \in 1 .. n : s[i] \in 1 .. 127
  BY <1>1 DEF Text
<1>6. \A i \in 1 .. n : f[i] \in 1 .. 127
  BY <1>3, <1>4, <1>5
<1>7. QED BY <1>1, <1>3, <1>6 DEF Text

(* The characters of the number -a, or a.                                  *)
Signed(u, v) == IF v < 0 THEN Append(u, Minus) ELSE u

LEMMA ToTextHolds ==
  ASSUME NEW v \in MinInt .. MaxInt, NEW a, a = IF v < 0 THEN -v ELSE v,
         NEW x, x = Signed(Digits[-a], v)
  PROVE  /\ a \in 0 .. 2 ^ (Bits - 1) /\ Tidy(Digits[-a], a)
         /\ Text(x) /\ Holds(ToText(v), Reverse(x))
<1>1. PICK N, u, C : N = 2 ^ (Bits - 1) /\ u = Digits[-a] /\ C = Capacity
  OBVIOUS
<1>2. N \in Nat \ {0} /\ MinInt = -N /\ MaxInt = N - 1
  BY <1>1, Powers DEF MinInt, MaxInt
<1>3. v \in Int /\ a \in 0 .. N
  BY <1>2
<1>4. Tidy(u, a)
  BY <1>1, <1>3, DigitsTidy
<1>5. C \in Nat /\ C >= 2
  <2>1. C \in Nat \ {0} /\ N < 10 ^ (C - 1)
    BY <1>1, IntsFit, StringBounds
  <2>2. C # 1
    <3>1. C = 1 => C - 1 = 0
      OBVIOUS
    <3>2. C = 1 => N < 1
      BY <2>1, <3>1, Powers
    <3>3. QED BY <1>2, <3>2
  <2>3. QED BY <2>1, <2>2
<1>6. Text(u) /\ Len(u) \in Nat /\ Len(u) + 1 <= C
  <2>1. IsSeq(u) /\ \A i \in 1 .. Len(u) : u[i] \in Zero .. Zero + 9
    BY <1>4 DEF Tidy
  <2>2. \A c \in Zero .. Zero + 9 : c \in 1 .. 127
    BY DEF Zero
  <2>3. Text(u)
    BY <2>1, <2>2, Zenon DEF Text
  <2>4. PICK k : k = C - 1
    OBVIOUS
  <2>5. k \in 1 .. Capacity - 1 /\ k \in 0 .. Capacity - 1 /\ k \in Nat
    BY <1>1, <1>5, <2>4
  <2>6. N < 10 ^ k
    BY <1>1, <2>4, IntsFit
  <2>7. 10 ^ k \in Nat
    BY <2>5, Powers
  <2>8. a < 10 ^ k
    BY <1>2, <1>3, <2>6, <2>7
  <2>9. Len(u) <= k
    BY <1>4, <2>5, <2>8 DEF Tidy
  <2>10. Len(u) \in Nat
    BY <2>1 DEF IsSeq
  <2>11. QED BY <1>5, <2>3, <2>4, <2>9, <2>10
<1>7. (IF v < 0 THEN v ELSE -v) = -a
  BY <1>3
<1>8. PICK made, signed : /\ made = Put(NewString, u)
                          /\ signed = IF v < 0 THEN StrPushBack(made, Minus) ELSE made
  OBVIOUS
<1>9. Holds(made, u)
  <2>1. Prefix(u, Capacity) = u
    BY <1>1, <1>5, <1>6, FitsUncut DEF Text
  <2>2. QED BY <1>6, <1>8, <2>1, NewPutHolds
<1>10. Holds(signed, x) /\ Text(x)
  <2>1. CASE v < 0
    <3>1. x = Append(u, Minus) /\ signed = StrPushBack(made, Minus)
      BY <1>1, <1>8, <2>1 DEF Signed
    <3>2. Minus \in 1 .. 127
      BY DEF Minus
    <3>3. Holds(signed, Prefix(x, Capacity))
      BY <1>9, <3>1, <3>2, PushBackHolds
    <3>4. IsSeq(x) /\ Len(x) = Len(u) + 1
      BY <1>6, <3>1, AppendAt DEF Text
    <3>5. Prefix(x, Capacity) = x
      BY <1>1, <1>6, <3>4, FitsUncut
    <3>6. QED BY <3>3, <3>5, HoldsText
  <2>2. CASE ~ (v < 0)
    BY <1>1, <1>6, <1>8, <1>9, <2>2 DEF Signed
  <2>3. QED BY <2>1, <2>2
<1>11. ToText(v) = Put(NewString, Reverse(Chars(signed)))
  BY <1>1, <1>7, <1>8 DEF ToText
<1>12. Chars(signed) = x /\ Len(x) \in 0 .. Capacity
  BY <1>10, HoldsRead
<1>13. Text(Reverse(x)) /\ Len(Reverse(x)) <= Capacity
  BY <1>1, <1>5, <1>10, <1>12, ReverseText
<1>14. Holds(ToText(v), Reverse(x))
  <2>1. Prefix(Reverse(x), Capacity) = Reverse(x)
    BY <1>13, FitsUncut DEF Text
  <2>2. QED BY <1>11, <1>12, <1>13, <2>1, NewPutHolds
<1>15. QED BY <1>1, <1>3, <1>4, <1>10, <1>14

(* stoi() in three parts: what is behind the spaces, its sign, its digits. *)
Spaces(t) == Min({k \in 0 .. Len(t) : k = Len(t) \/ t[k + 1] # Space})
DigitsOf(w) == Min({k \in 0 .. Len(w) : k = Len(w) \/ ~ IsDigit(w[k + 1])})
SignOf(u) == u # <<>> /\ u[1] \in {Minus, Plus}
Unsigned(u) == IF SignOf(u) THEN Tail(u) ELSE u
NumberOf(u) ==
  IF SignOf(u) /\ u[1] = Minus THEN Wrap(-(Value(Unsigned(u))[DigitsOf(Unsigned(u))]))
  ELSE Value(Unsigned(u))[DigitsOf(Unsigned(u))]

LEMMA StoiIs ==
  ASSUME NEW s
  PROVE  Stoi(s) = NumberOf(SubSeq(Chars(s), Spaces(Chars(s)) + 1, Len(Chars(s))))
BY Zenon DEF Stoi, NumberOf, Spaces, DigitsOf, SignOf, Unsigned

LEMMA StoiAsC ==
  ASSUME NEW v \in MinInt .. MaxInt
  PROVE  Stoi(ToText(v)) = v
<1>1. PICK N, a : N = 2 ^ (Bits - 1) /\ a = IF v < 0 THEN -v ELSE v
  OBVIOUS
<1>2. PICK u, x : u = Digits[-a] /\ x = Signed(u, v)
  OBVIOUS
<1>3. N \in Nat \ {0} /\ MinInt = -N /\ MaxInt = N - 1
  BY <1>1, Powers DEF MinInt, MaxInt
<1>4. v \in Int /\ a \in 0 .. N /\ Tidy(u, a) /\ Text(x) /\ Holds(ToText(v), Reverse(x))
  <2>1. v \in Int
    BY <1>3
  <2>2. QED BY <1>1, <1>2, <2>1, ToTextHolds
<1>5. PICK t, l, m : t = Reverse(x) /\ l = Len(x) /\ m = Len(u)
  OBVIOUS
<1>6. IsSeq(u) /\ m \in Nat /\ m >= 1 /\ \A i \in 1 .. m : u[i] \in Zero .. Zero + 9
  BY <1>4, <1>5 DEF Tidy, IsSeq
<1>7. /\ v < 0 => l = m + 1 /\ x[m + 1] = Minus /\ \A i \in 1 .. m : x[i] = u[i]
      /\ ~ (v < 0) => x = u /\ l = m
  <2>1. CASE v < 0
    <3>1. x = Append(u, Minus)
      BY <1>2, <2>1 DEF Signed
    <3>2. Len(x) = m + 1 /\ \A i \in 1 .. m + 1 : x[i] = IF i = m + 1 THEN Minus ELSE u[i]
      BY <1>5, <1>6, <3>1, AppendAt
    <3>3. \A i \in 1 .. m : i \in 1 .. m + 1 /\ i # m + 1
      BY <1>6
    <3>4. m + 1 \in 1 .. m + 1
      BY <1>6
    <3>5. QED BY <1>5, <2>1, <3>2, <3>3, <3>4
  <2>2. CASE ~ (v < 0)
    BY <1>2, <1>5, <2>2 DEF Signed
  <2>3. QED BY <2>1, <2>2
<1>8. IsSeq(t) /\ Len(t) = l /\ l \in Nat /\ l >= 1 /\ \A i \in 1 .. l : t[i] = x[l + 1 - i]
  <2>1. IsSeq(x)
    BY <1>4 DEF Text
  <2>2. IsSeq(t) /\ Len(t) = l /\ \A i \in 1 .. l : t[i] = x[l + 1 - i]
    BY <1>5, <2>1, ReverseAt
  <2>3. QED BY <1>6, <1>7, <2>2
<1>9. Chars(ToText(v)) = t
  BY <1>4, <1>5, HoldsRead
<1>10. t[1] = (IF v < 0 THEN Minus ELSE u[m])
  <2>1. t[1] = x[l]
    <3>1. 1 \in 1 .. l /\ l + 1 - 1 = l
      BY <1>8
    <3>2. QED BY <1>8, <3>1
  <2>2. QED BY <1>7, <2>1
<1>11. u[m] \in Zero .. Zero + 9
  <2>1. m \in 1 .. m
    BY <1>6
  <2>2. QED BY <1>6, <2>1
<1>12. t[1] # Space /\ (t[1] \in {Minus, Plus} <=> v < 0) /\ (t[1] = Minus <=> v < 0)
  <2>1. \A c \in Zero .. Zero + 9 : c # Space /\ c # Minus /\ c # Plus
    BY DEF Zero, Space, Minus, Plus
  <2>2. Minus # Space
    BY DEF Minus, Space
  <2>3. QED BY <1>10, <1>11, <2>1, <2>2
<1>13. Min({k \in 0 .. l : k = l \/ t[k + 1] # Space}) = 0
  <2>1. PICK S : S = {k \in 0 .. l : k = l \/ t[k + 1] # Space}
    OBVIOUS
  <2>2. S \subseteq Int /\ \A y \in S : 0 <= y
    BY <1>8, <2>1
  <2>3. 0 \in S
    BY <1>8, <1>12, <2>1
  <2>4. Min(S) = 0
    BY <2>2, <2>3, MinIs
  <2>5. QED BY <2>1, <2>4
<1>14. SubSeq(t, 0 + 1, l) = t
  <2>1. PICK f, c : c = 1 /\ f = SubSeq(t, c, l)
    OBVIOUS
  <2>2. c \in 1 .. Len(t) + 1 /\ l \in c - 1 .. Len(t)
    BY <1>8, <2>1
  <2>3. IsSeq(f) /\ Len(f) = l - c + 1 /\ \A i \in 1 .. l - c + 1 : f[i] = t[c + i - 1]
    <3>1. IsSeq(t) /\ f = SubSeq(t, c, l)
      BY <1>8, <2>1
    <3>2. c \in 1 .. Len(t) + 1 /\ l \in c - 1 .. Len(t)
      BY <2>2
    <3>3. QED BY <3>1, <3>2, SubSeqAt
  <2>4. Len(f) = Len(t) /\ \A i \in 1 .. Len(f) : f[i] = t[i]
    BY <1>8, <2>1, <2>3
  <2>5. f = t
    BY <1>8, <2>3, <2>4, SameSeq
  <2>6. QED BY <2>1, <2>5
<1>15. t # <<>>
  BY <1>8
<1>16. PICK w : w = IF v < 0 THEN Tail(t) ELSE t
  OBVIOUS
<1>17. IsSeq(w) /\ Len(w) = m /\ Spelt(w, u)
  <2>1. CASE v < 0
    <3>1. PICK T : T = {t[i] : i \in 1 .. l}
      OBVIOUS
    <3>2. t \in Seq(T)
      <4>1. \A i \in 1 .. Len(t) : t[i] \in T
        BY <1>8, <3>1
      <4>2. QED BY <1>8, <4>1, SeqIn
    <3>3. w = Tail(t)
      BY <1>16, <2>1
    <3>4. w \in Seq(T) /\ Len(w) = l - 1 /\ \A i \in 1 .. l - 1 : w[i] = t[i + 1]
      BY <1>8, <1>15, <3>2, <3>3, HeadTailProperties
    <3>5. l = m + 1
      BY <1>7, <2>1
    <3>6. IsSeq(w) /\ Len(w) = m
      BY <1>6, <3>4, <3>5, InSeq
    <3>7. ASSUME NEW i \in 1 .. m PROVE w[i] = u[m + 1 - i]
      <4>1. i \in 1 .. l - 1 /\ i + 1 \in 1 .. l /\ l + 1 - (i + 1) = m + 1 - i /\ m + 1 - i \in 1 .. m
        BY <1>6, <3>5
      <4>2. w[i] = x[m + 1 - i]
        BY <1>8, <3>4, <4>1
      <4>3. QED BY <1>7, <2>1, <4>1, <4>2
    <3>8. QED BY <1>5, <3>6, <3>7 DEF Spelt
  <2>2. CASE ~ (v < 0)
    <3>1. w = t /\ x = u /\ l = m
      BY <1>7, <1>16, <2>2
    <3>2. QED BY <1>5, <1>8, <3>1 DEF Spelt
  <2>3. QED BY <2>1, <2>2
<1>18. Min({k \in 0 .. m : k = m \/ ~ IsDigit(w[k + 1])}) = m
  <2>1. PICK S : S = {k \in 0 .. m : k = m \/ ~ IsDigit(w[k + 1])}
    OBVIOUS
  <2>2. ASSUME NEW k \in S PROVE k = m
    <3> SUFFICES ASSUME k # m PROVE FALSE
      OBVIOUS
    <3>1. k \in 0 .. m /\ ~ IsDigit(w[k + 1])
      BY <2>1
    <3>2. k + 1 \in 1 .. m /\ m + 1 - (k + 1) \in 1 .. m
      BY <1>6, <3>1
    <3>3. w[k + 1] = u[m + 1 - (k + 1)]
      BY <1>5, <1>17, <3>2 DEF Spelt
    <3>4. u[m + 1 - (k + 1)] \in Zero .. Zero + 9
      BY <1>6, <3>2
    <3>5. QED BY <3>1, <3>3, <3>4 DEF IsDigit
  <2>3. m \in S
    BY <1>6, <2>1
  <2>4. S \subseteq Int /\ \A y \in S : m <= y
    BY <1>6, <2>2
  <2>5. Min(S) = m
    BY <2>3, <2>4, MinIs
  <2>6. QED BY <2>1, <2>5
<1>19. Value(w)[m] = Wrap(a)
  <2>1. Evaluates(Value(w), w, m)
    BY <1>17, ValueIs
  <2>2. ReadsAs(u, a)
    BY <1>1, <1>2, <1>4, DigitsRead
  <2>3. QED BY <1>5, <1>6, <1>17, <2>1, <2>2 DEF ReadsAs
<1>20. Stoi(ToText(v)) = IF v < 0 THEN Wrap(-Wrap(a)) ELSE Wrap(a)
  <2>1. PICK signed : signed = (t # <<>> /\ t[1] \in {Minus, Plus})
    OBVIOUS
  <2>2. signed <=> v < 0
    BY <1>12, <1>15, <2>1
  <2>3. w = IF signed THEN Tail(t) ELSE t
    BY <1>16, <2>2
  <2>4. Stoi(ToText(v)) = IF signed /\ t[1] = Minus THEN Wrap(-(Value(w)[m])) ELSE Value(w)[m]
    <3>1. Spaces(t) = 0
      BY <1>8, <1>13 DEF Spaces
    <3>2. Stoi(ToText(v)) = NumberOf(t)
      BY <1>8, <1>9, <1>14, <3>1, StoiIs
    <3>3. SignOf(t) = signed /\ Unsigned(t) = w
      BY <2>1, <2>3 DEF SignOf, Unsigned
    <3>4. DigitsOf(w) = m
      BY <1>17, <1>18 DEF DigitsOf
    <3>5. QED BY <3>2, <3>3, <3>4 DEF NumberOf
  <2>5. QED BY <1>12, <1>19, <2>2, <2>4
<1>21. CASE v < 0
  <2>1. a = -v /\ -a = v
    BY <1>1, <1>4, <1>21
  <2>2. Wrap(v) = v
    BY WrapIs
  <2>3. CASE a = N
    <3>1. Wrap(a) = MinInt
      BY <1>1, <2>3, WrapIs
    <3>2. -MinInt = N /\ v = MinInt
      BY <1>3, <1>4, <2>1, <2>3
    <3>3. Wrap(N) = MinInt
      BY <1>1, WrapIs
    <3>4. QED BY <1>20, <1>21, <3>1, <3>2, <3>3
  <2>4. CASE a # N
    <3>1. a \in MinInt .. MaxInt
      BY <1>3, <1>4, <2>4
    <3>2. Wrap(a) = a
      BY <3>1, WrapIs
    <3>3. QED BY <1>20, <1>21, <2>1, <2>2, <3>2
  <2>5. QED BY <2>3, <2>4
<1>22. CASE ~ (v < 0)
  <2>1. a = v
    BY <1>1, <1>22
  <2>2. Wrap(v) = v
    BY WrapIs
  <2>3. QED BY <1>20, <1>22, <2>1, <2>2
<1>23. QED BY <1>21, <1>22

LEMMA HeldAnswers ==
  ASSUME NEW s, Holds(str, s)
  PROVE  QueriesAsC
<1>1. Chars(str) = s /\ Len(s) \in Nat
  BY HoldsRead, StringBounds
<1>2. ASSUME NEW t \in Texts,
             NEW matches, matches = {p \in 0 .. Len(s) : Chars(StrSubstr(str, p, Len(t))) = t}
      PROVE  /\ StrRfind(str, t) = LastOf(matches)
             /\ \A p \in Index : StrFind(str, t, p) = FirstOf({q \in matches : q >= p})
             /\ StrStartsWith(str, t) <=> StrFind(str, t, 0) = 0
             /\ StrEndsWith(str, t) <=> StrRfind(str, t) = Len(s) - Len(t) /\ Len(t) <= Len(s)
             /\ \A p \in Index :
                  FirstOf(Listed(str, t, p)) = FirstOf({q \in p .. Len(s) - 1 : q >= 0 /\ s[q + 1] \in ToSet(t)})
             /\ Listed(str, t, 0) \cup NotListed(str, t, 0) = 0 .. Len(s) - 1
             /\ StrCompare(str, t) < 0 <=> Precedes(s, t)
             /\ StrCompare(str, t) > 0 <=> Precedes(t, s)
  <2>1. Text(t)
    BY TextsAreTexts
  <2>2. \A p \in Index : p \in Int
    BY ProgramsValues
  <2>3. /\ matches = Places(s, t) /\ StrRfind(str, t) = LastOf(matches)
        /\ \A p \in Int : StrFind(str, t, p) = FirstOf({q \in matches : q >= p})
    <3>1. matches = Matches(str, s, t)
      BY <1>2 DEF Matches
    <3>2. QED BY <2>1, <3>1, FindAsC
  <2>4. StrFind(str, t, 0) = FirstOf(matches)
    <3>1. {q \in matches : q >= 0} = matches
      BY <2>3 DEF Places
    <3>2. QED BY <2>3, <3>1
  <2>5. /\ StrStartsWith(str, t) <=> FirstOf(matches) = 0
        /\ StrEndsWith(str, t) <=> LastOf(matches) = Len(s) - Len(t) /\ Len(t) <= Len(s)
    BY <2>1, <2>3, EndsAsC
  <2>6. /\ \A p \in Int : Listed(str, t, p) = {q \in p .. Len(s) - 1 : q >= 0 /\ s[q + 1] \in ToSet(t)}
        /\ Listed(str, t, 0) \cup NotListed(str, t, 0) = 0 .. Len(s) - 1
    BY <2>1, ListedAsC
  <2>7. (StrCompare(str, t) < 0 <=> Precedes(s, t)) /\ (StrCompare(str, t) > 0 <=> Precedes(t, s))
    BY <2>1, CompareAsC
  <2>8. \A p \in Index :
          FirstOf(Listed(str, t, p)) = FirstOf({q \in p .. Len(s) - 1 : q >= 0 /\ s[q + 1] \in ToSet(t)})
    BY <2>2, <2>6
  <2>9. QED BY <2>2, <2>3, <2>4, <2>5, <2>6, <2>7, <2>8
<1>3. \A v \in MinInt .. MaxInt : Stoi(ToText(v)) = v
  BY StoiAsC
<1>4. QED BY <1>1, <1>2, <1>3 DEF QueriesAsC

(* std::string does and answers what C++ says, within its capacity, after  *)
(* any calls; every int is read back from its text (lib/string).           *)
THEOREM StringsBehaveAlways == StringSpec => []StringsBehave
<1>1. StringInit => StringInv
  BY DEF StringInit, StringInv, Constructed
<1>2. StringInv /\ [StringNext]_str => StringInv'
  <2> SUFFICES ASSUME StringInv, [StringNext]_str PROVE StringInv'
    OBVIOUS
  <2>1. CASE StringNext
    BY <2>1, StringNext_Inv DEF StringInv
  <2>2. CASE UNCHANGED str
    BY <2>2 DEF StringInv, Constructed
  <2>3. QED BY <2>1, <2>2
<1>3. StringInv => StringsBehave
  <2> SUFFICES ASSUME StringInv PROVE StringsAsC /\ QueriesAsC
    BY DEF StringsBehave
  <2>1. CASE Constructed
    <3>1. PICK u : Holds(str, u)
      BY <2>1 DEF StringInv, IsString
    <3>2. QED BY <3>1, HeldAsC, HeldAnswers
  <2>2. CASE ~ Constructed
    BY <2>2 DEF StringsAsC, QueriesAsC
  <2>3. QED BY <2>1, <2>2
<1>4. QED BY <1>1, <1>2, <1>3, PTL DEF StringSpec

=============================================================================
