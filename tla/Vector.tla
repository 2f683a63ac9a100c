------------------------------- MODULE Vector -------------------------------
(***************************************************************************)
(* std::vector<T> as generic.c writes it (VECTOR_TEMPLATE): vectors on a   *)
(* heap, a pointer the program keeps into one of them, and the calls that  *)
(* move elements from block to block meanwhile.  An argument `const T &`   *)
(* may itself be an element.  A call is a function from the memory before  *)
(* it to the memory after it, loop by loop.                                *)
(***************************************************************************)
EXTENDS Integers, Sequences, FiniteSets, FiniteSetsExt, Functions

CONSTANTS
  Vec,            \* the vectors of a program
  Element,        \* the values of T, a class without a destructor; 0 among them
  Blocks,         \* addresses of malloc()
  FirstCapacity,  \* 4 in the code
  MaxSize,        \* bound: the elements of a vector
  Garbage, Null

ASSUME VectorValues == 0 \in Element /\ Garbage \notin Element /\ Null \notin Blocks
(* malloc() finds a block while every vector has one.                      *)
ASSUME EnoughBlocks ==
  Blocks \subseteq Nat /\ \A used \in [Vec -> Blocks \cup {Null}] : \E b \in Blocks : \A v \in Vec : b # used[v]
ASSUME VectorBounds == MaxSize \in Nat /\ FirstCapacity \in Nat \ {0}

VARIABLES
  mem,   \* heap: allocated blocks; vecs: constructed vectors
  held   \* a pointer to an element that C++ says is valid, or Null

vectorVars == <<mem, held>>

Empty == [data |-> Null, size |-> 0, capacity |-> 0]

VectorInit ==
  /\ mem = [heap |-> <<>>, vecs |-> [v \in {} |-> Empty]]
  /\ held = Null

----------------------------------------------------------------------------
(* An argument: a value of the program's own, or where an element lies.    *)
Own(x) == [block |-> Null, at |-> x]
ElementAt(m, v, i) == [block |-> m.vecs[v].data, at |-> i]

(* What it is now: a block that was freed, or never written, is garbage.   *)
Load(m, a) ==
  IF a.block = Null THEN a.at
  ELSE IF a.block \in DOMAIN m.heap /\ a.at \in DOMAIN m.heap[a.block]
    THEN m.heap[a.block][a.at] ELSE Garbage

Item(m, v, i) == Load(m, ElementAt(m, v, i))
SetItem(m, v, i, x) == [m EXCEPT !.heap[m.vecs[v].data][i] = x]
SetSize(m, v, n) == [m EXCEPT !.vecs[v].size = n]

Contents(m, v) == [i \in 1 .. m.vecs[v].size |-> Item(m, v, i - 1)]

With(f, x, y) == [z \in DOMAIN f \cup {x} |-> IF z = x THEN y ELSE f[z]]

Free(m, b) == [m EXCEPT !.heap = Restrict(@, DOMAIN @ \ {b})]

(* m_data[to] = m_data[from] for each <<to, from>>, one after the other.   *)
Moved(block, moves) ==
  LET after[k \in 0 .. Len(moves)] ==
        IF k = 0 THEN block
        ELSE [after[k - 1] EXCEPT ![moves[k][1]] = after[k - 1][moves[k][2]]]
  IN  after[Len(moves)]

Move(m, v, moves) == [m EXCEPT !.heap[m.vecs[v].data] = Moved(@, moves)]

(* Mutant: the old block is not given back.                                *)
Reserve_Leaks(m, v, n) ==
  IF n <= m.vecs[v].capacity THEN m
  ELSE LET grown == Min(Blocks \ DOMAIN m.heap)
       IN  [m EXCEPT
              !.heap = With(@, grown, [i \in 0 .. n - 1 |-> IF i < m.vecs[v].size THEN Item(m, v, i) ELSE Garbage]),
              !.vecs[v].data = grown, !.vecs[v].capacity = n]

Reserve(m, v, n) ==
  IF n <= m.vecs[v].capacity THEN m
  ELSE LET grown == Min(Blocks \ DOMAIN m.heap)
           old == m.vecs[v].data
       IN  Free([m EXCEPT
                   !.heap = With(@, grown, [i \in 0 .. n - 1 |-> IF i < m.vecs[v].size THEN Item(m, v, i) ELSE Garbage]),
                   !.vecs[v].data = grown, !.vecs[v].capacity = n],
                old)

Full(m, v) == m.vecs[v].size = m.vecs[v].capacity

Grow(m, v) ==
  Reserve(m, v, IF m.vecs[v].capacity = 0 THEN FirstCapacity ELSE m.vecs[v].capacity * 2)

(* Mutant: the value is read after the vector has grown.                   *)
PushBack_Late(m, v, a) ==
  LET n == m.vecs[v].size
      g == IF Full(m, v) THEN Grow(m, v) ELSE m
  IN  SetSize(SetItem(g, v, n, Load(g, a)), v, n + 1)

PushBack(m, v, a) ==
  LET n == m.vecs[v].size
  IN  IF Full(m, v)
        THEN SetSize(SetItem(Grow(m, v), v, n, Load(m, a)), v, n + 1)
        ELSE SetSize(SetItem(m, v, n, Load(m, a)), v, n + 1)

PopBack(m, v) == SetSize(m, v, m.vecs[v].size - 1)

Clear(m, v) == SetSize(m, v, 0)

(* m_data[i] = x for the new elements.                                     *)
Fill(m, v, n, x) ==
  [m EXCEPT !.heap[m.vecs[v].data] =
     [i \in DOMAIN @ |-> IF i \in m.vecs[v].size .. n - 1 THEN x ELSE @[i]]]

(* resize(n): new elements are cleared, word by word.                      *)
Resize(m, v, n) ==
  IF n > m.vecs[v].size THEN SetSize(Fill(Reserve(m, v, n), v, n, 0), v, n) ELSE SetSize(m, v, n)

ResizeWith(m, v, n, a) ==
  LET r == Reserve(m, v, n)
  IN  SetSize(IF n > m.vecs[v].size THEN Fill(r, v, n, Load(m, a)) ELSE r, v, n)

Erase(m, v, i) ==
  LET n == m.vecs[v].size
  IN  SetSize(Move(m, v, [k \in 1 .. n - 1 - i |-> <<i + k - 1, i + k>>]), v, n - 1)

Insert(m, v, i, a) ==
  LET n == m.vecs[v].size
      g == IF Full(m, v) THEN Grow(m, v) ELSE m
  IN  SetSize(SetItem(Move(g, v, [k \in 1 .. n - i |-> <<n + 1 - k, n - k>>]), v, i, Load(m, a)),
              v, n + 1)

(* operator=: the elements are copied one by one.                          *)
Assign(m, v, w) ==
  IF v = w THEN m
  ELSE LET n == m.vecs[w].size
           r == Reserve(SetSize(m, v, 0), v, n)
       IN  IF n = 0 THEN r
           ELSE SetSize([r EXCEPT !.heap[r.vecs[v].data] =
                           [i \in DOMAIN @ |-> IF i < n THEN Item(r, w, i) ELSE @[i]]], v, n)

Construct(m, v) == [m EXCEPT !.vecs = With(@, v, Empty)]

Destroy(m, v) ==
  LET f == Free(m, m.vecs[v].data) IN [f EXCEPT !.vecs = Restrict(@, DOMAIN @ \ {v})]

----------------------------------------------------------------------------
(* The program.                                                            *)
Live == DOMAIN mem.vecs
Size(v) == mem.vecs[v].size

Arguments ==
  {Own(x) : x \in Element}
    \cup UNION {{ElementAt(mem, v, i) : i \in 0 .. Size(v) - 1} : v \in Live}

(* C++: the pointers to elements of v from the i-th on are valid no more.  *)
Drop(v, i) == held' = IF held # Null /\ held.vec = v /\ held.index >= i THEN Null ELSE held

(* Those a call leaves behind when it must allocate, or from i on.         *)
DropIfMoved(v, n, i) == Drop(v, IF n > mem.vecs[v].capacity THEN 0 ELSE i)

Hold(m, v, i) == held' = [vec |-> v, index |-> i, place |-> ElementAt(m, v, i)]

ConstructVector == \E v \in Vec \ Live : mem' = Construct(mem, v) /\ UNCHANGED held

DestroyVector == \E v \in Live : mem' = Destroy(mem, v) /\ Drop(v, 0)

PushBackCall ==
  \E v \in Live, a \in Arguments :
    /\ Size(v) < MaxSize
    /\ mem' = PushBack(mem, v, a)
    /\ DropIfMoved(v, Size(v) + 1, Size(v))

PopBackCall == \E v \in Live : Size(v) > 0 /\ mem' = PopBack(mem, v) /\ Drop(v, Size(v) - 1)

ClearCall == \E v \in Live : mem' = Clear(mem, v) /\ Drop(v, 0)

ReserveCall ==
  \E v \in Live, n \in 0 .. MaxSize : mem' = Reserve(mem, v, n) /\ DropIfMoved(v, n, Size(v))

ResizeCall ==
  \E v \in Live, n \in 0 .. MaxSize : mem' = Resize(mem, v, n) /\ DropIfMoved(v, n, n)

ResizeWithCall ==
  \E v \in Live, n \in 0 .. MaxSize, a \in Arguments :
    mem' = ResizeWith(mem, v, n, a) /\ DropIfMoved(v, n, n)

EraseCall ==
  \E v \in Live, i \in 0 .. MaxSize - 1 :
    /\ i < Size(v)
    /\ mem' = Erase(mem, v, i)
    /\ IF i < Size(v) - 1 THEN Hold(mem', v, i) ELSE Drop(v, i)

(* The program keeps what insert() returns.                                *)
InsertCall ==
  \E v \in Live, i \in 0 .. MaxSize - 1, a \in Arguments :
    /\ i <= Size(v) /\ Size(v) < MaxSize
    /\ mem' = Insert(mem, v, i, a)
    /\ Hold(mem', v, i)

AssignCall == \E v, w \in Live : mem' = Assign(mem, v, w) /\ IF v = w THEN UNCHANGED held ELSE Drop(v, 0)

HoldElement ==
  \E v \in Live, i \in 0 .. MaxSize - 1 : i < Size(v) /\ Hold(mem, v, i) /\ UNCHANGED mem

(* *p = x; or v[i] = x;, which is the same.                                *)
StoreThrough ==
  /\ held # Null
  /\ \E x \in Element : mem' = [mem EXCEPT !.heap[held.place.block][held.place.at] = x]
  /\ UNCHANGED held

VectorNext ==
  \/ ConstructVector \/ DestroyVector
  \/ PushBackCall \/ PopBackCall \/ ClearCall \/ ReserveCall \/ ResizeCall \/ ResizeWithCall
  \/ EraseCall \/ InsertCall \/ AssignCall
  \/ HoldElement \/ StoreThrough

VectorSpec == VectorInit /\ [][VectorNext]_vectorVars

----------------------------------------------------------------------------
(* v holds the sequence s, and the other vectors what they held.           *)
Becomes(m, v, s) ==
  /\ Contents(m, v) = s
  /\ \A w \in Live \ {v} : Contents(m, w) = Contents(mem, w)

First(s, n) == SubSeq(s, 1, n)
From(s, i) == SubSeq(s, i, Len(s))
Times(n, x) == [k \in 1 .. n |-> x]
Resized(s, n, x) == IF n <= Len(s) THEN First(s, n) ELSE s \o Times(n - Len(s), x)

(* Every call of every vector leaves what C++ says, to the vector and to   *)
(* the others, also when the value it is given is one of the elements that *)
(* the call moves to another place or to another block.                    *)
VectorsAsC ==
  \A v \in Live :
    LET s == Contents(mem, v) IN
    /\ \A a \in Arguments :
         LET x == Load(mem, a) IN
         /\ Becomes(PushBack(mem, v, a), v, Append(s, x))
         /\ \A i \in 0 .. Len(s) : Becomes(Insert(mem, v, i, a), v, First(s, i) \o <<x>> \o From(s, i + 1))
         /\ \A n \in 0 .. MaxSize + 1 : Becomes(ResizeWith(mem, v, n, a), v, Resized(s, n, x))
    /\ \A n \in 0 .. MaxSize + 1 :
         Becomes(Resize(mem, v, n), v, Resized(s, n, 0)) /\ Becomes(Reserve(mem, v, n), v, s)
    /\ \A i \in 0 .. Len(s) - 1 : Becomes(Erase(mem, v, i), v, First(s, i) \o From(s, i + 2))
    /\ \A w \in Live : Becomes(Assign(mem, v, w), v, Contents(mem, w))

(* Every block belongs to one vector, is as long as it believes, and is    *)
(* given back: nothing leaks, nothing is freed twice.  And as long as C++  *)
(* says that a pointer to an element stays valid, it points to it.         *)
StorageOwned ==
  /\ DOMAIN mem.heap = {mem.vecs[v].data : v \in Live} \ {Null}
  /\ \A v \in Live :
       /\ Size(v) <= mem.vecs[v].capacity
       /\ mem.vecs[v].data # Null =>
            /\ DOMAIN mem.heap[mem.vecs[v].data] = 0 .. mem.vecs[v].capacity - 1
            /\ \A w \in Live \ {v} : mem.vecs[w].data # mem.vecs[v].data
  /\ held # Null =>
       /\ held.vec \in Live /\ held.index < Size(held.vec)
       /\ held.place = ElementAt(mem, held.vec, held.index)

(* Vectors do what C++ says they do, and keep their storage: each owns its *)
(* block, gives it back, and moves its elements only when it may.          *)
VectorsBehave == VectorsAsC /\ StorageOwned
=============================================================================
