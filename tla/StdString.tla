----------------------------- MODULE StdString -----------------------------
(***************************************************************************)
(* std::string (lib/string, that stdstring.c embeds): characters in place, *)
(* a size and a terminator, and what each method leaves in them.  A        *)
(* `const char *` argument is a sequence of characters; a `const string &` *)
(* is an object like this one, and may be this very one.                   *)
(***************************************************************************)
EXTENDS Integers, Sequences, SequencesExt

CONSTANTS
  Capacity,   \* V32_STRING_CAPACITY, 63 in the code
  Char,       \* bound: the characters (their codes) of the texts of a program
  Bits,       \* the width of int, 32 in the code
  Unset     \* a word of m_data that nobody has written

ASSUME StringBounds == Capacity \in Nat \ {0} /\ Bits \in Nat \ {0}
(* There is room for each int and its sign.  That powers are products is    *)
(* said for the sake of the proofs.                                        *)
ASSUME IntsFit == 2 ^ (Bits - 1) < 10 ^ (Capacity - 1)
ASSUME Powers ==
  /\ 2 ^ (Bits - 1) \in Nat \ {0} /\ 2 ^ Bits = 2 * 2 ^ (Bits - 1)
  /\ 10 ^ 0 = 1 /\ \A k \in 0 .. Capacity - 1 : 10 ^ k \in Nat /\ 10 ^ (k + 1) = 10 * 10 ^ k
ASSUME StringChars == Char \subseteq 1 .. 127 /\ Unset \notin 0 .. 127

VARIABLE str   \* the string a program works on: m_data and m_size

Position == 0 .. Capacity

(* The words of the object before its constructor.                         *)
Unwritten == [data |-> [i \in Position |-> Unset], size |-> 0]

StrClear(s) == [s EXCEPT !.size = 0, !.data[0] = 0]

NewString == StrClear(Unwritten)

Constructed == str # Unwritten

----------------------------------------------------------------------------
(* What is read of a string: by its size, and by its terminator.           *)
Chars(s) == [k \in 1 .. s.size |-> s.data[k - 1]]

Terminated(s) == [k \in 1 .. Min({i \in Position : s.data[i] = 0}) |-> s.data[k - 1]]

(* Every append() is this: characters until the capacity, then the 0.      *)
Put(s, t) ==
  LET n == Min({Len(t), Capacity - s.size}) IN
  [data |-> [i \in Position |->
               IF i = s.size + n THEN 0 ELSE IF i \in s.size .. s.size + n THEN t[i - s.size + 1] ELSE s.data[i]],
   size |-> s.size + n]

Prefix(t, n) == SubSeq(t, 1, Min({n, Len(t)}))
Run(n, c) == [k \in 1 .. Max({n, 0}) |-> c]

StrAppendPart(s, o, pos, count) ==
  LET p == Max({pos, 0})
      available == o.size - p
      n == IF count < 0 \/ count > available THEN available ELSE count
  IN  Put(s, [k \in 1 .. Max({n, 0}) |-> o.data[p + k - 1]])

StrPushBack(s, c) == IF s.size >= Capacity THEN s ELSE Put(s, <<c>>)

StrPopBack(s) ==
  LET n == Max({s.size - 1, 0}) IN [s EXCEPT !.size = n, !.data[n] = 0]

StrResize(s, count, c) ==
  LET n == Max({0, Min({count, Capacity})}) IN
  [data |-> [i \in Position |-> IF i = n THEN 0 ELSE IF i \in s.size .. n THEN c ELSE s.data[i]],
   size |-> n]

StrAssign(s, o) == IF o = s THEN s ELSE Put(StrClear(s), Chars(o))

(* Mutant: the terminator stays where it was.                              *)
StrErase_NoEnd(s, pos, count) ==
  LET p == Max({pos, 0})
      n == IF count < 0 \/ count > s.size - p THEN s.size - p ELSE count
  IN  IF p >= s.size THEN s
      ELSE [data |-> [i \in Position |-> IF i \in p .. s.size - n - 1 THEN s.data[i + n] ELSE s.data[i]],
            size |-> s.size - n]

(* The tail comes down, its terminator too.                                *)
StrErase(s, pos, count) ==
  LET p == Max({pos, 0})
      n == IF count < 0 \/ count > s.size - p THEN s.size - p ELSE count
  IN  IF p >= s.size THEN s
      ELSE [data |-> [i \in Position |-> IF i \in p .. s.size - n THEN s.data[i + n] ELSE s.data[i]],
            size |-> s.size - n]

(* The tail goes up, as much of it as still fits.                          *)
StrInsert(s, pos, t) ==
  LET p == Min({Max({pos, 0}), s.size})
      n == Min({Len(t), Capacity - p})
      size == Min({s.size + n, Capacity})
  IN  [data |-> [i \in Position |->
                   CASE i = size -> 0
                     [] i \in p .. p + n - 1 -> t[i - p + 1]
                     [] i \in p + n .. size - 1 -> s.data[i - n]
                     [] OTHER -> s.data[i]],
       size |-> size]

(* By value: a copy is made of a string that may be the same one.          *)
StrInsertString(s, pos, o) == StrInsert(s, pos, Terminated(o))
StrInsertRun(s, pos, n, c) == StrInsert(s, pos, Terminated(Put(NewString, Run(n, c))))

StrReplace(s, pos, count, t) == StrInsert(StrErase(s, pos, count), pos, t)
StrReplaceString(s, pos, count, o) == StrReplace(s, pos, count, Terminated(o))

StrSubstr(s, pos, count) == StrAppendPart(NewString, s, pos, count)

----------------------------------------------------------------------------
(* Searching: the first, or the last, of the positions that qualify.       *)
FirstOf(P) == IF P = {} THEN -1 ELSE Min(P)
LastOf(P) == IF P = {} THEN -1 ELSE Max(P)

(* Mutant: the last place where the text could lie is not looked at.       *)
FoundAt_Short(s, t, pos) ==
  {i \in Max({pos, 0}) .. s.size - Len(t) - 1 : \A k \in 1 .. Len(t) : s.data[i + k - 1] = t[k]}

FoundAt(s, t, pos) ==
  {i \in Max({pos, 0}) .. s.size - Len(t) : \A k \in 1 .. Len(t) : s.data[i + k - 1] = t[k]}

(* Where the character is, or is not, one of the set.                      *)
Listed(s, set, pos) == {i \in Max({pos, 0}) .. s.size - 1 : \E k \in 1 .. Len(set) : s.data[i] = set[k]}
NotListed(s, set, pos) == (Max({pos, 0}) .. s.size - 1) \ Listed(s, set, pos)

StrFind(s, t, pos) == FirstOf(FoundAt(s, t, pos))
StrRfind(s, t) == LastOf(FoundAt(s, t, 0))

StrStartsWith(s, t) == \A k \in 1 .. Len(t) : k - 1 < s.size /\ s.data[k - 1] = t[k]
StrEndsWith(s, t) == Len(t) <= s.size /\ \A k \in 1 .. Len(t) : s.data[s.size - Len(t) + k - 1] = t[k]

(* The difference at the first place where the two differ, or one ends.    *)
StrCompare(s, t) ==
  LET Theirs(i) == IF i < Len(t) THEN t[i + 1] ELSE 0
      i == Min({j \in 0 .. s.size : j = s.size \/ Theirs(j) = 0 \/ s.data[j] # Theirs(j)})
  IN  (IF i < s.size THEN s.data[i] ELSE 0) - Theirs(i)

----------------------------------------------------------------------------
(* Numbers.                                                                *)
MinInt == -(2 ^ (Bits - 1))
MaxInt == 2 ^ (Bits - 1) - 1
Wrap(x) == ((x - MinInt) % (2 ^ Bits)) + MinInt

Zero == 48
Minus == 45
Plus == 43
Space == 32

(* C's / and %: towards zero.                                              *)
Tenth(v) == IF v < 0 THEN -((-v) \div 10) ELSE v \div 10
Units(v) == v - 10 * Tenth(v)

(* Mutant: the number is made positive, that has no place for the least.   *)
ToText_Positive(value) ==
  LET digits[v \in MinInt .. MaxInt] ==
        <<Zero + Units(v)>> \o (IF Tenth(v) = 0 THEN <<>> ELSE digits[Tenth(v)])
      made == Put(NewString, digits[IF value < 0 THEN Wrap(-value) ELSE value])
      signed == IF value < 0 THEN StrPushBack(made, Minus) ELSE made
  IN  Put(NewString, Reverse(Chars(signed)))

(* The digits of a number that is not positive, the last one first.        *)
Digits[v \in MinInt .. 0] ==
  <<Zero - Units(v)>> \o (IF Tenth(v) = 0 THEN <<>> ELSE Digits[Tenth(v)])

ToText(value) ==
  LET made == Put(NewString, Digits[IF value < 0 THEN value ELSE -value])
      signed == IF value < 0 THEN StrPushBack(made, Minus) ELSE made
  IN  Put(NewString, Reverse(Chars(signed)))

IsDigit(c) == c \in Zero .. Zero + 9

(* What the first k of the digits w make.                                  *)
Value(w) ==
  LET value[k \in 0 .. Len(w)] == IF k = 0 THEN 0 ELSE Wrap(value[k - 1] * 10 + (w[k] - Zero))
  IN  value

(* Spaces, a sign, then digits until something else.                       *)
Stoi(s) ==
  LET t == Chars(s)
      spaces == Min({k \in 0 .. Len(t) : k = Len(t) \/ t[k + 1] # Space})
      u == SubSeq(t, spaces + 1, Len(t))
      signed == u # <<>> /\ u[1] \in {Minus, Plus}
      w == IF signed THEN Tail(u) ELSE u
      n == Min({k \in 0 .. Len(w) : k = Len(w) \/ ~ IsDigit(w[k + 1])})
      value == Value(w)[n]
  IN  IF signed /\ u[1] = Minus THEN Wrap(-value) ELSE value

----------------------------------------------------------------------------
(* The program: texts a little longer than a string can be, and strings,   *)
(* the one it works on among them.                                         *)
Texts == BoundedSeq(Char, Capacity + 1)
Made == {Put(NewString, t) : t \in BoundedSeq(Char, Capacity)}
Strings == Made \cup {str}
Index == -1 .. Capacity + 1

ConstructString ==
  \/ str' = NewString
  \/ \E t \in Texts, n \in Index : str' \in {Put(NewString, t), Put(NewString, Prefix(t, n))}
  \/ \E c \in Char, n \in Index : str' = Put(NewString, Run(n, c))
  \/ \E o \in Made, pos, count \in Index : str' = StrAppendPart(NewString, o, pos, count)

ClearString == str' = StrClear(str)

ResizeString == \E count \in Index, c \in Char : str' = StrResize(str, count, c)

PushOrPop == str' = StrPopBack(str) \/ \E c \in Char : str' = StrPushBack(str, c)

AppendChars ==
  \/ \E t \in Texts, n \in Index : str' \in {Put(str, t), Put(str, Prefix(t, n))}
  \/ \E o \in Strings : str' = Put(str, Chars(o))
  \/ \E o \in Strings, pos, count \in Index : str' = StrAppendPart(str, o, pos, count)
  \/ \E n \in Index, c \in Char : str' = Put(str, Run(n, c))

AssignString ==
  \/ \E t \in Texts : str' = Put(StrClear(str), t)
  \/ \E o \in Strings : str' \in {o, StrAssign(str, o)}
  \/ \E n \in Index, c \in Char : str' \in {Put(StrClear(str), Run(n, c)), StrPushBack(StrClear(str), c)}

EraseInString == \E pos, count \in Index : str' = StrErase(str, pos, count)

InsertInString ==
  \/ \E pos \in Index, t \in Texts : str' = StrInsert(str, pos, t)
  \/ \E pos \in Index, o \in Strings : str' = StrInsertString(str, pos, o)
  \/ \E pos, n \in Index, c \in Char : str' = StrInsertRun(str, pos, n, c)

ReplaceInString ==
  \/ \E pos, count \in Index, t \in Texts : str' = StrReplace(str, pos, count, t)
  \/ \E pos, count \in Index, o \in Strings : str' = StrReplaceString(str, pos, count, o)

StringInit == str = Unwritten

StringNext ==
  \/ ConstructString
  \/ /\ Constructed
     /\ \/ ClearString \/ ResizeString \/ PushOrPop \/ AppendChars
        \/ AssignString \/ EraseInString \/ InsertInString \/ ReplaceInString

StringSpec == StringInit /\ [][StringNext]_str

----------------------------------------------------------------------------
(* r is a string that says u, as much of it as there is room for.          *)
Says(r, u) ==
  /\ r.size <= Capacity /\ r.data[r.size] = 0
  /\ Chars(r) = Prefix(u, Capacity)

(* Whatever was done to a string, and whatever its words still hold of it, *)
(* each method leaves what C++ says, cut at the capacity (lib/string: "a   *)
(* string that would grow past the capacity is TRUNCATED, silently"), and  *)
(* terminated; also when its argument is the string itself.                *)
StringsAsC == Constructed =>
  LET s == Chars(str)
      n == Len(s)
      Span(p, k) == IF k < 0 THEN n - p ELSE Min({k, n - p})
      Without(p, k) == Prefix(s, p) \o SubSeq(s, p + Span(p, k) + 1, n)
      With(u, p, t) == Prefix(u, p) \o t \o SubSeq(u, p + 1, Len(u))
  IN  /\ Says(str, s) /\ Terminated(str) = s
      /\ \A c \in Char : Says(StrPushBack(str, c), Append(s, c))
      /\ n > 0 => Says(StrPopBack(str), Front(s))
      /\ \A k \in 0 .. Capacity + 1, c \in Char :
           Says(StrResize(str, k, c), IF k <= n THEN Prefix(s, k) ELSE s \o Run(k - n, c))
      /\ \A t \in Texts : Says(Put(str, t), s \o t) /\ Says(Put(StrClear(str), t), t)
      /\ \A o \in Strings :
           Says(Put(str, Chars(o)), s \o Chars(o)) /\ Says(StrAssign(str, o), Chars(o))
      /\ \A p \in 0 .. n :
           /\ \A t \in Texts : Says(StrInsert(str, p, t), With(s, p, t))
           /\ \A o \in Strings : Says(StrInsertString(str, p, o), With(s, p, Chars(o)))
           /\ \A k \in Index :
                /\ Says(StrSubstr(str, p, k), SubSeq(s, p + 1, p + Span(p, k)))
                /\ Says(StrAppendPart(str, str, p, k), s \o SubSeq(s, p + 1, p + Span(p, k)))
                /\ Says(StrErase(str, p, k), Without(p, k))
                /\ \A o \in Strings :
                     Says(StrReplaceString(str, p, k, o), With(Without(p, k), p, Chars(o)))

(* Is u before t, character by character?                                  *)
Precedes(u, t) ==
  \E k \in 0 .. Len(u) :
    /\ k < Len(t) /\ Prefix(u, k) = Prefix(t, k)
    /\ k < Len(u) => u[k + 1] < t[k + 1]

(* Questions are answered from the string's characters alone, never from   *)
(* what its words held before: find() and rfind() agree with what substr() *)
(* cuts out, the two kinds of find_..._of() share the positions out, and   *)
(* compare() is the order of C++.  Every int survives to_string() and      *)
(* stoi(), the least one too.                                              *)
QueriesAsC == Constructed =>
  LET s == Chars(str)
      Cut(p, t) == Chars(StrSubstr(str, p, Len(t)))
  IN  /\ \A t \in Texts :
           LET matches == {p \in 0 .. Len(s) : Cut(p, t) = t} IN
           /\ StrRfind(str, t) = LastOf(matches)
           /\ \A p \in Index : StrFind(str, t, p) = FirstOf({q \in matches : q >= p})
           /\ StrStartsWith(str, t) <=> StrFind(str, t, 0) = 0
           /\ StrEndsWith(str, t) <=> StrRfind(str, t) = Len(s) - Len(t) /\ Len(t) <= Len(s)
           /\ \A p \in Index :
                FirstOf(Listed(str, t, p)) = FirstOf({q \in p .. Len(s) - 1 : q >= 0 /\ s[q + 1] \in ToSet(t)})
           /\ Listed(str, t, 0) \cup NotListed(str, t, 0) = 0 .. Len(s) - 1
           /\ StrCompare(str, t) < 0 <=> Precedes(s, t)
           /\ StrCompare(str, t) > 0 <=> Precedes(t, s)
      /\ str = NewString => \A v \in MinInt .. MaxInt : Stoi(ToText(v)) = v

(* Strings do and answer what C++ says, within their capacity.             *)
StringsBehave == StringsAsC /\ QueriesAsC
=============================================================================
