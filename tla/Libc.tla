-------------------------------- MODULE Libc --------------------------------
(***************************************************************************)
(* Text in the C library (libc/v32libc.c): what printf writes, what sscanf *)
(* reads, the searches and copies of strings, a date, and the line that    *)
(* fgets lets the player edit on the screen.                               *)
(*                                                                         *)
(* A string is the sequence of its characters' codes, without the 0; an    *)
(* array is the sequence of all of its words.                              *)
(***************************************************************************)
EXTENDS Integers, Sequences, SequencesExt

CONSTANTS
  Bits,   \* the width of a word, 32 in the code
  Rows,   \* V32TERM_ROWS
  Cols    \* V32TERM_COLS

ASSUME LibcWidth == Bits \in Nat \ {0}
ASSUME ScreenSize == Rows \in Nat \ {0} /\ Cols \in Nat \ {0}

Word(n) == ((n + 2^(Bits - 1)) % 2^Bits) - 2^(Bits - 1)

Space == 32
Star == 42
Plus == 43
Minus == 45
Dot == 46
Zero == 48
Digits == 48 .. 57
Spaces == (9 .. 13) \cup {Space}
Backspace == 8
Newline == 10
CarriageReturn == 13
Escape == 27

Fill(n, c) == [k \in 1 .. (IF n > 0 THEN n ELSE 0) |-> c]
Least(m, n) == IF m < n THEN m ELSE n
CharAt(s, i) == IF i \in DOMAIN s THEN s[i] ELSE 0
From(s, i) == SubSeq(s, i, Len(s))

(* The first position from i on whose character is not one of these.       *)
SkipOver(s, i, chars) ==
  CHOOSE j \in i .. Len(s) + 1 : CharAt(s, j) \notin chars /\ \A k \in i .. j - 1 : s[k] \in chars

(* The number that digits of a base spell, in the width of a word.         *)
DigitOf(c) == IF c \in Digits THEN c - 48 ELSE IF c \in 97 .. 102 THEN c - 87 ELSE IF c \in 65 .. 70 THEN c - 55 ELSE -1
Spelled(digits, base) == FoldLeft(LAMBDA n, c : Word(n * base + DigitOf(c)), 0, digits)

-----------------------------------------------------------------------------
(* printf.  A value is divided as it is, negative or not: the least value  *)
(* has no positive counterpart.                                            *)
Quotient(n, base) == IF n < 0 THEN -((-n) \div base) ELSE n \div base
Remainder(n, base) == n - base * Quotient(n, base)
DigitChar(d, upper) == IF d < 10 THEN 48 + d ELSE (IF upper THEN 55 ELSE 87) + d

v32_fmt_digits(value, base, upper) ==
  LET digits[v \in Int] ==
        IF v = 0 THEN <<>>
        ELSE LET d == Remainder(v, base)
             IN  Append(digits[Quotient(v, base)], DigitChar(IF d < 0 THEN -d ELSE d, upper))
  IN  IF value = 0 THEN <<Zero>> ELSE digits[value]

v32_fmt_pad(text, width, left, zero) ==
  LET pad == width - Len(text)
  IN  IF left THEN text \o Fill(pad, Space) ELSE Fill(pad, IF zero THEN Zero ELSE Space) \o text

(* What stands behind a %, of which i is the next position and arg the     *)
(* next argument: a width or a precision that is * takes one.              *)
Number(fmt, i, args, arg, default) ==
  LET j == SkipOver(fmt, i, Digits)
  IN  IF CharAt(fmt, i) = Star THEN [value |-> args[arg], next |-> i + 1, arg |-> arg + 1]
      ELSE [value |-> IF j = i THEN default ELSE Spelled(SubSeq(fmt, i, j - 1), 10), next |-> j, arg |-> arg]

Directive(fmt, i, args, arg) ==
  LET f == SkipOver(fmt, i, {Minus, Zero, Plus, Space, 35})
      flags == {fmt[k] : k \in i .. f - 1}
      width == Number(fmt, f, args, arg, 0)
      dot == CharAt(fmt, width.next) = Dot
      precision == IF dot THEN Number(fmt, width.next + 1, args, width.arg, 0) ELSE [width EXCEPT !.value = -1]
      c == SkipOver(fmt, precision.next, {108, 104})
  IN  [left |-> Minus \in flags \/ width.value < 0, zero |-> Zero \in flags,
       width |-> IF width.value < 0 THEN -width.value ELSE width.value,
       precision |-> precision.value, conv |-> CharAt(fmt, c), next |-> c + 1, arg |-> precision.arg]

(* Mutant: zeros on the outside of the sign.                               *)
Decimal_SignInside(d, value) ==
  v32_fmt_pad((IF value < 0 THEN <<Minus>> ELSE <<>>) \o v32_fmt_digits(value, 10, FALSE), d.width, d.left, d.zero)

(* The sign goes ahead of the zeros.                                       *)
Decimal(d, value) ==
  LET digits == v32_fmt_digits(value, 10, FALSE)
      sign == IF value < 0 THEN <<Minus>> ELSE <<>>
  IN  IF value < 0 /\ d.zero /\ ~d.left /\ d.width > Len(digits) + 1
      THEN sign \o v32_fmt_pad(digits, d.width - 1, FALSE, TRUE)
      ELSE v32_fmt_pad(sign \o digits, d.width, d.left, d.zero)

(* There is no unsigned type: of a negative value the bits but the sign.   *)
Unsigned(d, value) ==
  v32_fmt_pad(v32_fmt_digits(IF value < 0 THEN value % 2^(Bits - 1) ELSE value,
                             IF d.conv = 111 THEN 8 ELSE 16, d.conv = 88),
              d.width, d.left, d.zero)

Converted(d, arg) ==
  CASE d.conv \in {100, 105, 117} -> Decimal(d, arg)
    [] d.conv \in {120, 88, 111} -> Unsigned(d, arg)
    [] d.conv = 99 -> v32_fmt_pad(<<arg>>, d.width, d.left, FALSE)
    [] d.conv = 115 ->
         v32_fmt_pad(IF d.precision >= 0 THEN SubSeq(arg, 1, Least(d.precision, Len(arg))) ELSE arg,
                     d.width, d.left, FALSE)
TakesArgument == {100, 105, 117, 120, 88, 111, 99, 115}

vsprintf(fmt, args) ==
  LET print[i \in 1 .. Len(fmt) + 1, arg \in 1 .. Len(args) + 1] ==
        IF i > Len(fmt) THEN <<>>
        ELSE IF fmt[i] # 37 THEN <<fmt[i]>> \o print[i + 1, arg]
        ELSE LET d == Directive(fmt, i + 1, args, arg)
             IN  IF d.conv = 0 THEN <<>>
                 ELSE IF d.conv \in TakesArgument
                 THEN Converted(d, args[d.arg]) \o print[d.next, d.arg + 1]
                 ELSE <<d.conv>> \o print[d.next, d.arg]
  IN  print[1, 1]

-----------------------------------------------------------------------------
(* sscanf: the values it stores, in order; it returns how many.            *)
v32_scan_digit(c, base) == IF DigitOf(c) \in 0 .. base - 1 THEN DigitOf(c) ELSE -1
DigitsOf(base) == {c \in 48 .. 102 : v32_scan_digit(c, base) >= 0}

Cut(s, i, end, width) == IF width = 0 THEN end ELSE Least(end, i + width)

ScanNumber(s, i, base, width) ==
  LET start == SkipOver(s, i, Spaces)
      signed == CharAt(s, start) \in {Minus, Plus}
      first == IF signed THEN start + 1 ELSE start
      end == Cut(s, first, SkipOver(s, first, DigitsOf(base)), width)
      value == Spelled(SubSeq(s, first, end - 1), base)
  IN  [ok |-> end > first, next |-> end,
       value |-> IF CharAt(s, start) = Minus THEN Word(-value) ELSE value]

NotSpaces == (1 .. 127) \ Spaces
ScanText(s, i, width) ==
  LET start == SkipOver(s, i, Spaces)
      end == Cut(s, start, SkipOver(s, start, NotSpaces), width)
  IN  [ok |-> start <= Len(s), next |-> end, value |-> SubSeq(s, start, end - 1)]

ScanOne(conv, s, i, width) ==
  CASE conv = 99 -> [ok |-> i <= Len(s), next |-> i + 1, value |-> CharAt(s, i)]
    [] conv = 115 -> ScanText(s, i, width)
    [] conv \in {100, 117, 105} -> ScanNumber(s, i, 10, width)
    [] conv = 120 -> ScanNumber(s, i, 16, width)
    [] OTHER -> [ok |-> FALSE, next |-> i, value |-> 0]

sscanf(s, fmt) ==
  LET scan[i \in 1 .. Len(s) + 1, j \in 1 .. Len(fmt) + 1] ==
        IF j > Len(fmt) THEN <<>>
        ELSE IF fmt[j] \in Spaces THEN scan[SkipOver(s, i, Spaces), j + 1]
        ELSE IF fmt[j] # 37 THEN IF CharAt(s, i) = fmt[j] THEN scan[i + 1, j + 1] ELSE <<>>
        ELSE LET w == SkipOver(fmt, j + 1, Digits)
                 c == SkipOver(fmt, w, {108, 104})
                 got == ScanOne(CharAt(fmt, c), s, i, Spelled(SubSeq(fmt, j + 1, w - 1), 10))
             IN  IF got.ok THEN <<got.value>> \o scan[got.next, c + 1] ELSE <<>>
  IN  scan[1, 1]

atoi(s) ==
  LET start == SkipOver(s, 1, {Space, 9})
      first == IF CharAt(s, start) \in {Minus, Plus} THEN start + 1 ELSE start
      value == Spelled(SubSeq(s, first, SkipOver(s, first, Digits) - 1), 10)
  IN  IF CharAt(s, start) = Minus THEN Word(-value) ELSE value

-----------------------------------------------------------------------------
(* Dates: the year and the days gone by in it.  localtime counts months    *)
(* from 0 and days from 1, v32::Date both from 1.                          *)
LeapYear(year) == year % 4 = 0 /\ year % 100 # 0
MonthDays(year) == <<31, IF LeapYear(year) THEN 29 ELSE 28, 31, 30, 31, 30, 31, 31, 30, 31, 30, 31>>

localtime(year, yday) ==
  LET month[m \in 0 .. 11] == [day \in Int |->
        IF m < 11 /\ day >= MonthDays(year)[m + 1] THEN month[m + 1][day - MonthDays(year)[m + 1]]
        ELSE [mon |-> m, mday |-> day + 1]]
  IN  month[0][yday]

(* Mutant: a month's last day is the next month's first.                   *)
set_from_Short(year, days) ==
  LET month[m \in 0 .. 11] == [day \in Int |->
        IF m < 11 /\ day + 1 >= MonthDays(year)[m + 1] THEN month[m + 1][day - MonthDays(year)[m + 1]]
        ELSE [month |-> m + 1, day |-> day + 1]]
  IN  month[0][days]

set_from(year, days) ==
  LET month[m \in 0 .. 11] == [day \in Int |->
        IF m = 11 \/ day < MonthDays(year)[m + 1] THEN [month |-> m + 1, day |-> day + 1]
        ELSE month[m + 1][day - MonthDays(year)[m + 1]]]
  IN  month[0][days]

-----------------------------------------------------------------------------
(* A program prints and reads back, asks for a date, or reads a line.      *)
VARIABLES
  said,   \* what vsprintf wrote for what, <<>> before
  date,   \* what day was asked for
  line    \* an fgets from stdin: its size, buf, the cells of the screen (a
          \* prompt ahead of the line), the cursor's row y and column x,
          \* whether it has returned; and, for the property only, whether a
          \* backspace was stuck in column 0

libcVars == <<said, date, line>>

CONSTANTS
  Formats,  \* bound: sequences of what a format has: characters, and
            \* directives [flags, width, precision, modifier, conv, arg],
            \* a width or precision being a number, absent, or from the arguments
  Years,    \* bound: the years asked for
  Prompts,  \* bound: what is on the cursor's row before the line is read
  Keys,     \* bound: what the player types
  Sizes,    \* bound: of the array given to fgets
  Absent    \* no width, no precision

(* A key that moves the cursor otherwise (a tab, say) or whose code a cell *)
(* does not hold (an arrow) is none of a line's.                           *)
ASSUME LineBounds ==
  /\ Keys \subseteq {Backspace, Newline, CarriageReturn, Escape} \cup Space .. 255
  /\ Prompts \subseteq {prompt \in Seq(Nat) : Len(prompt) <= Cols}
  /\ Sizes \subseteq Int

(* Neither loop knows that a century that 400 divides is a leap year: the  *)
(* last day of 2000 is to both a December 32.                              *)
CalendarLeap(year) == year % 4 = 0 /\ (year % 100 # 0 \/ year % 400 = 0)
ASSUME YearsOfDates == Years \subseteq {year \in Nat : year % 400 # 0}

NoDate == [year |-> 0, yday |-> 0]
Cells == 0 .. Rows * Cols - 1
At(l) == l.y * Cols + l.x

NewLine(size, prompt, y) ==
  [size |-> size, prompt |-> prompt, buf |-> <<>>, y |-> y, x |-> Len(prompt), done |-> size <= 1, stuck |-> FALSE,
   want |-> [k \in Cells |-> IF k - y * Cols \in 0 .. Len(prompt) - 1 THEN prompt[k - y * Cols + 1] ELSE Space]]

LibcInit ==
  /\ said = <<>>
  /\ date = NoDate
  /\ \E size \in Sizes, prompt \in Prompts, y \in 0 .. Rows - 1 : line = NewLine(size, prompt, y)

(* v32term_scroll(); the row above the cursor's is on the screen, so that  *)
(* once is enough.                                                         *)
IntoView(l) ==
  IF l.y < Rows THEN l
  ELSE [l EXCEPT !.y = @ - 1, !.want = [k \in Cells |-> IF k + Cols \in Cells THEN l.want[k + Cols] ELSE Space]]

NextRow(l) == IntoView([l EXCEPT !.y = @ + 1, !.x = 0])

(* v32term_putc(): the row wraps ahead of the character that has no room,  *)
(* and a backspace stays in column 0.                                      *)
Teletype(l, c) ==
  CASE c = Newline -> NextRow(l)
    [] c = CarriageReturn -> [l EXCEPT !.x = 0]
    [] c = Backspace -> [l EXCEPT !.x = IF @ > 0 THEN @ - 1 ELSE 0]
    [] c >= Space -> LET u == IF l.x >= Cols THEN NextRow(l) ELSE l
                     IN  [u EXCEPT !.want[At(u)] = c, !.x = @ + 1]
    [] OTHER -> l

(* Mutant: the cursor goes back, the character stays.                      *)
Rub_Back(l) == Teletype(l, Backspace)

Rub(l) == Teletype(Teletype(Teletype(l, Backspace), Space), Backspace)

(* One turn of the loop of fgets.                                          *)
fgets(key) ==
  LET c == IF key \in {CarriageReturn, Escape} THEN Newline ELSE key
      rubbed == IF line.buf = <<>> THEN line
                ELSE [Rub(line) EXCEPT !.buf = SubSeq(@, 1, Len(@) - 1), !.stuck = @ \/ line.x = 0]
      typed == [Teletype(line, c) EXCEPT !.buf = Append(@, c)]
  IN  /\ ~line.done
      /\ line' = IF key = Backspace THEN rubbed
                 ELSE [typed EXCEPT !.done = c = Newline \/ Len(typed.buf) >= line.size - 1]
      /\ UNCHANGED <<said, date>>

(* How a format is written, and the arguments it takes.                    *)
Written(n) == v32_fmt_digits(n, 10, FALSE)
FieldText(n) == IF n = Absent THEN <<>> ELSE IF n[1] = "star" THEN <<Star>> ELSE Written(n[2])
FormatOf(item) ==
  IF item[1] = "char" THEN <<item[2]>>
  ELSE LET d == item[2]
       IN  <<37>> \o d.flags \o FieldText(d.width)
             \o (IF d.precision = Absent THEN <<>> ELSE <<Dot>> \o FieldText(d.precision))
             \o d.modifier \o <<d.conv>>
FieldArgs(n) == IF n # Absent /\ n[1] = "star" THEN <<n[2]>> ELSE <<>>
ArgsOf(item) ==
  IF item[1] = "char" THEN <<>>
  ELSE FieldArgs(item[2].width) \o FieldArgs(item[2].precision) \o <<item[2].arg>>

Say(items) ==
  /\ said' = <<items, vsprintf(FlattenSeq([k \in DOMAIN items |-> FormatOf(items[k])]),
                               FlattenSeq([k \in DOMAIN items |-> ArgsOf(items[k])]))>>
  /\ UNCHANGED <<date, line>>

AskDate(year, yday) ==
  /\ date' = [year |-> year, yday |-> yday]
  /\ UNCHANGED <<said, line>>

SayAny == said = <<>> /\ \E items \in Formats : Say(items)
AskAnyDate == date = NoDate /\ \E year \in Years : \E yday \in 0 .. (IF CalendarLeap(year) THEN 365 ELSE 364) : AskDate(year, yday)
TypeAny == \E key \in Keys : fgets(key)

LibcNext == SayAny \/ AskAnyDate \/ TypeAny
LibcSpec == LibcInit /\ [][LibcNext]_libcVars

-----------------------------------------------------------------------------
(* What is written for a value can be read back from it: whatever flags,   *)
(* widths and precisions, of numbers or `*`, sscanf finds the values that  *)
(* were printed (of a hexadecimal one all bits but the sign), as many as   *)
(* there are, atoi the first; and every field has its width, or what its   *)
(* value needs if that is more.                                            *)
Value(d) ==
  CASE d.conv = 120 -> d.arg % 2^(Bits - 1)
    [] d.conv = 115 -> IF d.precision # Absent /\ d.precision[2] \in 0 .. Len(d.arg)
                       THEN SubSeq(d.arg, 1, d.precision[2]) ELSE d.arg
    [] OTHER -> d.arg
Needs(d) ==
  CASE d.conv = 99 -> 1
    [] d.conv = 115 -> Len(Value(d))
    [] OTHER -> LET base == IF d.conv = 120 THEN 16 ELSE 10
                    size == IF Value(d) < 0 THEN -Value(d) ELSE Value(d)
                IN  (IF Value(d) < 0 THEN 1 ELSE 0) + CHOOSE n \in 1 .. Bits : base^n > size /\ (n = 1 \/ base^(n - 1) <= size)
WidthOf(item) ==
  IF item[1] = "char" THEN 1
  ELSE LET d == item[2]
           w == IF d.width = Absent THEN 0 ELSE IF d.width[2] < 0 THEN -d.width[2] ELSE d.width[2]
       IN  IF w > Needs(d) THEN w ELSE Needs(d)
ScanFormatOf(item) == IF item[1] = "char" THEN <<item[2]>> ELSE <<Space, 37, item[2].conv>>
Directives(items) == SelectSeq(items, LAMBDA item : item[1] # "char")

PrintsReadBack ==
  said # <<>> =>
    LET items == said[1]
        out == said[2]
        values == [k \in DOMAIN Directives(items) |-> Value(Directives(items)[k][2])]
    IN  /\ Len(out) = FoldLeft(LAMBDA n, item : n + WidthOf(item), 0, items)
        /\ sscanf(out, FlattenSeq([k \in DOMAIN items |-> ScanFormatOf(items[k])])) = values
        /\ items[1][1] # "char" /\ items[1][2].conv \in {100, 105, 117} => atoi(out) = values[1]

(* The calendar's months, and the days of a year before each of them.      *)
CalendarDays(year) == <<31, IF CalendarLeap(year) THEN 29 ELSE 28, 31, 30, 31, 30, 31, 31, 30, 31, 30, 31>>
DaysBefore(year) ==
  LET before[m \in 1 .. 12] == IF m = 1 THEN 0 ELSE before[m - 1] + CalendarDays(year)[m - 1]
  IN  before

(* localtime and v32::Date turn the day of a year into the same month and  *)
(* day of it, a day that the month has in the calendar, and from which the *)
(* day of the year can be told: in every year that 400 does not divide.    *)
DatesExact ==
  date # NoDate =>
    LET tm == localtime(date.year, date.yday)
        d == set_from(date.year, date.yday)
    IN  /\ d = [month |-> tm.mon + 1, day |-> tm.mday]
        /\ d.day \in 1 .. CalendarDays(date.year)[d.month]
        /\ date.yday = DaysBefore(date.year)[d.month] + d.day - 1

(* What was typed: a newline is the last of it.                            *)
TypedIn(buf) == IF buf # <<>> /\ buf[Len(buf)] = Newline THEN SubSeq(buf, 1, Len(buf) - 1) ELSE buf

(* The screen shows a text up to cell e, blanks behind it: what is missing *)
(* of the text has scrolled out at the top.                                *)
ShowsUpTo(l, text, e) ==
  /\ \A k \in 1 .. Len(text) : e >= k => l.want[e - k] = text[Len(text) + 1 - k]
  /\ \A k \in Cells : k >= e => l.want[k] = Space
  /\ Len(text) > e => l.y = Rows - 1

(* Where it ends: at the cursor, in the row above behind a newline.        *)
Ends(l) == IF TypedIn(l.buf) = l.buf THEN {At(l)} ELSE At(l) - Cols .. At(l)

(* While a line is typed the screen shows what the program is going to     *)
(* get, behind a prompt that stays, over as many rows as it takes; and     *)
(* that is never more than it has room for.  Once a backspace had a        *)
(* character to take off the row above, the screen is behind: it does not  *)
(* leave column 0.                                                         *)
LineAsShown ==
  /\ ~line.stuck => \E e \in Ends(line) : ShowsUpTo(line, line.prompt \o TypedIn(line.buf), e)
  /\ Len(line.buf) <= (IF line.size > 1 THEN line.size - 1 ELSE 0)
=============================================================================
