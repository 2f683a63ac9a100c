# A verification project for v32cxx, its C library and its device drivers

`v32cxx` translates a C++ subset (and C, with `--c`) into the C dialect of the
Vircon32 console's compiler. The repository also holds the C library that a
ported program is linked with (`libc/`) and the C++ wrappers of the console's
devices (`v32/`). This directory models the parts of it whose correctness
depends on orders and combinations of events: what the compiled program does in
which order, which function a call means, which lines of a file are compiled and
what their macros become, what a memory card holds after a power cut, what the
screen shows when the GPU drops what it is told to draw, what a keyboard driver
makes of a device that is unplugged.

Contents: [inventory](#inventory) · [modules](#modules) · [runs](#runs-and-bounds) ·
[findings](#what-does-not-hold) · [fairness](#fairness) · [proofs](#proofs) ·
[limits](#what-is-not-modelled) · [plan](#plan)

## Inventory

The compiler is a chain of passes over one tree, each leaving the tree in a state
the next one counts on. It keeps no state between runs, so its "behaviours" are
two: the order in which a pass visits the source while it carries state along (the
macro table and the open `#if`s of the pre-scan, the classes known to sema, the
scope chain of phase 9, the temporaries of phase 3c), and the behaviour of the
program that comes out. The library and the drivers run on the console, one call
at a time, beside hardware that changes on its own.

| component | state it keeps | operations | what is hard | what makes it correct | modelled |
|---|---|---|---|---|---|
| `macro.c` | macro table | define, undefine, expand a text, evaluate a condition | rescanning, recursion, `#` and `##`, what is left for the C compiler | expands what the standard expands | yes |
| `prescan.c` | once-only sets, inclusion stack, stack of `#if`s, a text waiting for its arguments | directives, inclusion, line markers | calls over several lines and files; the lexer counts lines by what it is told | compiles the lines C compiles; the lexer knows where it is | yes |
| `lexer.l`, `symtab.c`, `parser.y` | scopes, current class | push/pop, declare, resolve; tree building | a name is a type or not, depending on what was declared | inner scopes win | no |
| `sema.c`: classes | the registry of classes, vtables | `override`/`final` checks, slots | overriding without saying so, through levels | one slot per virtual method, the same in base and derived | yes |
| `sema.c`: calls | registries of functions, using, scopes | look up, type, choose | ties; four passes of ever looser matching | the function C++ means, or an error | yes, but see below |
| `cmode.c` | – | rewrite C into the C++ subset | – | – | no |
| `generic.c` | instances already made | expand `std::vector` and `std::array` from a text | an argument that is an element of the vector that moves | what C++ says of a vector; each block owned once | the vector |
| `lib/string` | characters and a size in one object | append, insert, erase, replace, search, numbers | the capacity; itself as an argument; stale characters behind the end | C++'s result, cut at the capacity | yes, without floats |
| `ast.c`: implicit members | the class table | synthesize constructors, destructors | depends on other classes' implicit members | a class has one iff a part of it needs one | yes |
| `lower.c` 3, 3c: calls | receiver and argument temporaries, reference temporaries | dispatch through vtables, bind references, hoist | a receiver is written out twice | each call happens once, in C++'s order | yes |
| `lower.c` 6–9a: objects | new/delete calls, locals, vtable pointers | construct, destroy, install vtables | three phases prepend to one body; phases test types separately | base, members, self; reverse to destroy; each once | yes |
| `lower.c` 9: scope exits | the chain of live locals with boundaries of loops and switches | plant destructor calls at every exit | jumps out of nested scopes; code after a return | each live local destroyed once, youngest first | yes |
| `lower.c` 10: `?:` and `,` | a counter of temporaries, statements to put in front | rewrite into statements | evaluating too early, too often, or what the left side already decided | the same calls in the same order | yes |
| `lower.c` 11: the console's C | counters of temporaries | spell out what its compiler refuses or gets wrong | targets evaluated twice, calls written through, logical shifts | as above, run as that compiler runs it; nothing left that it refuses | yes |
| `lower.c` 9b: by-value | result temporaries | pass addresses, copy on entry, write results through a hidden pointer | one object as argument and destination; nested calls; returns | the same calls on the same values, each result in its own place; no object left as a word | yes |
| `ast.c`: static locals; `lower.c` 2, 4, 5, 6a | the types of the names met so far | move and rename, `this`, operators, references, casts of pointers | five phases share the decision how many steps a use is from its object; names that hide names | each use reaches its variable; types fit in a C that converts no pointer | yes, but see below |
| `lower.c` 12 | the tree | names and text | – | – | no |
| `codegen.c` | what has been written | walks over the declarations, one per kind; `new`/`delete` per class | the declarations change places; C reads once, from top to bottom | declared before used, defined once | order and new/delete |
| `main.c`, build script, XML, debug map, paths | lists of files | write text | – | – | no |
| `libc/v32file.c` | directory in RAM, pool of open files; the card | `fopen` … `rename`, format | card swapped or power cut in the middle; fragmented space | no two files share a word; a save or a power cut touches no file but the one it is of | yes |
| `libc/v32term.c`, `v32curses.c` | wanted and shown cells, dirty ranges | put, scroll, refresh | a cell thought shown that is not: budget, marks shared by windows | the screen shows what was written | yes |
| `libc/v32libc.c` | – | strings, `printf`, `sscanf`, dates, `fgets`, heap wrappers | the least int, signs and zeros in a width; a line edited in two places | what is printed reads back; the screen shows the line | formatting, dates and `fgets` |
| `v32/v32io.hpp` | controls of the last two probes | probe, read | several probes per frame; reconnection | the two readings are one frame apart | yes |
| `v32/keyboard.hpp` | strobe side, prefix, queue, held keys | probe, read, flush | events over a reconnection, lost payloads, full queue | every event noted once, in order | yes |
| `v32/mouse.hpp` | counters, pointer, edges | probe, set position, bounds, scale | wrap-round, reconnection | movement is what the device moved | yes |
| the other `v32/*.hpp` | – | thin wrappers | – | – | no |

They meet like this. `lower.c`'s phases run one after the other on each function
body (`lower_run`): `BodyLowering` composes the phases that matter to the order of
evaluation. `ObjectLife` takes what `ast.c`, `lower.c` and `codegen.c` write about
one class together, because the correctness of an object's life is nowhere in one
of them. `Prescan` puts the expander, the evaluator and the stack of `#if`s under the
loop that reads files, and the lexer's counting of lines behind it. `MCSema` checks
four parts of the middle of the compiler side by side, since each reads the same
declarations: `Vtables`, `SemaCalls`, `Emission`, and behind them `Bodies`, which asks
`SemaCalls`' types again at every phase, as `lower.c` asks `sema.c`. `Curses` calls `Terminal`, and a
program may call both. `Keyboard` and `Mouse` are built on the same device, `V32Io`, as the two
classes are; `V32File` calls the search of `V32FindRoom` as one step.

The hazards of each part, with the line where each bites, are in `PROJECT.json`.

## Modules

### Files on a memory card

| module | models | state |
|---|---|---|
| `V32Card` | the layout: `v32file_entry`, the data area, what a free run of words is | – |
| `V32FindRoom` | `v32file_find_room`, one action per step of its `do`/`while` | directory, candidate position, loop index, `moved` |
| `V32File` | the whole of `v32file.c`, one action per call | every card's header, directory and words; the slot; the RAM directory; the pool |
| `FileStore` | what it promises: cards are maps from names to contents, open files are private copies | `files`, `copies` |

A call is one action: the console runs nothing else meanwhile. What can happen in
the middle of a call is the power going off, and `PowerOffInCommit` and
`PowerOffInFormat` cut the card's writes short in the code's order (data before
directory, header before directory). `InsertCard` and `EjectCard` happen between
any two calls, with files open. `v32file_card` reads the directory again in every
call, and so does every action; a handle's fields are dropped when it is closed,
because `fopen` overwrites them all. The growth of a file's buffer is abstracted to
whether the allocation fails (`AllocFails`). `ftell`, `feof`, `ferror`,
`v32file_stat` and `v32file_free_words` change nothing and are left out, as is the
number `fread` returns. Writing the directory is one step; the source says nothing
of a write that is torn by the hardware.

Before its first format a card may hold anything: `OldDirs` are the directories that its
words may happen to be, with any names twice, any places, any sizes from 0 up. A first
format that is cut short behind the header leaves them under a header that calls them
this program's (`HeaderKind`): the card is then "halfway", and every call works on it as on
a ready one (`CardState`), which it cannot be told from. A file of such a card reads as its
words, or as anything where it lies beyond the card (`FileReads`). Sizes below 0, sums
beyond 2^31 and sizes beyond 2^30, for which `v32file_reserve` would double its capacity
for ever, are left out.

`V32File` implements `FileStore` under a refinement mapping that reads a card's
map off its directory; the mapped steps are a save, a removal, a renaming, an
opening, a change of a copy, a power cut, or nothing. A halfway card is one of the store's
`spoiled` cards: it keeps no file, whatever it shows, and what is opened on it is arbitrary,
until it is formatted again.

### Objects and scopes

`DestructScope` is phase 9. The compiler walks a body once, in source order, with a
chain of locals and two boundaries, the innermost loop and the innermost loop or
switch. One action is one construct of the body, chosen freely, so a behaviour *is*
a program; along with the walk one execution of the compiled program is followed,
which is either where the walk is or has jumped and waits for the walk to get
there. `stmt_always_returns`, which leaves out the destructor calls at the end of a
scope, is part of the state of each frame. Only locals with a destructor count.

`ObjectLife` lets a behaviour write a program class by class (`DeclareClass`: base,
members, constructor, destructor, virtual methods or not) and runs the code the
compiler writes for the life of one object, statement by statement: `CtorCode` and
`DtorCode` are the bodies after phases 7, 8, 8a, 8b and 9a have prepended and
appended to them, `WantsCtor` and `WantsDtor` are the implicit members of `ast.c`.

### Function bodies

`CppBody` is the common ground: trees of nodes as `AstNode` has them, and what it
means to run one, in C++, in C, and in the C of the console's own compiler, given
an answer for each call the run makes. The last writes the target of a compound
assignment out twice, runs a call that gives the pointer to write through once
more, and shifts right logically whatever it shifts: `src/docs/VIRCON32_QUIRKS.md`
and the comments of phase 11 say so, and they are the source for it. Memory is a
few words, so that pointers can be stepped, written through and indexed.

`CallLowering` (phases 3 and 3c), `ByValue` (phase 9b and, before it, the temporaries in
which phase 9 holds what is returned), `Ternary` (phase 10) and `Compat` (phase 11) are
the rewritings, operator for function. `BodyLowering` sends a body through them in the
order of `lower_run` and answers the calls of its run one by one. Its `SameRun` says
that the run of the source and the run of what has come out of the phases so far
make the same calls, with the same arguments, in the same order, leave the same
variables and memory, and end alike. After phase 11 it is the console's compiler
that runs what has come out. `NothingLeft` says that nothing is left by then that
this compiler refuses.

An object of several words is one value of two digits, passed and returned as such by
the source. From phase 9b on a call is given addresses; what it calls copies the objects
there before it answers and then writes its result through the first of them, as the
functions that have been through the same phase do. The body that is run is on both
sides of this: it calls such functions, and is called with the address of a global object
as its argument and as the place of its result.

Temporaries are named by where they are instead of by a counter; their types,
casts, `goto`s and default arguments are left out. What the model produces was
compared with what the compiler writes for samples of each kind of statement.

### The text before the parser

`Macro` is the table and the expander of `macro.c`. The code expands in one buffer of
characters and remembers, for each macro being replaced, the range of positions in
which it may not be replaced again; later replacements shift the ranges. The model
keeps the buffer as a sequence of tokens and the ranges as they are. A token is the
sequence of the spellings it is made of, so that `##` is concatenation. The evaluator
of `#if` is in the same module, function for function. `CondStack` is the stack of groups.
`Prescan` is the loop of `expand_file_mode` over the innermost open file, one turn a
step: directives, joined lines, comments, `#include` in its modes (expanded, passed
on, harvested), the line markers it writes and the lexer that counts by them. Comments
are followed twice: `Scanned` reads them as `find_directive` does, `Read` as the lexer and
C do; what C makes of the file, its comments (`inC`) and its groups, is kept beside what the
code makes of it.

`MacroRef` is what the language says instead: hide sets per token, arguments
expanded on their own, placemarkers; conditions by the precedence table.

### Names and types

`Vtables` declares classes one after the other, method by method, as pass 3 of
`sema.c` goes through them, and lays out their slots; where a virtual call arrives
is read from slot numbers, as `lower.c` and `codegen.c` do. `SemaCalls` begins with the
comparison of types and the four passes of `resolve_overload_generic_impl`, followed
by C++'s own rule: conversion sequences, ranks, the best viable
function. The rest is what surrounds both: which declarations are kept, which of them a
name can mean, the type of an argument expression, the class of a receiver.

`Emission` is `codegen_run`: its walks over the declarations, with the functions it
makes for `new`, `delete` and vtables, give the order of the C text, and each item says
what it refers to. What a C compiler must have seen before an item, and what it must
see once only, are the two properties.

`Bodies` is what becomes of one function's body between the parser and the phases of
`BodyLowering`: static locals move out (`HoistStaticLocals`), members are reached through
`this` (`ThisInject`), calls and operators get their final shape (`FinalizeCalls`),
references become pointers (`FixReferences`), pointers are cast where they are stored
(`InsertPointerCasts`). Each action is one walk over the whole body; the walks share the
locals' table, which forgets nothing before the end of the function. In the source a
call and an operator name the function sema resolved them to. Two independent readings
follow: `Means` turns a body, in C++ or in C, into a term over the variables in scope,
where a reference is a pointer that is always followed, `&*` and `*&` cancel and casts
between a class and its base vanish; `CType` gives the types of the console's C, which
converts no pointer but to a pointer to const, no 0 and no function. Where a const scalar
is read is `Compat`'s business.

### Containers

`Vector` is the class that `generic.c` writes for `std::vector<T>`: any number of
vectors on one heap, each call as a function from the memory before it to the memory
after it. An argument `const T &` is a value or the place of an element, read when the
code reads it: after the block has been freed it is garbage. A program also keeps a
pointer into a vector, for as long as C++ says it is good. `malloc` never fails, as
the code assumes; blocks are named by their addresses, the lowest free one first. T has
no destructor.

`StdString` is the class of `lib/string`: the words of the object, the ones behind the
terminator too, and each method as a function of them. Arguments are texts and strings,
the string itself among them. `StringsBehave` asks in every state a program can reach what
every method would leave and every question would be answered.

### The C library

`Libc` has the loops of `vsprintf` and `sscanf` directive by directive, the two ways
from a day of the year to a month, and `fgets` with the cells of the screen on which it
echoes, key by key: `v32term_putc` wraps ahead of the character that has no room, scrolls the
last row into view, and does nothing for a backspace in column 0. `PrintsReadBack` ties the two loops to one another: whatever is printed
is as long as widths and values say, and `sscanf` gets the values back from it.

### The screen

`Terminal` is `v32term.c`: the cells wanted, the cells drawn, the range that may
differ, and the GPU, which draws up to a budget of cells a frame and silently drops the
rest. A flush and the on-screen keyboard run over several frames; what is left to do
of such a call is a stack. `Curses` is `v32curses.c`: windows with their cells and a
mark per row, subwindows that share both with their parent, refreshing, keys, and the
terminal's panel over the windows.

### Devices

`V32Io` is `v32::IoDevice`: the console changes what the port shows between two
frames, the program probes once per frame or oftener. That a program probes before
it ends a frame is the rule `v32io.hpp` states, and the guard of `EndFrame`. A port
that is connected shows the released controls first; a port that is not may show
anything its device last showed.

`Keyboard` adds the decoder and the `v32kbd` device: strobe side, press or release,
key code, and characters of two events (a codepage prefix, then a payload). A
player types, characters are pasted, the keyboard is unplugged in the middle of
them. The device gives up a payload it still owes only after the driver's
timeout, and programs start between two characters. `KeyEvents` is the promise:
everything that happens is noted once, in order, the oldest `Limit` wait and the
rest are counted, keys held and caps lock are followed even if nobody reads. A key
held while the keyboard is unplugged stays held, in both.

`Mouse` adds the counters of twelve positions per axis, shown as Gray code, the
movement as their difference, the pointer in its bounds, and button edges.

## Runs and bounds

| run | instance | shows |
|---|---|---|
| `library` | all sound directories of 3 entries on 3 data words, and 1728 with overlaps and places off the card; all sizes and skips; one and two directives with words of 9 bits; all days of 3 years; all lines of up to 7 characters on a screen of 2 rows of 3 cells, from either row | the search ends, with the first fit; what `printf` writes has its width and is read back by `sscanf` and `atoi`; dates are dates; a line under edit is on the screen, wrapped and scrolled, until a backspace is stuck in column 0 |
| `v32file_one` | one card of two data words, blank or with two entries of one name in its way, one of them beyond the card; two files, two values of a word, one handle | a directory this code wrote stays sound; `V32File` implements `FileStore`, through saves and formats cut short; a save that reports success has saved |
| `v32file_two` | two cards of two data words, blank, stale or another game's, with no words in the directory's way; one file, two handles | `V32File` implements `FileStore` across swaps; another game's card is never written; a clean handle is a saved one |
| `lifetimes` | all bodies of 3 locals, nested 5 deep, all paths; 3 classes with a base and a member, 2 with two members of every shape, 6 storages; 2 vectors of 2 elements growing from 1, a pointer into one; a string of capacity 4 over 2 characters, ints of 6 bits | each live local is destroyed once, youngest first, after the expression of its statement; objects are constructed and destroyed in C++'s order, complete when used, with the right vtable in each body; vectors and strings do what C++ says, also with their own elements and themselves as arguments; each block has one owner and is given back |
| `body_lowering` | 34 804 bodies, 4 answers, words of 5 bits | every body runs alike before and after the phases, and nothing the console's compiler refuses is left |
| `virtual_chain` | one statement | see below |
| `comment_directive` | files of up to 4 lines out of 6 | see below |
| `prescan` | 9 themes of lines, files of 1 to 6 lines | lines are compiled as C says and counted as the lexer believes, all readers agree on where comments are, macros expand as the standard says, a name passed on keeps its value, a once-only file is read once |
| `sema` | 3 classes of 2 methods; 2–4 functions and a call in 6 themes; programs of up to 5 declarations; 2 700 functions of one to five statements | virtual calls arrive where C++ says; calls resolve to C++'s function; the C text declares before it uses and defines once; a lowered body means what its source meant, and its pointers fit |
| `screen` | 2×2 cells, 2 windows or a window and a subwindow, 3 cells a frame, 5 calls | the picture, the terminal and the windows agree whenever they claim to; the cursor stays inside |
| `keyboard` | caps lock, shift and a letter, a character per codepage, queue 2, timeout 2, 5 frames | `Keyboard` implements `KeyEvents`; extra probes change nothing |
| `mouse` | one axis, all 12 positions, ±5 steps, one button, 3 frames | steps and edges are exact, frame by frame |

Why they are enough. Three directory entries are the least for a gap between two
files that a third could miss; two cards are the least to save on the wrong one;
two handles the least to race for a name. Two words of data are the least that
two files can share, and with them a save already moves a file, grows it in place, or finds
no room (three words, 900 000 states, give the same answer in four minutes). A word's value is only copied, so one or
two values tell apart all that can be told, and names, words and cards are
symmetric. Five nested frames hold a switch in a loop in a loop with a block on
either side, the deepest case in which the two boundaries of phase 9 differ twice.
Three classes are the least for an implicit member that depends on an implicit
member. A queue of two wraps after one read; five frames hold a prefix, a timeout
and a reconnection. The axes of the mouse are independent. An expression of three
operators around a call puts each operator below each other on each side, in each
of the places a statement has for one; four answers run the shortest loop twice.
Words of 5 bits are all shifted by all counts and masked by all non-negative masks:
the identity behind the rewritten shift, and the bound on a mask that lets one
stand, depend on the width only through `Bits`. Objects of two words are the least that
phase 9b is about; two parameters and a global tell a copy from what it was copied of.

A macro's behaviour depends on the few tokens around its name and on what else its
replacement names: a theme has one or two macros of each kind (object-like,
function-like, variadic, recursive, emptied, redefined) and lines that call them
inside one another's arguments, over line ends and up to the end of the file. Nesting
of `#if` is three deep at most there; the theorem has it at any depth. In `#if` the 64
bits of the evaluator are eight where bits matter. Three classes are the least in
which a method is overridden, skipped and overridden again, again with a theorem
beside it. Two candidates are the least that tie, four hold two namespaces and a
class; a call has one or two arguments, because the passes of the code look at all
arguments at once, which two already tell from one at a time. The pool of declarations
of theme `text` has two of every kind that can need one another in both orders. In the functions of
theme `bodies` every kind of place, value, object, pointer and function meets every kind of use
of it (assigned, passed by value, by pointer and by reference, bound, compared, returned,
called on), in a function, a method and a const method; one statement is enough, since the
phases only carry declarations from one to the next, and for these two declarations hide
one another in six shapes of statement. Two by
two cells have a corner, an end of a row and a scroll; a budget of three cells is less
than a screen and more than a row. A vector of one block, then two, then four elements
grows in every call that can grow; what is asked of a call in a state of two elements
moves two of them. Ints of 6 bits have a least one without a negative, which needs three
characters of the four. Words of 9 bits print in up to four decimal digits and a sign, and
in three hexadecimal ones; widths lie below, at and above what these need; the years are
a leap year, none, and a century.

`CHECK_DEADLOCK FALSE`: every program here may stop, and every bound stops it.
Bounds: `MaxSize`, `MaxFrame`, `MaxLocals`, `MaxFrames`, `MaxAnswers`, `ArrayLen`,
`Families`, `FirstCapacity` (1 for the code's 4), `Capacity` (4 for 63), `Bits`, `Formats`, `Years`, `Prompts`, `Keys`, `Sizes`, `Programs`, `MaxMacroDepth` (4 for the code's 64), `MaxSplices` (40 for 100000), the
`max` lines of a theme, `Budget`, `MaxCalls`, `MaxDecls` and the sizes of the constant
sets. `SYMMETRY` is used for `v32file_*`
only, where all checked formulas are invariants or step formulas.

### What does not hold

Two runs expect a violation, of what a comment of the code says of itself:

- `virtual_chain`: `r()->m()->n();` calls `r` twice.
- `comment_directive`: `find_directive` leaves a block comment at the `/` that ends it and
  goes on there. The `/` is code, so in `/* c */ #else` or `/* c */ #endif` no directive is
  seen; with the character behind it, as in `int /* c */*p;`, it begins a comment that
  neither C nor the lexer knows of, and the directives and macros in it are not read.

Others can be had from the modules by a constant: a local of a class declared
directly in a `switch` body is destroyed but never constructed (`Declare` allowed in
the frame `SwitchOn` opens, or `SwitchCtors`); a second `probe()` in a frame drops the
frame's movement and button edges, while the documentation calls extra probes harmless
(`ExtraProbes`, against `Mouse.ExtraProbeHarmless`, which no run checks); `(c ? x : y) = 5;` stores into a temporary (`LvalueFamilies`); pasting
and stringizing of named constants (theme `Pastes`); subwindows narrower than their
parents (`Partial`).

The passing runs leave these programs out by a constant, or by the families, themes
and pools of the MC modules. So are the other cases that were met and reproduced with
the compiler, the most telling of them listed as hazards with a note.

*Bodies.* `delete[]` as `delete`, members and locals declared through typedefs, const
locals, a local declared directly in a switch whose initializer has a `?:`,
receivers with calls in loop conditions and else-ifs, receivers to the right of a
comma, the negative count of `fread` after an `fseek` beyond the end, `g >> next()`
where `next` changes `g` (`g` is written three times, on both sides of the call), a
const operand of a shift that becomes an argument of `__v32_sar`, an object passed by
value in the initializer or result of a word (`int n = sum(o);` and `return sum(o);`: phase
9b has made `sum` take an address and leaves such a call alone, `ByValueFamilies`), the address of an
assignment when its value is passed by value (`sum(g = make())`), and a target with
side effects in an assignment that is itself an operand (left as written; the
compiler warns of compound ones). Which side of an assignment is evaluated first is
not compared where both have side effects: C++ fixes it only since C++17, and C not
at all.

*Scopes.* Phases 2, 3, 5 and the types of sema know a function's names, not its
blocks' (`lower.c:174` and `DESIGN_NOTES.md:445` say so): after `{ int v = 5; }` a
reference parameter `v` is taken for a plain variable and `v = 0` makes it a null
pointer; after `{ int &v = w; }` the outer `int v` is dereferenced; after
`{ int x; }` a member `x` is no longer `this->x`; after `{ float i; }` the call `f(i)`
of an `int i` resolves to `f(float)`. `SameScopes` is the precondition that leaves these
bodies out of `Bodies`. A static local after a label, or as the only statement of an `if`,
becomes an automatic one; `extern int g;` in a function declares a new local.

*References and pointers.* A method called through a reference to a pointer
(`typedef A *AP; AP &y = x; y->get();`) is given the pointer's address for the object,
which the comment above `address_of_if_needed` promises not to happen; `0` assigned through
such a reference or compared with it stays 0. A derived pointer passed for a `T *const &`
(`push_back(pd)`) is cast to `const T *`. Pointers named by a typedef get no cast to a base:
`AP p = &b;`, `Sub &w = *h;`. A callback's result passed for a `const int &` gets no
temporary, though the comment "temporaries for reference parameters" names the result of a
call; locals (`const int &k = 5;`) get none at all. `*this + o` and `(*this)[1]`
stay operators on a structure. Inside braces (`int w[2] = {m, a};`) members get no `this`
and references are not followed. `?:` as the target of a reference is passed as a value,
its branches get no cast and no `NULL`. `take(0)` to a pointer parameter stays 0; a
function's name that is returned lacks its `&`. An accessor of a container that is written
out in place writes the container twice: `vs[i++].back()` runs `i++` twice.

*Macros and the pre-scan.* `##` with a named constant pastes the name and not its
value, and `##` of an object-like macro is not done at all; with an empty left
operand the pieces on either side of it are joined. `#define self (4 + self)` inside
an argument is expanded twice. A line joined by a backslash while no macro is defined
leaves every later line one too low. A directive whose trailing comment goes on in the
next line makes the lexer read that line as code. A comment that opens behind a call
over several lines, in its last line, swallows the marker that follows, and later lines
are reported wrong. A comment's end in front of a directive, a `*` or a `/` is not seen
(`comment_directive` above). A header passed on to C that asks
for a macro only the translator knows makes C and C++ disagree about the value of a
constant. With `--c`, `#define a b` and `#define b a` recurse until the stack ends, a
header harvested for its types that includes `<vector>` dereferences a null pointer,
and a once-only header first seen through a library header declares nothing to the
program that includes it.

*Overloads.* Four passes over all arguments are not C++'s ranking of each: with
`f(A*, char)` and `f(float, int)` the call `f(nullptr, 1)` is given the second, though
the comment calls the only survivor certain; `h(3)` prefers `h(int &)` to `h(char)`;
`k(4)` prefers `k(char)` to `k(int, ...)`; `g(a < b)` prefers `g(int)` to `g(bool)`;
`h(3)` prefers a converting constructor to `float`. `f(A &)` and `f(const A &)` are one
function, and so are methods that differ in `const`. `this` has the class's type.
The themes are those for which code and C++ agree, or the code reports an error.

*Order of the C text.* Written before what they need: a typedef of an enumeration (of
a union too, in C++), a union that holds a class, an enumerator that takes a class's
size, a file-scope variable initialised by a function. Called and never written: the
functions for `new E[3]` of an enumeration and `new U` of a union. An opaque class is
not declared at all, a file-scope `int *p = new int;` is silently null.

*Files.* A first format cut short between header and directory leaves a card that shows the
words of another format as files: two of one name, two that share words, one beyond the
card. `DirectoriesSound` and `ImplementsStore` say nothing of what such a card shows, until it is
formatted again; `v32file_one` has such cards, and there both fail at once if the model
takes them for ready ones (`HeaderKind` as "ready").

*The screen and the devices.* Refreshing a narrow subwindow clears the mark its parent
has for the row; a window refreshed before the terminal is initialised is cleared by
the initialisation; backspace in `wgetnstr` goes wrong at the window's last cell and
after a wrapped line; a button of `v32pad` that is released and pressed again between
two polls is not a fresh press; changing the paper needs a redraw. A device that sent the
character 127, for which the BIOS font has no glyph, would be read as sending the key Delete:
`Characters` leaves it out.

*Containers.* A vector of elements with a destructor destroys the copy that `push_back`,
`resize(n, x)` and `insert` make of their argument, while the comment above the template
says it never runs an element's destructor. Structs that hold a vector may be
initialised from one another, assigned and passed by value, though `generic.c` says that
every such copy is caught: both free the block. A vector of vectors is warned of and then
assigns to memory nobody has constructed. `append`, `insert`, `assign` and `=` of a string
with its own `c_str()`; `to_string(float)` cuts where `%f`, which its comment names,
rounds; strings with embedded zeros.

*The C library.* `%i` of `sscanf` is decimal only, a width leaves out the sign, and at the
end of the text it returns 0 where C says `EOF`; the precision of `%d` is ignored;
`localtime` and `v32::Date` know no leap year that is divisible by 400: day 365 of 2000 is
December 32. Once the text under edit in an `fgets` has wrapped, a backspace in column 0 of
the second row takes the character off the buffer and leaves it on the row above
(`v32term.c:363-365`), so that from there on the screen is behind: `LineAsShown` makes no claim
about the screen once that has happened (`stuck`). A tab or a function key typed into `fgets` is stored, and what it moved on the
screen is not undone by a backspace. `time()`'s comment promises "the frame counter so two calls
in one second differ", but the code adds none.

## Fairness

Only `V32FindRoom` states any: weak fairness of `Next`, because the search is
sequential code in one function and nothing can suspend it. Every other component
waits for a program, a player or a device, and none of these need ever do
anything; what is promised there is safety.

## Proofs

Checked by TLAPS, for every value of the constants that the named assumptions of
the modules allow:

- `Library_proofs`: `FindRoomIsFirstFit`. The inductive invariant says that no
  position before the candidate is free (each entry that was collided with covers
  all positions between the old and the new candidate) and that while `moved` is
  false the entries scanned so far do not collide; `FindsFirstFit` alone is not
  inductive, since it speaks of the end only.
- `V32File_proofs`: `TypeCorrect`, for every layout, number of cards and handles.
- `V32File_proofs`: `DirectoriesStaySound`. A card's directory is sound when no two
  entries have the same name or share a word and all lie on the card. The inductive
  invariant, `CardOK` of every card, asks it of the cards whose directory this code wrote, and
  nothing of the others: there is no hypothesis on the words a card held before. That a
  format cut short behind the header makes a card halfway and not ready, unless the words were
  those of an empty directory, is the step in which this matters. That the place `Commit`
  chooses does not overlap is the lemma about the first fit, stated once and cited.
- `V32File_proofs`: `ForeignCardsAreSafe`, an action property: it
  needs to know no more than that the slot is empty or holds one of the cards.
- `V32File_proofs`: `CleanFilesAreSaved` and `SavesTellTheTruth`, on halfway cards too:
  an open file loses its dirty flag only where `Commit` succeeds, and after `Commit` the file of
  that name, looked up in the new directory, is the buffer word for word. That needs no sound
  directory: the place lies on the card, and the entry is the first of its name.
- `V32File_proofs`: `CardImplementsStore`, the refinement. The inductive invariant adds that
  an open handle has a name (`OpenNamed`). Each action is then one step of the store or none.
  That no other file changes with a save is where soundness is needed: the words written belong
  to nobody. A power cut in `Commit` is a save that did not happen, or one that tore the
  words of the file it was of; one in a format changes nothing, or spoils a card that
  kept no file.
- `Screen_proofs`: `TerminalShows`. Whenever no cell is left to draw, the picture is
  what was written, for every screen, budget and order of calls. The inductive
  invariant says that outside the range from first to last the picture already is what
  is wanted, and, which is what the budget can break, that within a frame only cells
  really drawn are noted as drawn; a call in the middle of its loop owes what its stack
  says.
- `Screen_proofs`, of the composition with `Curses`, for any number of windows: `ScreenShows`
  (the same with windows above), `CursorsStayInside`, and, under the hypothesis `~Partial` (the
  known difference above), `RefreshedRowsMatch`. `ScreenIInv` adds to the terminal's
  invariant that the owner of an open window is open and owns itself, that a window lies in its
  owner, and that only owners have cells and marks, as many as they have rows (`Steady`); that
  the stack is one the calls leave; and that the terminal is ready once there is a window.
  The calls that change cells are all one lemma: they are made of `Put`, `Mark` and
  `MoveTo`, and each of these is an edit (`Edits`): a cell changes only in a row that
  is marked, and no mark is lost. `SharedIInv` is what a refresh needs: windows that share
  cells have them at the same places (`Aligned`), and an owner's unmarked row is as what is
  wanted (`Matched`). What is wanted is the terminal's cells or, while the keyboard's
  panel is up, the cells it has saved: the panel changes the one and not the other.
  `RefreshMatched` is the step that matters: the marks it takes away are of rows it has drawn,
  for the owner and for all the windows that share them.
- `Compiler_proofs`: `CompiledLinesAreFirstTrue`. The four flags the code keeps for the
  innermost group say what the whole history of conditions of all open groups says.
- `Compiler_proofs`: `CallsRunTheirOverride`. The inductive invariant says that a class's
  slots begin with its base's, key for key, that every key has at most one slot, and
  that a slot is filled by the nearest class of the line that declares its key.
- `Compiler_proofs`: `ScopesDestroyTheirLocals`, `ExitsDestroyTheYoungest`,
  `ReturnsAreFinal`, for bodies of any size and depth, under the hypothesis `~SwitchCtors` (a
  local declared directly in a `switch` is the known difference above). `ScopeIInv`: the chain
  is in order of declaration, the marks of the frames rise with their depth, the boundaries of
  `break` and `continue` are marks of frames that are open (`ChainSound`); and control is in one of
  six states, each of which says what is alive (`ControlSound`): where the walk is, the
  chain is; on the way to an exit's target, the part of the chain below the
  target's mark and, on top of it, what is still to be destroyed, youngest first.
- `ObjectLife_proofs`: `LivesInOrderAlways`, `CompleteWhenUsedAlways`, `VtablesInCtorAlways`, for
  programs of any number of classes and members, arrays of any length, and objects created in each
  of six ways, under the hypothesis `TreatedAlike`: members and objects are declared in the ways
  all phases take for the same (the others are known differences above; the run's programs
  satisfy it, which TLC checks). The argument is that each statement still to be executed comes to
  something that can be said without executing it: the constructors it runs (`BuildMap`), the vtables it
  sets (`SetMap`), the destructors it runs (`GoneMap`). That a class's constructor and destructor
  come to what C++ asks of the class's parts (`CtorDoes`, `DtorDoes`) is where the order in which
  phases 6 to 9a prepend and append is used; that the implicit members leave nobody
  out (`UnbuiltHolds`, `UndoneHolds`) is induction on the order of the classes. The inductive invariant
  (`LifeInv`) is that the classes are compiled so (`Classes`) and, for the object, that what has run
  and what the rest of the code comes to make together what C++ asks (`Progress`), that no
  constructor comes behind a destructor (`Phased`), and that each statement will find the vtables it
  relies on, set before it or by the statements up to it (`AllReady`): a constructor's body its own and
  its members', a `delete` the object's, the use those of all parts (`TablesSetHolds`).
- `Keyboard_proofs`: `TwoFramesShown` of the device, `EventsNotedInTheirFrame`,
  `GlyphsDrawWhatWasTyped`, `ExtraProbesDoNothing`, and the refinement
  `DriverImplementsKeyEvents`, for queues and timeouts of any size. `KeyIInv`: the
  slots in use of the ring hold events (`QueueSound`), and in every frame the driver's strobe
  side and prefix are those the device had in the last frame it was probed, whether the port has
  moved on since or not (`DriverInStep`). The abstract queue is the ring read from `queue_first`
  on, and the lemmas about it are one for `push`, one for `read`, one for `flush`.
- `Mouse_proofs`: `MovementIsExact`, under the hypothesis `~ExtraProbes` (the known
  difference above). `MouseIInv`: the counters kept are those of the last data
  (`LastSeen`), and before the frame's probe the port's are those plus the steps made
  (`Stepped`), modulo the number of positions; the smallest of the differences the code
  can mean is the true one because a frame makes fewer than half as many steps.
- `Containers_proofs`: `VectorsBehaveAlways`, for any number of vectors, values of any kind, any
  length and any first capacity. The inductive invariant (`VectorInv`) is that the memory is kept
  (`Kept`: each vector has a block of its own, as long as the vector believes, and there are no
  other blocks) and that the pointer the program keeps stands where C++ says it does
  (`HeldStands`). Every call is made of three steps, a new block (`ReserveKeeps`), a block written
  (`WriteKeeps`), a size set (`SetSizeKeeps`); each keeps the memory and touches no other vector.
  That an argument which is an element is read before the block it lies in is given back is where
  the order of the steps is needed. `EnoughBlocks` is what is assumed of `malloc`: it finds a block
  while every vector has one.
- `Containers_proofs`: `StringsBehaveAlways`, for any capacity, any width of `int` whose
  numbers fit, and any characters. The inductive invariant (`StringInv`) is that a string that was
  constructed holds some text (`Holds`): as many characters as its size says, none of them 0, then a
  0. Nothing is said of the words behind it. Each method has a lemma with the text it leaves
  (`PutHolds`, `EraseHolds`, `InsertHolds`, ...), from which follow both that the invariant is
  kept (`StringNext_Inv`) and that C++ is satisfied (`HeldAsC`); each question has one that answers it
  from the text (`FindAsC`, `CompareAsC`, ...). For numbers (`StoiAsC`) the digits are written out of
  the tenths and read back in the other order: both are induction on the number, as the least
  number for which they fail (`DigitsTidy`, `DigitsRead`), and the least `int` comes back because what
  is read wraps around twice. `IntsFit` says that an `int` with its sign has room in a string;
  `Powers`, which is arithmetic, that powers of two and ten are products.

- `Library_proofs`: `LineAlwaysAsShown`, for any size of the screen, any row the line starts on, any
  prompt of up to a row and any size of the buffer. `ShowsUpTo` says that the cells end with the prompt
  and the typed text up to a cell, with blanks from there on, and that what is missing of it scrolled
  out at the top. Writing keeps that (`WrittenShows`: `ScrollShows` when the row is full, then
  `PutShows`), a newline leaves the text's end within the row above (`TypedShows`), rubbing out takes
  one character off unless the cursor is in column 0 (`RubbedShows`), which sets `stuck`. The rest of
  the invariant is that a line still open has room and no newline in it yet. `LineBounds` leaves out
  the keys that move the cursor (a known difference above).
- `Library_proofs`: `DatesAlwaysExact`, for every day of every year that 400 does not divide
  (`YearsOfDates`): in 2000 and 2400 the code is wrong on the last day. The days of a year are the
  Gregorian calendar's (`CalendarLeap`), not the code's; `CodeCalendar` is where the two rules agree.
  `localtime` counts the year's days down month by month, `v32::Date` with a table of its own; that
  each of the two loops ends, and that they end with the same month and day, is induction on the months
  that are left, each as the least one that fails.

What these proofs assume of the constants is in the `ASSUME`s of the component modules,
which TLC evaluates on each run: `DeviceAssumption` of `Keyboard` and `Mouse` says what a device can
send, never what the driver does with it.

Of `Curses`, `WindowSizes` says that windows have rows and columns.

Model-checked only, and why: the search's termination is liveness. `PrintsReadBack` of `Libc` is
about two loops over a format and, within them, over digits. `Emission` is built on
recursion over types and members, and replays what C++ does on a
reference that is itself computed step by step. All that recurses over
trees and texts is beyond induction here: `CppBody`, `CallLowering`, `ByValue`, `Ternary`,
`Compat`, `Macro`, `MacroRef`, `Prescan`, `SemaCalls`, `Bodies`.

## What is not modelled

The components with status `not_modelled` in `PROJECT.json`, each with its reason:
generated or table-driven code (lexer, parser), text output (expressions and types in
codegen, build script, XML), pure functions of a few lines (strings, `ctype`),
thin wrappers of the console's functions, and those the plan has next. The console's
own C headers are modelled from their use. Of `sema.c`, `SemaCalls` leaves out
operators and constructors as calls, functors, unions, C input, access control, the
conversions written into arguments afterwards, the type of a call that stayed
unresolved, and `using` below the level of a file. `Bodies` leaves out member
initializers, objects initialized with arguments, default arguments, casts the source
writes, `asm`, and the accessors of containers that are written out in place; the
construction that phase 6 makes of `new` is in `ObjectLife`.

## Plan

1. The argument lists of C input (`cmode.c`) and phase 12 as steps of `BodyLowering`;
   container accessors written out in place as a step of `Bodies`.
2. Proofs: what is left recurses over types, trees or texts. The parts of it that do not
   (who owns an element of a `Vector`, which file `Prescan` has included) would need the module
   split from the part that does.
