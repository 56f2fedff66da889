# A TLA+ model of zedit

zedit is an Emacs-like text editor for the terminal, in C.  This directory holds
TLA+ modules that model it, TLC configurations that check them on small
instances, and proofs, checked by TLAPS, of what holds for every instance.
`PROJECT.json` says which lines of the source each definition stands for.

## 1. The system

### Components

| Component | Source | State | Operations |
|---|---|---|---|
| Buffer library, core | `buff/buff.h`, `bcreate`, `newpage`, `freepage`, `pagesplit`, `binsert`, `bdelete`, `bdeltomrk`, `bempty`, `bmove`, `boffset`, `bpeek`, ... | a doubly linked list of pages of at most PGSIZE bytes; the point (page, offset); the dynamic marks (page, offset) | insert and delete bytes, move the point, set, move and compare marks |
| Mark lists | `buff/bcremark.c`, `globals.c` | one list per buffer, the global `Marklist`, the one-mark cache `freemark` | create, delete |
| Bulk insertion and copy | `bindata.c`, `bcopyrgn.c`, `breadv.c`, `bwritev.c` | none of their own | insert a block, copy a region between buffers |
| Buffer files | `breadfile.c`, `bwritefile.c` | a file | read page by page, write page by page |
| Searching | `bcsearch.c`, `bmsearch.c`, `bmovepast.c`, `reg.c` | a delta table, a compiled expression | search forward and backward |
| Undo | `undo.c` | a stack of inserted sizes and deleted bytes, each with an offset and a mark | record, clump, undo, clear |
| Kill buffer | `delete.c` | `Killbuff`, the last command | kill, append, yank |
| Named buffers | `bcmds.c` | `Bufflist`, `Bnames`, `Curbuff`, `Bbuff`, `Lbufname` | create, find, switch, delete |
| Windows | `window.c` | the window list, per window a buffer and three marks, `Curwdo` | split, close, size, switch |
| Files and saving | `file.c`, `commands.c` | per buffer a file name, a time, `bmodf` | find, read, revert, write, save all, exit |
| Shell pipes | `shell.c`, `z.c` | child, pipe, the buffer it fills, `shell_mark` | start, read, reap, kill, next error |
| Keyboard | `libz/kbd.c` | a ring of 16 bytes, the rewritable table of special keys | read, push back, match |
| Prompt line | `getarg.c`, `getfname.c` | the PAW buffer, completion list | prompt, complete, accept |
| Display | `display.c` | line marks of the screen, window starts | refresh, reframe, scroll |
| Commands and bindings | `commands.c`, `cursor.c`, `comment.c`, `bind.c`, `funcs.c`, `cnames.c` | `Arg`, `Argp`, `Lfunc`, `Keys` | about 130 commands |
| Variables | `vars.c`, `varray.c` | an array of settings | read, set |
| Calculator, life | `libz/calc.c`, `life.c` | a stack; a grid | evaluate; one generation |

### How they interact

Everything above the buffer library changes text through it: a command calls its
functions on `Bbuff`, the current buffer, synchronously.  Dynamic marks are the
shared state: window positions, the user's mark and the display's line marks are
on `Marklist`, temporaries are on their buffer's list, and every operation that
changes a page walks both lists.  Static marks (local variables) are on neither
list and are not adjusted.  `binsert` and `bdelete` call `undo_add` and
`undo_del`; `bsetmod` is a callback into the display.

The program has one thread.  What runs concurrently is the child process of
`shell.c` and the user: the main loop polls the keyboard and the pipe, and
SIGCHLD interrupts the poll.

### What is hard, and what makes it correct

* Buffer core: every operation must keep the page list, the point and all marks
  consistent, at the page boundaries above all.  A place between two pages has
  two representations: the end of one page and the start of the next.  Splits,
  `boffset` and moves make both.  Correct means: the buffer behaves as one flat
  sequence of bytes with positions in it, whatever the pages are.
* Undo: what it restores is the text before the command, although it records
  sizes, offsets and copies, clumps them, and keeps a mark that is not adjusted.
* Kill buffer and copy: source and target change together; marks of the target
  move, marks of the source do not.
* Files: a failed read or write leaves the buffer, its modified flag and the
  file in a state the user can go on from.
* Buffers and windows: no window, list entry or global refers to a freed buffer.
* Pipes: the child's output, its death and the deletion of its buffer come in
  any order; all output arrives, the child is reaped, nothing dangles.
* Keyboard: bytes pushed back are the bytes that were read, none lost.
* Editing: motion in rows, kills in rows, filling and brace layout depend on the
  command before and on the byte behind the text; they must not lose a word.
* Searching: no occurrence is passed over, at the ends of the buffer and of its
  lines above all; a replacement changes each match once and nothing else.
* Prompts: the answer returned is the one that was given, completed as far as the
  names agree, whatever the prompts before have left in static variables.

`PROJECT.json` lists these hazards at their lines.

## 2. The modules

| Module | Models |
|---|---|
| `BuffOps` | struct buff as a record and each function of the buffer library as an operator on it; the parts of well-formedness |
| `Buff` | the state machine: any call in any order, loops one iteration at a time |
| `TextBuffer` | the abstract specification: a text, a point, marks; no pages |
| `BuffText` | `Buff` with a history variable, and the refinement mapping to `TextBuffer` |
| `Bulk` | blocks, files and copies over the same pages, between any calls of `Buff` |
| `BuffOpsTheorems` | what each operator of `BuffOps` preserves, and what it does to the text |
| `BuffTheorems` | the inductive invariant and the theorems about `Buff`; that `BuffText` implements `TextBuffer` |
| `Undo` | `undo.c` over the pages of `BuffOps`: recording, clumping, `do_undo` one iteration at a time |
| `Keyboard` | the ring of `kbd.c`, `tgetkb`, `check_specials`, `tkbrdy`, and who types |
| `Shell` | the command in the *shell* buffer: `execute`, `checkpipes`, next-error, deletion of the buffer, exit, beside the child, the processes it leaves behind and the user |
| `FlatText` | a buffer as the commands see it: a text, a point, marks; motion, columns, insertion and deletion as operators |
| `Commands` | the commands of `commands.c`, `cursor.c` and `delete.c` as operators on that record and the kill buffer |
| `Editing` | the state machine over `Commands`: a user in one buffer, in one of six modes |
| `FindText` | the fast searches of `bmsearch.c` and the line-wise matching of `reg.c`, with what they do at the ends |
| `Search` | `srch.c`: the search commands, incremental search a key at a time, replace a match and an answer at a time |
| `Windows` | `Bufflist`, `Bnames`, `Curbuff`, the windows and the bookmarks |
| `Files` | buffers and the files on disk: saving, save all, write file, revert, exit, hang-up, and other programs that write |
| `Paths` | `pathfixup` and the directory lists of `getfname.c` |
| `Calc` | the operator-precedence parser of `calc.c`, a token at a time |
| `Prompt` | `getarg`, `getplete`, `getfname` a key at a time, over `FlatText`, `Paths` and `Calc` |
| `BulkTheorems`, `UndoTheorems`, `ShellTheorems`, `KeyboardTheorems`, `FilesTheorems`, `WindowsTheorems` | the inductive invariants and the theorems about `Bulk`, `Undo`, `Shell`, `Keyboard`, `Files`, `Windows` |
| `MC...` | the instances of these for TLC |

There are two views of a buffer.  `BuffOps` has pages and is used where pages matter: the
library itself and undo, which keeps marks into pages.  `FlatText` has none and is used
by everything above; the refinement of `TextBuffer` by `BuffText` is the reason that is
enough.  What a page adds for the commands is the byte `Buff()` reads at the end of the
buffer: `junk` in `FlatText`.  `Windows`, `Files` and `Shell` leave the text out, or keep a
version of it.

### The buffer record

`buf` is struct buff.  Its field `alive` is the set of pages that were
allocated and not freed; `data[p]` is the live part of `pdata`, so that `plen` is
its length; `mpage` and `moffset` are the marks of `buff->marks`, with `mpage` NIL
for a mark that was not created.  Pages of an address are reused after they
were freed, as calloc does.  `curcptr` is left out: it is always
`curpage->pdata + curchar`.

`Buff` has two more variables.  `call` is the looping call in progress: `bdelete` with
its local variable `curpage` and what is left of `quantity`, `bdeltomrk` with its
mark and `deleted`, `bmove` with `dist`.  `ret` is what the last call returned.
Functions without a loop that changes state are one action.  `bdelete` called
by `bdeltomrk` stays on the point's page and needs one iteration, which is made in
one step with `bdeltomrk`'s.

`bdelete` may use a page it freed: `BdeleteStep` then goes to the state "undefined",
from which no step is taken.  With `CrossPage` FALSE the caller deletes only bytes of
the point's page; with TRUE it deletes anything, and there are no marks, because
a mark past the end of a page makes `memmove` run over memory the model does not
have.

`Buff` is the library built without UNDO: the calls of `undo.c` are empty there.

### Undo

`Undo` uses the operators of `BuffOps` on a buffer whose only listed mark is
`do_undo`'s.  `undo_tail` is the list as a sequence, newest last.  A record has the
fields of struct undo and `before`, the text before the change it stands for, which
only the properties read.  Its mark is on no list: it keeps its page and offset
while the pages change, may name a page that was freed, and may name one that was
freed and allocated again.  The user inserts a byte (`Binsert`), deletes bytes of
the point's page (`Bdelete`), moves (`MovePoint`) or undoes.  `do_undo` is
`UndoStart`, then `UndoMove` and `UndoDelete` (iterations of `bmove` and `bdelete`) for an
insertion, or `UndoInsert` (a byte put back) and `UndoPop` (the `do` loop) for a deletion.
`Finish` is the return to `Zundo`.  What has no defined result is an end state: the
newest mark followed to a freed page or to none, `bdelete` on a page it freed, a
byte put past the end of a page.

### Keyboard

`tty` holds the bytes typed and not read, `ring` the static variables of `kbd.c`.  A step
of the program goes from one `_tgetkb` that may block to the next; `pc`, `j` and `mask` are
its place in `tgetkb` and `check_specials`.  The table of special keys and the rewriting
for ESC O are parameters; the instance has two keys.  `owed` is what was typed and not
yet returned as part of a key.

### Shell

One editor thread, whose place is `pc`: in `poll`, in a command (`dotty`), about to call
`readapipe` or `checkpipes`, in the loop that empties the pipe, or between `checkpipes`
and the `free` of `cdelbuff`.  A step ends where the editor may block or another process
may come between two of its calls.  `revents` is kept from `poll` over the command, as in
`execute`.  Beside it a child writes, closes its output, leaves processes behind that
hold the pipe open, and dies; the user types any command at any time, and `Exit` may
come at any point because `hang_up` is a signal handler.  Output is counted in lines,
some of which are errors that next-error finds.  `careful` records whether the user so
far waited for the command before next-error and before deleting the buffer, and
deleted it only after "No more errors".

### Bulk insertion and files

`Bulk` adds `bulk`, a copy or a write in progress, to the state of `Buff`.  What calloc gives to
one call is a sequence chosen with it (`Allocs`), NIL for failing at that place.  `bindata`,
`bappend`, `breadv` and `breadfile` are one step: nothing comes between their iterations, and what
they leave when memory ends is an outcome of the step.  `bcopyrgn` is a step per
chunk, so that its loop can be seen to go on, and a write is a step per page, each
of which may write less than it was given.  The source of a copy is the sequence of what
the region has on each of its pages: an empty first part is a point at the end of its page.

### Editing, searching

`ed` is the current buffer's record, with the kill buffer (`kill`), the static column of
`forcecol` (`fcol`) and `stuck` for a loop that does not end.  A command is one action, and
`lfunc` the one before it, as `dotty` keeps it.  `home` and `lost` are history: where a row
of line motions began, the text before a row of kills.  `fill` paragraphs are filled an
iteration at a time inside the operator (`FillStep`), and `stuck` is set when an iteration
changes nothing.

`Search` has up to two buffers (`bufs`, `cur`), the strings that are kept from one command
to the next (`olds`, `news`), `searchdir` with its wrap bit, and `cmd`, the command in
progress: for the incremental search its keys and the marks it goes back to, for a
replacement the place in `replaceone`, where it asks.  `was` and `last` are history.  A
regular expression is matched by `MatchEnds`, a function over the bytes `^ $ * (`, in
place of the C library's matcher.  A conversion in a replacement or in a search string
gives any of the texts `binstr` could make (`Formatted`).

### Buffers, windows, files

`Windows` keeps for each window what struct wdo does; a mark is a buffer and a place,
and on the list of a buffer.  zrefresh runs at the end of each action, since it moves
`Sstart`.  `strayed` records that the user aborted delete-buffer, after which the code
shows one buffer and edits another.

In `Files` a text is a version and whether it ends in a newline; `own` is the set of
versions a buffer has had.  A step ends at a question, and between `creat` and the writes,
where a signal, a failure or another program may come in.  `loose` marks what the code
itself does not know to be unsaved (section 5); `told` that the user was warned.
`hang_up` writes every modified buffer at once: no two have one file, so the order does not
matter.

### Prompts

`e` is the buffer Paw, `First`, `Cret` and `InPaw` are the variables of `getarg.c`; `Cret` may
hold anything at the start, since it is static.  A key is one action, with what dotty
does after it.  The disk is a function from sequences of names; it stays as it is while
a prompt is open, which makes `Flist`, the cached list, a function of the directory.

`Calc` has the two stacks and the expression, in which the code overwrites each number by
`N`.  Tokens replace characters; integers have `W` bits; doubles are fractions, which the
code would round.  `Means` is the reference: the grammar of C's operators, and their value
from the inside out.

## 3. What the runs show

| Run | Instance | Question |
|---|---|---|
| `text` | 3 pages of 2 bytes, 2 marks, 2 byte values, text up to 4 | Do the list, the point and the marks stay right in every state, in the middle of a loop too, and does the buffer implement `TextBuffer`? Yes. |
| `loops` | 3 pages of 2 bytes, 1 mark | Do the loops end? Yes, but for `bdeltomrk` at the end of a page that is not the last. |
| `bulk` | 3 pages of 2 bytes, text up to 3, 1 mark, 2 byte values, no memory at any time, writes cut short anywhere | Do blocks, files and regions go in at the point in one piece, and does the file hold the text? Yes, but for copies from the end of a page that is not the last. |
| `undo` | 3 pages of 2 bytes, text up to 4, 4 records, single-byte edits, no memory for a mark at any time | Does each record say exactly what changed, whichever pages are split or freed under its mark, and does undoing it give the text back? Yes, of a user who does what `Plain` says. |
| `keyboard` | ring of 4, at most 2 bytes typed ahead, 2 special keys, ESC O A | Is every byte returned once, in order, and does `check_specials` end? Yes. |
| `shell` | 2 children, 2 buffer addresses, reads of 2 lines, up to 3 lines of output | Does all output arrive, is every child waited for, does `execute` never block in `read`? Yes, whatever is typed. Is nothing freed used? Yes, as long as the user is careful. |
| `edit` | texts of up to 4 bytes, up to 3 commands; three words for filling | Do rows of motions and kills compose, does filling keep the words, end and fit, are braces aligned? Yes, with the exceptions the properties name. |
| `windows` | 3 buffers and the prompt's, up to 4 windows, 6 commands, two heights of the terminal | Is a deleted buffer nowhere, do the windows tile the screen, does the current one show the current buffer, is the point kept? Yes. |
| `bookmarks` | the same, 8 commands | Is a bookmark on the list of its buffer? No: one that is used again is not. |
| `files` | 2 buffers, one with a file, a second file, a disk that others write, 4 versions, 2 calls | Is a buffer shown as unmodified in its file, does work survive exit and hang-up, is the user warned? Yes, but for what `loose` names. |
| `search` | texts of up to 4 bytes, strings of up to 3, both directions, up to 3 commands or 4 keys | Is nothing passed over, is what is shown found, does again come round, is each match replaced once and a refused one put back? Yes. |
| `prompt` | arrays of up to 4 names, 4 keys; a disk of 8 files, paths of up to 6 characters; expressions of up to 5 tokens | Is the name returned the one given, completed in full, the path the one meant, the value right? Yes. |

### Bounds

PGSIZE is 2, the least even size: every page boundary is then one
or two bytes away and a text of 4 has every kind of neighbour: full, half full,
first, last, only.  A text of 4 in pages of one byte would need 4 pages: with 3,
`BinsertNoMemory` is taken as well.  Two marks are enough to have one on each side of
a boundary, or two at one place; `Mrktomrk` needs two.  `MaxText`, `MaxMove` and
`MaxDelete` bound only the arguments of calls and the growth of the text.  Pages
and marks are symmetric: no operation orders addresses.  The liveness run uses
no symmetry.

In `bulk` three bytes on three pages are enough for a block over two page ends, a split
page that is filled up, and one call that runs out of pages; `Bmove` goes by one.
`Inserted` is stated for each chunk of a copy, so that longer regions add nothing.

In `undo` four records and a text of 4 on pages of 2 let a clump run over two splits, a
deletion empty a page, and three records be undone in a row.  `Plain` names what the
run leaves out because `undo.c` does not cope with it (section 5): edits between two undos,
undoing an insertion that lies on two pages, and two deletions in a row that are at
one offset and not clumped.  `MaxDelete` is 1: of a clumped deletion of several bytes
one is recorded, and `RecordExact` fails with `MaxDelete` 2.

The ring of `keyboard` is 4 long, not 16, so that it wraps within one key; `Burst`, the
bytes typed before a read, is CSTACK - 2 there.  `check_specials` holds the ESC and at
least one byte more that it may push back; with one byte more typed a read fills the
ring and the ESC is lost.  In `shell` two addresses make a new buffer possible at the old
one's address or at another; two children are what it takes for one to be forgotten;
three lines and reads of two make the emptying loop go round.

In `edit` every mode has its own alphabet: the bytes its commands tell apart.  The tab
stop is 3 and the screen 11 columns, so that a tab meets the edge; `FillWidth` is 4, so
that words of one, two and five letters fit, just fit and do not.  Three commands
make a row with something in between.  In `windows` MINWDO is as in the code and the
heights let a window be split twice; with two places a point can move and be found
again.  `files` needs two calls: one that leaves a trace (a failed save, the answer `!`) and
one that meets it.  `MaxTime` 2 makes a file newer than the last read, and the same
second too.  In `search` four bytes over two letters contain overlapping occurrences,
one at either end, and none; `LINE`, the array of `reg.c`, is longer than the longest
line: what happens beyond it is left out.  In `prompt` the array lengths cover one
name, several with a common beginning in other letters' case, and a name that
is the beginning of another; the directories have one, two and no matches, an object
file, and a directory to be completed with a slash.  PAWMAX, 8 columns, is reached.
With `MAX_OPS` 4 the stacks overflow within the lengths checked; 10 in the code.

`CHECK_DEADLOCK FALSE` stands where the behaviour may end: an undefined
result, the exit of the editor or the answer to the prompt, or the bound on the number
of commands.  In `text`, `loops` and `keyboard` TLC checks that there is no deadlock.

### Fairness

`Buff`'s `FairSpec` adds weak fairness of `LoopStep`, the code of a call in progress.  The
program has one thread and the loops do not wait for anything, so a call that
can take a step takes it.  Nothing is assumed of the caller.  In `Keyboard` the program
goes on with a key once it can, and nobody has to type.  In `Files` the editor goes on
with a save, and a question that is asked is answered, by any answer there is; neither
the disk nor another program has to do anything.

In `Shell` the editor goes on where it does not block: it takes what `poll` reports, ends
the commands it runs, and handles the keys it read ahead.  Nothing is assumed of the
keyboard.  Of the other processes only this is assumed: one that was sent SIGKILL
dies.  A command need not end, and need not write.

### The refinement

`BuffText` maps the pages to one text: `Before(b, p)`, the sum of the lengths of the pages in
front of page p, as `blocation` counts it, plus an offset is the place of a page and an offset,
and the i-th byte of `Text` is that of the page that holds the place i (`Holder`).  A looping call is one
step of `TextBuffer`, taken when it returns, so `was` keeps the text, point and
marks of the last return.  `TextBuffer` leaves one thing open: a mark at the point
may be pushed by an insertion or not.  In the code `binsert` does not push it, except
that after a split the mark may be at the start of the new page while the point
is at the end of the old one.

## 4. What is proved

Eight modules hold theorems and the lemmas they rest on.  Each is stated for every value
of the constants that satisfies the assumptions named with it; the run of the same
property shows it on a small instance.

| Theorem | Property | Module |
|---|---|---|
| `Invariance`, and `TypeCorrect`, `PagesStayIntact`, `PagesStayUsed` from it | `BuffInv` | `BuffTheorems` |
| `MarksStayIntact` | `MarksIntact` | `BuffTheorems` |
| `PagesImplementText` | `TextSpec`, if not `CrossPage` | `BuffTheorems` |
| `BulkStaysWellFormed` | `BulkInv` | `BulkTheorems` |
| `BlocksGoInWhole` | `Inserted` | `BulkTheorems` |
| `FilesHoldTheText` | `WritesText` | `BulkTheorems` |
| `NewestRecordIsExact` | `RecordExact`, if `Plain` and `MaxDelete` is 1 | `UndoTheorems` |
| `UndoneInsertionIsGone` | `UndoRemoves`, under the same conditions | `UndoTheorems` |
| `UndoneDeletionIsBack` | `UndoBringsBack`, under the same conditions | `UndoTheorems` |
| `TypeCorrect` | the types of `Shell` | `ShellTheorems` |
| `NoChildIsLost` | `NoLostChild` | `ShellTheorems` |
| `ExecuteNeverBlocks` | `ExecuteDoesNotBlock` | `ShellTheorems` |
| `PipebuffStaysLive` | `PipebuffLive` | `ShellTheorems` |
| `NoOutputIsLost` | `AllOutput` | `ShellTheorems` |
| `NoByteIsLost` | `NothingLost` | `KeyboardTheorems` |
| `KeysInOrder` | `InOrder` | `KeyboardTheorems` |
| `CleanBuffersAreOnDisk` | `CleanOnDisk` | `FilesTheorems` |
| `WorkIsSaved` | `WorkSurvives` | `FilesTheorems` |
| `LossIsWarnedOf` | `WarnedBeforeLoss` | `FilesTheorems` |
| `BuffersAndWindowsAgree` | `ListsAgree` | `WindowsTheorems` |
| `WindowKeepsItsPlace` | `ReturnsToPlace` | `WindowsTheorems` |
| `FourWindowsTile` | `WindowsTile`, if `MaxWindows <= 4` | `WindowsTheorems` |

### The buffer library

For every PGSIZE that is even and above 0, every set of pages, marks and bytes
and every bound on the calls (assumptions `PageAssumption`, `ByteAssumption`,
`PGSIZEAssumption`, `BoundsAssumption`, `CrossPageAssumption`).  The theorems hold for
both values of `CrossPage`: deletions over page boundaries keep the list too, until a
freed page is used; TLC runs only the value FALSE.

`PagesIntact` is not inductive.  That the point stays inside its page depends on what
is deleted from it; that a page taken from the list leaves a list behind needs
the page to have a neighbour, and that comes from the test in `bdelete`; that no
mark is lost with a page needs the marks to have been on pages of the list.
`BuffInv` is the conjunction of `WellFormed` (the list, reachability, lengths, the
point, the marks), of `PagesUsed`, and of `CallInv`, which relates `bdelete`'s local
page to the point.

That every allocated page is in the list is stated without recursion
(`Reachable`): a set of pages that holds `firstp` and the successor of each of its
pages holds all pages.  `NewPage` and `FreePage` prove it is kept, by adding the new
page to, or taking it from, such a set.

`BuffOpsTheorems` has one lemma per operator: `NewPage`, `FreePage`, `PageSplit`,
`BinsertWellFormed`, `DeleteEntirePage`, `BdeletePage`, `PointMove`, `MarkMove`, `SimpleMoves`,
`BemptyWellFormed`, `BcreateWellFormed`.  `BuffTheorems` has one lemma per group of
actions.

### The text of the pages

`PagesImplementText`: `HSpec => TextSpec`, for the same constants, if `CrossPage` is FALSE and NIL is
no number (`NILAssumption`).  With TRUE it does not hold: `bdelete` may leave the point on a page
before the one it deleted from, or use a freed page.

What a buffer's pages hold is defined from the links alone, by a function on pages that adds up
the pages before (`Summed`), and so it can be reasoned about at any length of the list:

* `Summing`: in a list that `Reachable` speaks of, that function exists and is the only one that
  counts along the links.  By it each page has a rank and a place in the text of its own
  (`Ordered`, `InOrder`), each byte of the text is in one page (`Covered`, `OneHolder`), and
  `TextIs` says when a given string is the text.
* `PageSpliced`: when one page's bytes change, the text changes at that page's place and
  the pages behind it move.  `PageParted` and `EmptyFreed`: a page that is split or that is
  freed empty leaves the text alone.  From them `BinsertGrows` and `BdeleteShrinks`: what an
  insertion and one turn of `bdelete`'s loop do to the text and to each mark, the ones in the page
  that is split or freed included.
* `MarkSides` and `AmountFits`: `bisaftermrk` and `bisbeforemrk`, which compare pages, compare
  places.

A step of the pages is a step of the text only when a call returns, and what `bdeltomrk` has
deleted by then, it deleted page by page, forwards or backwards.  So the invariant is
`Sound(FALSE) /\ Seen`, where `Seen` relates the buffer during a loop to what the caller saw
when it started, `was`: for `bmove` the text and the marks are the same, for `bdelete` nothing was done
yet, and for `bdeltomrk` (`Cutting`) the text is the caller's without some first part of what is
between point and mark, the point is at the lower end of it, every other mark is where
that cut alone would leave it, and the mark of the call is still at the end of the rest.
`CutBegins`, `CutMore` and `CutEnds` are its three steps; `SplicedTwice` and `ClosedTwice` say
that two cuts at one place are one.  Without the other marks' places in it, the invariant
would not give the marks when the call returns; without `Sound`, the page a
mark is on could be gone.

### Blocks, files and regions

For the same constants as the library and any data, regions and `MAX_IOVS`
(`BulkAssumption`).  The invariant is `BulkSound`: `Sound`, which is what a step of `Buff` keeps
of its buffer, for a buffer that may have empty pages (`Sound(TRUE)`) and, unless `gap` is set,
for one that has none but where deletions leave them (`Sound(CrossPage)`); that the
library is not called while a copy or a write is in progress; and `CallInProgress`: a copy
has a part left, a write is at a page of the list.

* A page's bytes: `PageChanged` says what a change of the point's page needs to leave the
  buffer well formed; `FilledWellFormed` and `Widened` are its uses, with marks that stay or move.
* The loop that opens a page for each chunk: `PageAdded` for one turn, `LoopExtends` for all,
  by `UpTo` over the results of calloc, of which each is a free page given once (`Given`).
  `Extends` says that no page of before is lost or gets shorter, so that breadfile may go back
  to where the file starts, and that every page is used.
* That no page is left empty: `Fillable` allows one empty page, the current one, if there is
  data to put there.  `SplitAtPoint` and `PageForFile` show that a split gives such a buffer, but
  where `gap` says it does not.

`BlocksGoInWhole`: `BulkSpec => Inserted`.  What the calls put in is the front of what they were
given, in one piece at one place, and each mark moves as if it was typed.

* `Grows(b, c, at, z)` says that of two buffers.  It is shown of each way in which a page takes more
  bytes (`WidenedGrows`, from `PageSpliced`) and of each operator: `BindataGrows`, `BappendGrows`,
  `FileGrows`, `VectorGrows`; `GrowsGrown` makes it what `Inserted` says.
* Between the pages of one call the point is at the end of its page, and what comes next goes
  behind that page, whatever follows in the list.  So the loop keeps more than `Grows`:
  `Longer`, which has the places of the other pages in it, and which of them are behind the
  point.  `PageAddedPut` is one turn, `NewPagesPut` all, by `UpTo` over `Put` (the front is in
  the text, the rest is left); `LongerGrows` gives `Grows` for the marks once the loop is over.
* For a copy, `Copying` is kept with `BulkSound`: what is left of the region, flattened, is what
  comes after the bytes copied so far.  Without it a chunk would be some bytes, not the next ones.
  `Flattened` unfolds the community module's `FlattenSeq` by `Recursion`, and `MovedOnward`
  says what is left after n bytes of its first page.

The proof did not go through for an earlier `Inserted`, which had a `breadfile` that fails put
its bytes at the point: if the point's page cannot be split, and the memory for a later page is
missing too, they are behind that page (TLC with `MaxText` 4).  `Inserted` now allows both places
for a file that was read in part.

`FilesHoldTheText`: `BulkSpec => WritesText`.  A page has the bytes of the text from its place on
(`PageOfText`), so each thing written is what lies between two places (`Between`), and what was
written before it ends where it begins.  `Writing` says so of the file at each step: it has the text
up to the page that is next, or, once a write failed, less than all (`ShortOf`); `bwritev`'s has
what the point has moved over.

* That the CRs come out right page by page is `WrittenJoined`, from `FlattenedJoined`: sequences of
  strings that are put together flatten to what each flattens to.
* `AheadIs`: what `bwritev` gives to one system call, from up to `MAX_IOVS` pages, lies behind the
  point without a gap.  It follows `bwritev.c`'s loop over `pg->nextp` by `Recursion`.

`bwritev` that is asked for more than there is writes 0 bytes for ever.  That is a step that
changes nothing, and so neither `WritesText` nor the theorem speaks of it: each other step
leaves fewer bytes to write.

### Undo

`RecordExact`, `UndoRemoves` and `UndoBringsBack` are proved for every page size, for texts,
records and lists of every length, and for every place of the point between two calls.  The
conditions are those of the run, and each leaves out what `undo.c` does not cope with
(section 5): `Plain`, `MaxDelete = 1`, and `MemoryLasts`: while a deletion is undone, a byte that
does not fit its page finds a new one.  (`do_undo` does not look at what `binsert` returns, so that
a byte that finds none is lost.  In the run three pages always suffice.)

The invariant is `UndoInv`.  `RecordExact` alone is not inductive: of the newest record it says
nothing while it is being undone, and nothing of the record below it.

* `Good`: each record, applied to the text the next one goes back to, gives the text it goes
  back to itself (`Joins`), and no two deletions in a row are at one offset.  So what is left is right
  again when a record is taken off, and `do_undo`'s loop does not go on to a second one.
* `Marked`: until something is undone, the newest record's mark is at the record's offset, if
  its page is still there; that of an insertion always is.  This is why clumping is right: a mark
  that is moved by the size of the change and meets the point (`bisatmrk`) says that the offsets
  are neighbours (`ClumpMark`, `MovedMark`).  A page that was split under the mark does not
  break it: `Shifted`, a part of `BinsertGrows`, says that a place on a page, as an offset, is
  moved by the length of the insertion or not at all.
* `Removing`, `Restoring`: where `bmove`, `bdelete` and the loop of `binsert` are.  What is not put
  back yet, put in at the point, makes the text to go back to (`Rest`).
* `AddKeeps` and `DelKeeps` are the two ways to record a change.  They rest on equations
  between strings that are cut and put together (`PutAndTaken`, `TakenAndPut`, `PutInTurn`), which are
  proved once and then used without looking into the strings.

What has no defined result (`Wild`) ends the behaviour.  The theorems allow it, and do not show
that it cannot happen: the newest mark may be on a page that was freed.

### Shell pipes

For any number of processes and buffers (`PidAssumption`, `ShellBounds`).  None of the
properties is inductive, and each fails for a reason the code takes care of:

* `NoLostChild` says that `_cmdtobuff`'s test of the child is enough.  It needs `PipeWhole`
  (the variables of `shell.c` are set and cleared together) and `DrainInv`: the pipe is
  emptied only after the child was waited for, by a function that ends with the
  child forgotten.
* `ExecuteDoesNotBlock` needs `ReventsInv`: where the `revents` of the last `poll` is still
  used it is true only of a pipe that is readable or was closed.  A command may
  close the pipe but cannot open one on top of it.
* `AllOutput` needs `LinesInv`, out = got + fill, up to the freeing of the buffer.
* `PipebuffLive` needs `DeleteInv` (a careful user does not wait in `cdelbuff` for a child) and
  `MarkInv` (where `shell_mark` is used, it was made and its buffer lives).  The property
  says both that `pipebuff` is the live *shell* buffer and that no freed or missing mark
  is used.

### Keyboard

For any ring, table of special keys and rewriting (`CSTACKAssumption`,
`ByteTableAssumption`), and for bursts that leave room for the bytes of a key that was
begun (`BurstAssumption`: without it the property is false, section 5).  `KeyInv` puts
what was typed and not returned into one window: the bytes of the key in progress,
which lie before `cptr`, the `cpushed` bytes from `cptr` on, and the terminal.  Reading
extends the window at one end, taking a byte moves `cptr` in it, pushing back moves it
to the left, and returning a key cuts it at the other end; a lemma states each of
these once, for any slot modulo CSTACK.

### Files

For any buffers and files, texts, times and commands (`FilesAssumption`), and a
start in which no two buffers have one file (`FnameAssumption`: `findfile` goes to the
buffer a file has).  `FilesInv` is the conjunction of the types, `DataInv`, `CallInv` and
`EndInv`:

* `DataInv`: no two buffers have one file; the version on disk is not later than the last
  version there is; the file is not older than the buffer thinks; a buffer shown as
  unmodified is on disk, or another program wrote its file since, or it is `loose`.  The
  first is what makes the last survive a save of another buffer.
* `CallInv` says what a step that was begun knows: that a buffer whose file has been
  emptied is marked, which versions a check of the time has seen, where "save all" began.
* `EndInv`: how the editor may have ended with text that is not saved.

The action property `WarnedBeforeLoss` follows from `CallInv`: a file of equal time is
either the one the buffer wrote or was written in the same second, the exception the
property names.

### Windows

For any buffers, names, files at the start, heights of the terminal, bound on windows
and number of commands (`WindowsAssumption`, `SizeAssumption`, `ArgsAssumption`).
`WindowsInv` is `Settled`, with the types of the bookmarks (`Rest`) and, for up to four
windows, `Fits`:

* `Listed`: `Bufflist` and `Bnames` have each name once, the latter sorted, and the same names
  but for the prompt's.
* `Shows`: a window is of a listed buffer and its point and mark are in it.
* `Between`: both, at any place between two calls inside a command, where `Curbuff` and the
  window may be of different buffers.  `Settled` adds that the current window
  shows the current buffer, unless the user aborted delete-buffer (`strayed`).

Each function of `bcmds.c` and `window.c` has a lemma that says what it makes of `Between`
or `Settled`, each action one that puts them together.  `delbuff` is the difficult one: a
window of the deleted buffer is given another before the buffer is taken off, by
functions that look at the list.

Sizes are told apart from contents.  A step keeps all sizes (`SameSizes`), halves a window
(`Halves`), moves a border (`Edge`) or resizes all (`Resizes`), and `Tiles` is kept by each.
In `do_wsize` a pass keeps "the windows tile, `Left` lines from the goal" (`Goes`).  To
shrink them, a window's height is compared with the lines counted twice that the ones
above gave: up to three, for the fourth window, which leaves it a line.  With
five windows this fails (TLC: `MaxWindows` 5, `Rows` {40, 25} and six commands leave one
without a line), so the theorem's bound is the code's, not the proof's.

### How recursion and induction are written

The library's induction theorems take an operator as a parameter, which the provers
cannot instantiate.  Three lemmas go round that with sets: `LeastNumber` (from
`WFMin` and the order of the natural numbers), from it `UpTo` (a set with 0 and with
each number the next has all), and `Recursion`: a function that is defined by its value
at 0 and a step from n to n + 1 exists, and has each property that 0 has and the step keeps.
`BulkTheorems` and `WindowsTheorems`, which extend nothing in common, both have them.
`after` of `Passes`, `taken` and `added` in `Windows`, `after` of `InNewPages` and `iovs` of `Ahead` in `Bulk` are of that
kind, and so the models have recursive
functions over 0 .. n where a fold would do: most folds of the community modules choose the
order themselves and cannot be unfolded.  `FlattenSeq` goes from first to last, and `Flattened` unfolds it.

### Only model-checked

* Liveness, which needs fairness and ENABLED: `CallsReturnOffSeam`, `SpecialsEnd`, `Reaped`,
  `CallEnds`.
* `Editing`, `Search`, `Prompt`, `Calc`.  They are about what recursive functions over texts
  compute, and `Calc`'s numbers use bit operations the provers have no theory of.

## 5. Where code and documentation differ

One has a run that shows it:

* `tags.c:31` (`bookmarks`): a bookmark that is used again in another buffer stays on the
  list of the first: it is not moved by changes, and deleting the first buffer does not
  get past it.

The rest was met in the code while it was modelled.  The models do as the code does,
and where a property has an exception for it, the property says so.

Buffer library and undo

* `bdeltomrk.c:24`: at the end of a page that is not the last the loop deletes 0 bytes for
  ever.  `bcopyrgn.c:28`: the same for a region that starts there.  One byte typed
  in the middle of a full page brings the point there.
* `bdelete.c:39`: deleting over a page boundary uses the page the deletion started
  on.  "aaa" on two pages of two bytes, delete 2 at place 1: everything is deleted.
  `Zdelete_char` with an argument, undo and replacing strings call it so.
* `bmove.c:38`: 0 is returned for a full move that ends at the end of the buffer;
  `bmove.c:14` says 1 if the full move was possible.
* `buff.h:290`: `bmove1` from the end of a page that is not the last only changes the
  representation of the place.
* `breadfile.c:60`: reading a file at an end of the point's page, or an empty one, leaves
  an empty page behind, which `bpeek` does not expect; that `pagesplit` had no memory is
  not looked at, and the file then comes behind the page.
* `bindata.c:77` and `breadv.c:22` do not set `bmodf`; `bwritev.c:50` loops for ever if it is asked to
  write more than there is.
* `bwritefile.c:95` says 0 is returned on success: it is 1.
* `undo.c:99`: `del_clumped` moves the mark of the newest record back even if the deletion
  is not clumped with it.  Type "abc", delete "c", delete "a", undo, delete both: the
  record's offset is 1, the text is empty, and the next undo inserts past the end of the page.
* `undo.c:173`: of several bytes deleted at once and clumped one is recorded.
* `undo.c:222`: deletions at one offset that were not neighbours are undone together, in
  the wrong order.
* `undo.c:67` and `undo.c:101`: the mark of the newest record may be on a page that was
  freed, or on none.  `undo.c:215`: `in_undo` stays set when there is no memory for the mark.

Keyboard and shell

* `libz/kbd.c:120`: a read may fill the whole ring while `check_specials` holds bytes it
  will push back: the ESC is lost.
* `libz/kbd.c:184`: after ESC O alone the byte looked at is one of an earlier read, and the
  key table is changed for it.  `Pending` stays 1 after a special key whose ESC was read
  alone, so that `tkbrdy` says a key is waiting when none is.
* `bcmds.c:391`: `cdelbuff` kills the child and calls `checkpipes`, which does not wait for it.
* `shell.c:153` says that the read will not block because the child is dead: it does if a
  process the child left behind has the pipe open.
* `shell.c:403`: errors that arrive after "No more errors" find no `shell_mark`;
  `shell.c:24`: after the buffer was deleted `shell_mark` is a freed mark.
* `commands.c:478`: "make sure waited for ALL children" does not wait.

Editing

* A line of `}}` in C mode: `lookingat` leaves the point behind what it matched, and
  `Zc_indent` indents two or five columns too many.
* Past the edge of the screen a tab has a negative width.
* `bmovepast` backward from the start of the buffer moves forward; `bmoveto` backward never
  tests the first byte.
* Filling splits a first word that is longer than a line, and fill-paragraph goes on
  for ever over a CR.
* `Zindent` leaves a tab above the region, `Zuntab` eats spaces with `SpaceTab`, `Zswap_chars`
  in an empty buffer inserts the byte behind it, `do_close_bracket` leaks its mark, `Zcount`
  sets the user's mark to the point.
* Kills backward one after the other are put into the kill buffer in the wrong
  order; delete-to-eol at the end of a line is not a kill.
* `Zmeta_x` puts a key's function into `Lfunc` whose key is the number of the function.

Buffers and windows

* delete-buffer with an argument, aborted at the question, leaves `Curbuff` in no window;
  `*paw*` is in `Bnames`, and switching to it then follows a null pointer.
* `do_wsize` counts lines twice that the windows above give up: of five windows one may
  get no line (section 4).
* `tags.c:31` as above.

Files

* `save_all` stays set after the answer `!`, until the editor ends.
* `hang_up` tests the name of the current buffer and uses its CR flag for all buffers.
* A failed save of a buffer that is not modified has emptied the file, and the buffer still
  counts as saved; so does one that write-file gave another name before it failed.
* write-file with an argument saves all buffers.  A read error in the middle of a
  file is taken for its end.  Revert never clears FILE_CRLF, and empties the buffer if
  the file is gone.
* Times are compared in whole seconds, and a file of a new name is overwritten without
  a question.
* `_getarg` returns a bool: ABORT (-1) becomes 1, which is not told from other answers.
* `commands.c:1181`: after a save, undoing everything leaves a text that differs from the
  file and is marked unmodified.

Searching

* `bmsearch.c:63`: the slow loop backs up over the start of the buffer, and from the
  point to bytes that lie before it: "aa" is found in "ab cd" at place 2, and `n` in
  query-replace of a string of two bytes or more offers the same match for ever.
* `bm_rsearch` misses the string at the start of the buffer; for one byte it does not
  move.  `Zagain` of a search backward wraps to the start of the buffer.
* An empty answer to a search prompt empties the string of the search before, and again
  with the wrap bit set then never ends; an incremental search that ends empty
  empties it too, and may jump back.
* Refusing "Confirm?" after a match in other letters' case puts back what was typed in the
  prompt.  ^G at "with:" replaces with nothing.  `u` twice, or at the first match,
  changes bytes that were no match.  `s` ends the replacement as `q` does.
* A replacement is given to `binstr` as a format, and so are the names `makepaw` shows.
* A replacement for a regular expression that ends in a backslash reads past its
  end; an expression that matches nothing in the middle of a line is replaced for
  ever; skipping goes on one byte too far.
* A key typed ends a replacement of all matches without a word.

Prompts and calculator

* `getarg.c:29` says the argument is not overwritten by an empty answer: it is.
* `pathfixup`: "a./b" becomes "ab", a last part that ends in ".." takes itself away
  ("/usr/a.." becomes "/usr/"), "/." at the end stays, and "/.." at the start steps back
  in front of the path.
* A new file directly under "/" is "Invalid path", and in "/" no part of a name is completed.
* The slash of a completed directory comes at the point, not at the end.
* Names are completed ignoring case, with the case of the first.
* Calculator: an unmatched ")" reads in front of the stack, "2 3", "(1" and "2(3)" are
  accepted, one < or > is a shift, a division by 0 of integers traps.

## 6. Plan

Modelled: all of the editor that keeps a text, a list of buffers or windows, a file, a
prompt, keys or a child, but for the parts in section 7.  Next:

1. Proofs: `PathFixed` of `Paths`, with the lemma on recursive functions.
2. `Undo` over `Bulk`: the records of `bindata` and of a yank, and `undo_clear`.
3. The links of the mark lists with `freemark`; static marks across `binsert`, as
   `zwritefile` and `readapipe` use them.
4. Tag files and grep over `FindText`; the line marks of the display.

## 7. Not modelled

* The display, but for `makepaw` and the framing of windows: its state is a cache of what the
  terminal shows.  Escape sequences, the loss of the terminal, `tdelay`.
* Reading and setting variables, the tables of keys and commands: data.
* The tag file, grep, the game of life, spell checking (SPELL 0), huge files
  (HUGE_FILES 0), compressed files (ZLIB 0).
* The regular expression matcher for Windows: the build modelled uses the C library's.
  The Windows port as a whole.
* Of undo: `undo_clear`, failing allocation of records, the records of blocks.
* Of the shell: what counts as an error line, how a command is split into words, and the
  variant without DOPIPES.
* Of the buffer library: the links of the mark lists and the one-mark cache; formatting.
* Commands that only show something, such as count-words' answer or the position.
* `delete-blanks` with an argument, which deletes every blank line of the buffer.
