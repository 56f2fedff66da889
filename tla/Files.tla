------------------------------- MODULE Files -------------------------------
(***************************************************************************)
(* Buffers and their files: saving one or all, leaving, reverting and the  *)
(* hang-up signal (src/file.c, src/commands.c, src/zterm.c,                *)
(* src/buff/breadfile.c, src/buff/bwritefile.c), with the files on disk,   *)
(* which other programs write too.  A text is a version and whether its    *)
(* last line ends in a newline.  A step of the editor ends where it asks   *)
(* the user, and between creating a file and writing it: there another     *)
(* program or a signal may come in.                                        *)
(***************************************************************************)
EXTENDS Integers, Sequences, FiniteSets

CONSTANTS
  Bufflist,  \* the buffers in order
  SYSBUFF,   \* those that are not for files
  File,      \* paths
  NIL,       \* no file
  NONE,      \* a file that does not exist
  Had,       \* what files there may be at the start
  Linked,    \* which of them may have a second link
  Fname,     \* the files the buffers may be started with
  MaxTexts,  \* bound: versions of texts
  MaxTime,   \* bound: seconds
  MaxCalls   \* bound: commands

Buffer == {Bufflist[i] : i \in DOMAIN Bufflist}

\* A version, and whether the last line ends in a newline.
Text == [v : 0 .. MaxTexts, nl : BOOLEAN]

ASSUME FilesAssumption ==
  /\ Bufflist \in Seq(Buffer) \ {<<>>} /\ SYSBUFF \subseteq Buffer
  /\ NIL \notin File /\ NONE \notin [text : Text, mtime : Nat]
  /\ MaxTexts \in Nat /\ MaxTime \in Nat \ {0} /\ MaxCalls \in Nat
  /\ IsFiniteSet(File) /\ Cardinality(File) <= MaxTexts
  /\ Had \subseteq SUBSET File /\ Linked \subseteq SUBSET File

\* No two buffers are started with the same file.
ASSUME FnameAssumption ==
  /\ Fname \subseteq [Buffer -> File \cup {NIL}]
  /\ \A fname \in Fname, b, c \in Buffer :
       b # c => fname[b] = NIL \/ fname[b] # fname[c]

VARIABLES
  disk,     \* what each file holds, and when it was changed
  linked,   \* files with a second link
  buf,      \* the buffers
  cur,      \* Curbuff
  save_all, \* the static variable of promptsave
  call,     \* the command that runs: where it is and what it has left to do
  now,      \* the second
  fresh,    \* the last version of a text
  calls,    \* commands so far
  out       \* "running", "exited" or "hung up"

vars == <<disk, linked, buf, cur, save_all, call, now, fresh, calls, out>>

EMPTY == [v |-> 0, nl |-> FALSE]

\* What is written now; a file that was cut is as good as empty.
Content(t) == [text |-> t, mtime |-> now]

\* The buffers' record: fname, text, bmodf and mtime; first is the text
\* that undoing everything brings back; own and loose are history: the
\* versions it has held or put in the file, and that "unmodified" was said of
\* a text not read or written whole.
Opened(f, d) ==
  [file |-> f, text |-> IF d = NONE THEN EMPTY ELSE d.text, modf |-> FALSE,
   mtime |-> IF d = NONE THEN 0 ELSE d.mtime,
   first |-> IF d = NONE THEN EMPTY ELSE d.text,
   own |-> IF d = NONE THEN {} ELSE {d.text.v}, loose |-> FALSE]

Idle == [at |-> "idle", todo |-> <<>>, must |-> FALSE, start |-> NIL, then |-> "done",
         nlink |-> FALSE, told |-> FALSE, checked |-> 0]

Modified == {b \in Buffer \ SYSBUFF : buf[b].modf}

-----------------------------------------------------------------------------
(* How a command goes on. *)

others == <<linked, save_all, now, fresh, calls>>

\* saveall begins.
SaveAll(must, then) ==
  [Idle EXCEPT !.at = "promptsave", !.todo = Bufflist, !.must = must, !.then = then,
               !.start = cur]

\* filesave has returned: to promptsave, which goes on or makes saveall fail, or
\* to save-file, after which save-and-exit exits whatever came of it.
AfterSave(ok) ==
  CASE call.then = "zexit" /\ call.todo = <<>>        -> SaveAll(call.must, "quit")
    [] call.then # "zexit" /\ call.todo = <<>>        -> Idle
    [] call.todo # <<>> /\ ok                         ->
         [call EXCEPT !.at = "promptsave", !.todo = Tail(@), !.told = FALSE]
    [] call.todo # <<>> /\ ~ ok /\ call.then = "zexit" -> SaveAll(TRUE, "quit")
    [] OTHER                                          -> Idle

\* saveall is through and goes back to the buffer it began in.
AfterAll ==
  CASE call.then = "zexit" -> [SaveAll(TRUE, "quit") EXCEPT !.start = call.start]
    [] call.then = "quit"  -> [Idle EXCEPT !.at = "quit"]
    [] OTHER               -> Idle

\* promptsave with a bug: an answer of no is asked for again.
promptsave_again(b) ==
  /\ call' = [call EXCEPT !.at = "promptsave"]
  /\ UNCHANGED <<cur, save_all>>

\* The user says no to saving buffer b.
promptsave(b) ==
  /\ call' = [call EXCEPT !.at = "promptsave", !.todo = Tail(@)]
  /\ UNCHANGED <<cur, save_all>>

Promptsave ==
  /\ call.at = "promptsave"
  /\ UNCHANGED <<disk, buf, others, out>>
  /\ IF call.todo = <<>> THEN cur' = call.start /\ call' = AfterAll
     ELSE LET b == Head(call.todo)
          IN \/ /\ b \in SYSBUFF \/ ~ buf[b].modf
                /\ call' = [call EXCEPT !.todo = Tail(@)] /\ UNCHANGED cur
             \/ /\ b \notin SYSBUFF /\ buf[b].modf /\ (call.must \/ save_all)
                /\ call' = [call EXCEPT !.at = "filesave"] /\ cur' = b
             \/ /\ b \notin SYSBUFF /\ buf[b].modf /\ ~ (call.must \/ save_all)
                /\ call' = [call EXCEPT !.at = "save?"] /\ UNCHANGED cur

AnswerSave ==
  /\ call.at = "save?"
  /\ UNCHANGED <<disk, linked, buf, now, fresh, calls, out>>
  /\ \/ \E bang \in BOOLEAN :
          /\ save_all' = (save_all \/ bang)
          /\ cur' = Head(call.todo) /\ call' = [call EXCEPT !.at = "filesave"]
     \/ promptsave(Head(call.todo))
     \/ call' = AfterSave(FALSE) /\ UNCHANGED <<cur, save_all>>

-----------------------------------------------------------------------------
(* filesave and zwritefile. *)

Version(f) == IF disk[f] = NONE THEN 0 ELSE disk[f].text.v

\* Where zwritefile goes on from the check of the file's time.
Check_never(b, f) == [call EXCEPT !.at = "creat", !.checked = Version(f)]

\* A file not read or written before is not looked at.
Check(b, f) ==
  LET d     == disk[f]
      known == b.mtime # 0 /\ d # NONE
      c     == [call EXCEPT !.nlink = known /\ f \in linked, !.checked = Version(f)]
  IN CASE known /\ d.mtime > b.mtime            -> [c EXCEPT !.at = "overwrite?"]
       [] known /\ d.mtime <= b.mtime /\ c.nlink -> [c EXCEPT !.at = "preserve?"]
       [] OTHER                                 -> [c EXCEPT !.at = "creat"]

\* Bound: the user gives no name that another buffer has; two buffers on a file
\* treat each other like two programs.
Free == File \ {buf[b].file : b \in Buffer}

filesave ==
  /\ call.at = "filesave"
  /\ UNCHANGED <<disk, cur, others, out>>
  /\ IF buf[cur].file # NIL THEN call' = Check(buf[cur], buf[cur].file) /\ UNCHANGED buf
     ELSE \/ \E f \in Free : /\ buf' = [buf EXCEPT ![cur].file = f,
                                                 ![cur].loose = @ \/ ~ buf[cur].modf]
                             /\ call' = Check(buf[cur], f)
          \/ call' = AfterSave(FALSE) /\ UNCHANGED buf

AnswerOverwrite ==
  /\ call.at = "overwrite?"
  /\ UNCHANGED <<disk, buf, cur, others, out>>
  /\ \/ call' = [call EXCEPT !.at = IF call.nlink THEN "preserve?" ELSE "creat", !.told = TRUE]
     \/ call' = AfterSave(FALSE)

\* No breaks the link: the other name keeps the old text.
AnswerPreserve ==
  /\ call.at = "preserve?"
  /\ UNCHANGED <<cur, save_all, now, fresh, calls, out>>
  /\ \/ call' = [call EXCEPT !.at = "creat"] /\ UNCHANGED <<disk, linked, buf>>
     \/ /\ call' = [call EXCEPT !.at = "creat"]
        /\ disk' = [disk EXCEPT ![buf[cur].file] = NONE]
        /\ linked' = linked \ {buf[cur].file}
        /\ buf' = [buf EXCEPT ![cur].loose = @ \/ ~ buf[cur].modf]
     \/ call' = AfterSave(FALSE) /\ UNCHANGED <<disk, linked, buf>>

\* A newline is put at the end if there is none; then creat empties the file,
\* or fails.
Creat ==
  LET b == buf[cur]
      t == [b.text EXCEPT !.nl = TRUE]
      modf == b.modf \/ ~ b.text.nl
  IN /\ call.at = "creat"
     /\ UNCHANGED <<cur, others, out>>
     /\ \/ /\ buf' = [buf EXCEPT ![cur] = [b EXCEPT !.text = t, !.modf = modf]]
           /\ call' = AfterSave(FALSE) /\ UNCHANGED disk
        \/ /\ buf' = [buf EXCEPT ![cur] = [b EXCEPT !.text = t, !.modf = modf,
                                                    !.own = @ \cup {0}, !.loose = @ \/ ~ modf]]
           /\ disk' = [disk EXCEPT ![b.file] = Content(EMPTY)]
           /\ call' = [call EXCEPT !.at = "write"]

\* bwritefile with a bug: a short write counts as written.
bwritefile_short(b) ==
  \E ok \in BOOLEAN :
    /\ disk' = [disk EXCEPT ![b.file] = IF ok THEN Content(b.text) ELSE Content(EMPTY)]
    /\ buf' = [buf EXCEPT ![cur] = [b EXCEPT !.modf = FALSE, !.mtime = now,
                                            !.own = IF ok THEN @ \ {0} ELSE @, !.loose = FALSE]]
    /\ call' = AfterSave(TRUE)

\* The pages are written until a write is short.
bwritefile(b) ==
  \/ /\ disk' = [disk EXCEPT ![b.file] = Content(b.text)]
     /\ buf' = [buf EXCEPT ![cur] = [b EXCEPT !.modf = FALSE, !.mtime = now,
                                            !.own = @ \ {0}, !.loose = FALSE]]
     /\ call' = AfterSave(TRUE)
  \/ /\ disk' = [disk EXCEPT ![b.file] = Content(EMPTY)]
     /\ call' = AfterSave(FALSE)
     /\ UNCHANGED buf

zwritefile == call.at = "write" /\ bwritefile(buf[cur]) /\ UNCHANGED <<cur, others, out>>

-----------------------------------------------------------------------------
(* Commands. *)

Command(c) ==
  /\ call.at = "idle" /\ calls < MaxCalls
  /\ calls' = calls + 1 /\ call' = c
  /\ UNCHANGED <<linked, save_all, now, out>>


\* With an argument it is saveall.
SaveFile(argp, then) == IF argp THEN SaveAll(FALSE, then) ELSE [Idle EXCEPT !.at = "filesave", !.then = then]

Zsave_file == \E argp \in BOOLEAN : Command(SaveFile(argp, "done")) /\ UNCHANGED <<disk, buf, cur, fresh>>

\* An argument counts every file as modified.
Zsave_all_files ==
  \E argp \in BOOLEAN :
    /\ Command(SaveAll(TRUE, "done"))
    /\ buf' = [b \in Buffer |-> [buf[b] EXCEPT !.modf =
                 @ \/ (argp /\ b \notin SYSBUFF /\ buf[b].file # NIL)]]
    /\ UNCHANGED <<disk, cur, fresh>>

Zexit == \E argp \in BOOLEAN : Command(SaveAll(argp, "quit")) /\ UNCHANGED <<disk, buf, cur, fresh>>

Zsave_and_exit ==
  \E argp \in BOOLEAN :
    /\ Command(IF cur \notin SYSBUFF /\ buf[cur].modf
              THEN SaveFile(argp, "zexit")
              ELSE SaveAll(argp, "quit"))
    /\ UNCHANGED <<disk, buf, cur, fresh>>

\* Modified buffers are asked about; no is back to editing.
Quit ==
  /\ call.at = "quit"
  /\ UNCHANGED <<disk, buf, cur, others>>
  /\ \/ out' = "exited" /\ call' = [call EXCEPT !.told = Modified # {}]
     \/ Modified # {} /\ call' = Idle /\ UNCHANGED out

Zwrite_file ==
  \E f \in Free \cup ({buf[cur].file} \cap File), argp \in BOOLEAN :
    /\ Command(SaveFile(argp, "done"))
    /\ buf' = [buf EXCEPT ![cur].file = f, ![cur].mtime = 0, ![cur].loose = @ \/ ~ buf[cur].modf]
    /\ UNCHANGED <<disk, cur, fresh>>

\* The user has agreed if the buffer is modified.  The file is gone, is read, or
\* is read in part, which is not noticed.
Zrevert_file ==
  LET b == buf[cur]
      d == disk[b.file]
      r == Opened(b.file, d)
  IN /\ b.file # NIL
     /\ Command(Idle)
     /\ \/ d = NONE /\ buf' = [buf EXCEPT ![cur] = [r EXCEPT !.own = @ \cup b.own,
                                                            !.modf = b.modf, !.loose = TRUE]]
        \/ \E got \in {r.text, EMPTY} :
             /\ d # NONE
             /\ buf' = [buf EXCEPT ![cur] = [r EXCEPT !.text = got, !.first = got,
                          !.own = @ \cup b.own, !.loose = got = EMPTY]]
     /\ UNCHANGED <<disk, cur, fresh>>

Edit ==
  /\ call.at = "idle" /\ fresh < MaxTexts
  /\ fresh' = fresh + 1
  /\ buf' = [buf EXCEPT ![cur].text.v = fresh + 1, ![cur].modf = TRUE,
                        ![cur].own = @ \cup {fresh + 1}, ![cur].loose = FALSE]
  /\ UNCHANGED <<disk, linked, cur, save_all, call, now, calls, out>>

\* Undo until nothing is left: the buffer then counts as unmodified, also if it
\* has been saved in between.
Zundo ==
  /\ buf[cur].text # buf[cur].first
  /\ Command(Idle)
  /\ buf' = [buf EXCEPT ![cur].text = buf[cur].first, ![cur].modf = FALSE, ![cur].loose = TRUE]
  /\ UNCHANGED <<disk, cur, fresh>>

Zunmodify ==
  \E argp \in BOOLEAN :
    /\ Command(Idle)
    /\ buf' = [buf EXCEPT ![cur].modf = argp, ![cur].loose = @ \/ (buf[cur].modf /\ ~ argp)]
    /\ UNCHANGED <<disk, cur, fresh>>

Zswitch ==
  /\ call.at = "idle"
  /\ \E b \in Buffer \ {cur} : cur' = b
  /\ UNCHANGED <<disk, linked, buf, save_all, call, now, fresh, calls, out>>

-----------------------------------------------------------------------------
(* The rest of the world. *)

\* Another program writes a file, in this second or a later one.
OtherWrites ==
  /\ fresh < MaxTexts /\ fresh' = fresh + 1
  /\ now' \in {now} \cup ({now + 1} \cap 1 .. MaxTime)
  /\ \E f \in File :
       disk' = [disk EXCEPT ![f] = [text |-> [v |-> fresh + 1, nl |-> TRUE], mtime |-> now']]
  /\ UNCHANGED <<linked, buf, cur, save_all, call, calls, out>>

\* A prompt for a name makes the buffer of the prompt line the current one.
InPaw == call.at = "filesave" /\ buf[cur].file = NIL

\* hang_up with a bug: only the buffer being edited is written.
hang_up_cur ==
  IF buf[cur].file = NIL \/ cur \notin Modified THEN disk
  ELSE [disk EXCEPT ![buf[cur].file] = Content(buf[cur].text)]

\* Every modified file is written if the current buffer has a file; in which
\* order does not matter, for no two buffers have the same.
hang_up ==
  LET Saved(f) == {b \in Modified : buf[b].file = f}
  IN IF InPaw \/ buf[cur].file = NIL THEN disk
     ELSE [f \in File |-> IF Saved(f) = {} THEN disk[f]
                         ELSE Content(buf[CHOOSE b \in Saved(f) : TRUE].text)]

HangUp ==
  /\ disk' = hang_up /\ out' = "hung up"
  /\ UNCHANGED <<buf, cur, others, call>>

Step == Promptsave \/ AnswerSave \/ filesave \/ AnswerOverwrite \/ AnswerPreserve
          \/ Creat \/ zwritefile \/ Quit

Next ==
  /\ out = "running"
  /\ \/ Step
     \/ Zsave_file \/ Zsave_all_files \/ Zexit \/ Zsave_and_exit \/ Zwrite_file
     \/ Zrevert_file \/ Edit \/ Zundo \/ Zunmodify \/ Zswitch
     \/ OtherWrites \/ HangUp

\* A version for each file to begin with.
Nth(f) == LET n == CHOOSE n \in [File -> 1 .. Cardinality(File)] :
                     \A g, h \in File : g # h => n[g] # n[h]
          IN n[f]

\* The buffers have no file, a new one, or one that is read; no two the same.
Init ==
  /\ now = 1 /\ fresh = Cardinality(File) /\ calls = 0 /\ save_all = FALSE /\ out = "running"
  /\ \E had \in Had, nl \in BOOLEAN :
       disk = [f \in File |-> IF f \in had THEN Content([v |-> Nth(f), nl |-> nl]) ELSE NONE]
  /\ linked \in Linked
  /\ \E fname \in Fname :
       buf = [b \in Buffer |-> Opened(fname[b], IF fname[b] = NIL THEN NONE ELSE disk[fname[b]])]
  /\ cur = Bufflist[1]
  /\ call = Idle

Spec == Init /\ [][Next]_vars /\ WF_vars(out = "running" /\ Step)

-----------------------------------------------------------------------------
(* What should hold. *)

\* The ends of Bufflist.
Suffix == {SubSeq(Bufflist, n, Len(Bufflist)) : n \in 1 .. Len(Bufflist) + 1}

BufType ==
  [file : File \cup {NIL}, text : Text, modf : BOOLEAN, mtime : 0 .. now, first : Text,
   own : SUBSET (0 .. fresh), loose : BOOLEAN]

CallType ==
  [at : {"idle", "promptsave", "save?", "filesave", "overwrite?", "preserve?",
         "creat", "write", "quit"},
   todo : Suffix, must : BOOLEAN, start : Buffer \cup {NIL},
   then : {"done", "zexit", "quit"}, nlink : BOOLEAN, told : BOOLEAN, checked : 0 .. fresh]

TypeOK ==
  /\ disk \in [File -> {NONE} \cup [text : Text, mtime : 1 .. now]]
  /\ linked \subseteq File /\ cur \in Buffer /\ save_all \in BOOLEAN
  /\ buf \in [Buffer -> BufType] /\ call \in CallType
  /\ now \in 1 .. MaxTime /\ fresh \in 0 .. MaxTexts /\ calls \in 0 .. MaxCalls
  /\ out \in {"running", "exited", "hung up"}

\* The text of b is empty or in its file, or another program has changed the file.
OnDisk(b) ==
  LET d == disk[buf[b].file]
  IN \/ buf[b].text.v = 0
     \/ /\ buf[b].file # NIL /\ d # NONE
        /\ d.text = buf[b].text \/ d.text.v \notin buf[b].own

\* A buffer shown as unmodified is safe to leave: its file holds its text, newline
\* at the end and all, between any two steps of saving (zwritefile, bwritefile).
\* Not so, and marked loose, where the code says otherwise: a save of an
\* unmodified buffer that fails half way, a new name that is not written to, undo
\* after a save, unmodify, and a file that could be read only in part.
CleanOnDisk ==
  TypeOK /\ \A b \in Buffer \ SYSBUFF : buf[b].modf \/ buf[b].loose \/ OnDisk(b)

\* Nothing typed is lost when the editor ends, unless the user said so: at exit
\* not in any buffer, on a hang-up not in those with a file while the current
\* one has a file and no name is asked for - also in the middle of a save.
WorkSurvives ==
  /\ out = "exited" /\ ~ call.told =>
       \A b \in Buffer \ SYSBUFF : buf[b].loose \/ OnDisk(b)
  /\ out = "hung up" /\ ~ InPaw /\ buf[cur].file # NIL =>
       \A b \in Buffer \ SYSBUFF : buf[b].file = NIL \/ buf[b].loose \/ OnDisk(b)

\* creat does not empty a file whose time is another than the buffer's, unless
\* the user was told, the buffer was new to the file, or the text came after the
\* check (zwritefile).
WarnedBeforeLoss ==
  [][call.at = "creat" /\ call'.at = "write" =>
       LET b == buf[cur]
           d == disk[b.file]
       IN \/ d = NONE \/ call.told \/ b.mtime = 0
          \/ d.mtime = b.mtime \/ Version(b.file) # call.checked]_vars

\* Saving, saving all and exiting end, however the user answers and whatever
\* fails: no answer brings the same question again.
CallEnds == (call.at # "idle") ~> (call.at = "idle" \/ out # "running")
=============================================================================
