-------------------------------- MODULE Shell --------------------------------
(***************************************************************************)
(* The command run in the *shell* buffer (shell.c), the main loop that     *)
(* polls the keyboard and the command's pipe (execute in z.c), and the     *)
(* deletion of the buffer (cdelbuff).  The editor is one thread; the child *)
(* process, the processes it leaves behind and the user run beside it.     *)
(*                                                                         *)
(* Output is counted in lines.  A step of the editor ends where it may     *)
(* block or where another process may come between two of its calls.       *)
(***************************************************************************)
EXTENDS Integers, FiniteSets

CONSTANTS
  Zbuff,    \* the addresses calloc may return for the *shell* buffer
  Pid,      \* process ids
  NIL,      \* EOF, -1, NULL
  CHUNK,    \* lines one read returns at most
  MaxFill,  \* bound: lines in the pipe
  MaxOut,   \* bound: lines a command writes
  MaxHits,  \* bound: lines Zgrep finds
  MaxHeirs, \* bound: processes the child leaves behind
  MaxAhead  \* bound: keys typed ahead

ASSUME PidAssumption == NIL \notin Pid /\ NIL \notin Zbuff
ASSUME ShellBounds ==
  /\ CHUNK \in Nat \ {0} /\ {MaxFill, MaxOut, MaxHits, MaxHeirs, MaxAhead} \subseteq Nat

VARIABLES
  proc,      \* per process: "none", "running" or "zombie"
  killed,    \* the processes sent SIGKILL
  holds,     \* the child has the write end of the pipe open
  heirs,     \* how many of the processes it left behind have
  fill,      \* lines in the pipe
  out,       \* history: the lines that were to go to the buffer since it was
             \* emptied
  shell,     \* the zbuff named *shell* on Bufflist
  got, errs, \* lines of output in it, and how many of these are errors
  seen,      \* errors before the point
  shell_mark, \* "none", "listed" on its marks, or "freed" with it
  NexterrorCalled,
  pipebuff, child, in_pipe,  \* as in shell.c; in_pipe names the command
  pollfd,    \* fds[1].fd in z.c
  revents,   \* fds[1].revents of the last poll
  ahead,     \* cpushed: keys read and not handled
  pc,        \* where the editor is
  next,      \* where it goes after checkpipes
  careful    \* history: the user waited for each command to end before
             \* next-error, and deleted the buffer only after "No more errors"

os     == <<proc, killed, holds, heirs, fill, out>>
text   == <<got, errs, seen>>
marks  == <<shell_mark, NexterrorCalled>>
pipe   == <<pipebuff, child, in_pipe, pollfd>>
vars   == <<os, shell, text, marks, pipe, revents, ahead, pc, next, careful>>

\* The program did what has no defined result: it wrote through a freed
\* struct zbuff, through a freed mark, or through a null mark.
Undefined == {"freedbuff", "freedmark", "nomark"}

TypeOK ==
  /\ proc \in [Pid -> {"none", "running", "zombie"}] /\ killed \subseteq Pid
  /\ holds \in BOOLEAN /\ heirs \in 0 .. MaxHeirs
  /\ fill \in 0 .. MaxFill
  /\ shell \in Zbuff \cup {NIL} /\ pipebuff \in Zbuff \cup {NIL}
  /\ got \in Nat /\ errs \in 0 .. got /\ seen \in 0 .. errs /\ out \in Nat
  /\ shell_mark \in {"none", "listed", "freed"} /\ NexterrorCalled \in BOOLEAN
  /\ child \in Pid \cup {NIL} /\ in_pipe \in Pid \cup {NIL}
  /\ pollfd \in Pid \cup {NIL}
  /\ revents \in BOOLEAN /\ careful \in BOOLEAN /\ ahead \in 0 .. MaxAhead
  /\ pc \in {"poll", "dotty", "pipe", "check", "drain", "free", "exited"} \cup Undefined
  /\ next \in {"poll", "free", "exited"}

Init ==
  /\ proc = [p \in Pid |-> "none"] /\ killed = {} /\ holds = FALSE /\ heirs = 0
  /\ fill = 0 /\ out = 0
  /\ shell = NIL /\ got = 0 /\ errs = 0 /\ seen = 0
  /\ shell_mark = "none" /\ NexterrorCalled = FALSE
  /\ pipebuff = NIL /\ child = NIL /\ in_pipe = NIL /\ pollfd = NIL
  /\ revents = FALSE /\ ahead = 0 /\ pc = "poll" /\ next = "poll"
  /\ careful = TRUE

-----------------------------------------------------------------------------
(* The other processes. *)

Writers == holds \/ heirs > 0

\* read returns at once: with bytes, or with 0 when nobody can write.
Readable == fill > 0 \/ ~ Writers

editor == <<shell, text, marks, pipe, revents, ahead, pc, next, careful>>

Write ==
  /\ in_pipe # NIL /\ Writers /\ fill < MaxFill /\ out < MaxOut
  /\ fill' = fill + 1 /\ out' = out + 1
  /\ UNCHANGED <<proc, killed, holds, heirs, editor>>

\* The child leaves a process behind that has its output open.
LeaveBehind ==
  /\ holds /\ heirs < MaxHeirs
  /\ heirs' = heirs + 1
  /\ UNCHANGED <<proc, killed, holds, fill, out, editor>>

\* It closes its output and goes on.
CloseOutput ==
  /\ holds /\ holds' = FALSE
  /\ UNCHANGED <<proc, killed, heirs, fill, out, editor>>

ChildDies(p) ==
  /\ proc[p] = "running"
  /\ proc' = [proc EXCEPT ![p] = "zombie"]
  /\ killed' = killed \ {p}
  /\ holds' = (holds /\ p # in_pipe)
  /\ UNCHANGED <<heirs, fill, out, editor>>

HeirDies ==
  /\ heirs > 0 /\ heirs' = heirs - 1
  /\ UNCHANGED <<proc, killed, holds, fill, out, editor>>

-----------------------------------------------------------------------------
(* readapipe and checkpipes. *)

\* AfterDotty with bugs: the pipe waits for the keyboard; revents is not looked
\* at.
AfterDotty_else == "poll"

AfterDotty_always == "pipe"

\* What follows a command: the pipe's revents, known before the command.
AfterDotty == IF revents THEN "pipe" ELSE "poll"

\* readapipe returns n > 0 lines to pipebuff.
ReadLines ==
  LET n == IF fill < CHUNK THEN fill ELSE CHUNK
  IN /\ fill > 0
     /\ fill' = fill - n
     /\ \E e \in 0 .. n :
          IF pipebuff = shell THEN got' = got + n /\ errs' = errs + e ELSE UNCHANGED text
     /\ UNCHANGED <<proc, killed, holds, heirs, out, shell, seen, marks, pipe,
                    revents, ahead, next, careful>>

\* execute calls readapipe when poll found something, before or after dotty.
Readapipe ==
  /\ pc = "pipe"
  /\ \/ /\ in_pipe = NIL
        /\ pc' = "poll"
        /\ UNCHANGED <<os, shell, text, marks, pipe, revents, ahead, next, careful>>
     \/ /\ in_pipe # NIL
        /\ ReadLines
        /\ pc' = IF pipebuff = shell THEN "poll" ELSE "freedbuff"
     \/ /\ in_pipe # NIL /\ fill = 0 /\ ~ Writers
        /\ pc' = "check" /\ next' = "poll"
        /\ UNCHANGED <<os, shell, text, marks, pipe, revents, ahead, careful>>

\* ClosePipe with a bug: pipebuff is kept.
ClosePipe_kept ==
  /\ holds' = FALSE /\ heirs' = 0 /\ fill' = 0
  /\ pollfd' = NIL /\ in_pipe' = NIL /\ child' = NIL /\ UNCHANGED pipebuff

\* close(in_pipe): whoever still writes gets SIGPIPE.
ClosePipe ==
  /\ holds' = FALSE /\ heirs' = 0 /\ fill' = 0
  /\ pollfd' = NIL /\ in_pipe' = NIL /\ child' = NIL /\ pipebuff' = NIL

\* Checkpipes with a bug: the pipe is closed with what is in it.
Checkpipes_full ==
  /\ pc = "check"
  /\ IF child # NIL /\ \E p \in Pid : proc[p] = "zombie"
     THEN \E p \in {d \in Pid : proc[d] = "zombie"} :
            /\ proc' = [proc EXCEPT ![p] = "none"]
            /\ pc' = next
            /\ IF p = child THEN ClosePipe ELSE UNCHANGED <<holds, heirs, fill, pipe>>
     ELSE pc' = next /\ UNCHANGED <<proc, holds, heirs, fill, pipe>>
  /\ UNCHANGED <<killed, out, shell, text, marks, revents, ahead, next, careful>>

\* checkpipes up to the loop that empties the pipe: waitpid does not wait.
\* Type 0, on exit, leaves the pipe as it is.
Checkpipes ==
  /\ pc = "check"
  /\ IF child # NIL /\ \E p \in Pid : proc[p] = "zombie"
     THEN \E p \in {d \in Pid : proc[d] = "zombie"} :
            /\ proc' = [proc EXCEPT ![p] = "none"]
            /\ pc' = IF p = child /\ next # "exited" THEN "drain" ELSE next
            /\ IF p = child /\ next = "exited" THEN ClosePipe
               ELSE UNCHANGED <<holds, heirs, fill, pipe>>
     ELSE pc' = next /\ UNCHANGED <<proc, holds, heirs, fill, pipe>>
  /\ UNCHANGED <<killed, out, shell, text, marks, revents, ahead, next, careful>>

\* One readapipe of that loop.  The last one returns 0; exit_status then shows
\* the status in pipebuff, and the pipe is closed.
Drain ==
  /\ pc = "drain"
  /\ \/ /\ ReadLines
        /\ pc' = IF pipebuff = shell THEN "drain" ELSE "freedbuff"
     \/ /\ fill = 0 /\ ~ Writers /\ pipebuff = shell
        /\ pc' = next /\ ClosePipe
        /\ UNCHANGED <<proc, killed, out, shell, text, marks, revents, ahead, next, careful>>
     \/ /\ fill = 0 /\ ~ Writers /\ pipebuff # shell
        /\ pc' = "freedbuff"
        /\ UNCHANGED <<os, shell, text, marks, pipe, revents, ahead, next, careful>>

-----------------------------------------------------------------------------
(* execute. *)

\* No pipe, or keys typed ahead: a command without a look at the pipe.
ExecuteKey ==
  /\ pc = "poll" /\ (pollfd = NIL \/ ahead > 0)
  /\ pc' = "dotty" /\ revents' = FALSE
  /\ ahead' \in IF ahead > 0 THEN {ahead - 1} ELSE 0 .. MaxAhead
  /\ UNCHANGED <<os, shell, text, marks, pipe, next, careful>>

\* poll returns: a key was typed, the pipe can be read, or both.
Poll(typed) ==
  /\ pc = "poll" /\ pollfd # NIL /\ ahead = 0
  /\ typed \/ Readable
  /\ revents' = Readable
  /\ pc' = IF typed THEN "dotty" ELSE "pipe"
  /\ ahead' \in IF typed THEN 0 .. MaxAhead ELSE {0}
  /\ UNCHANGED <<os, shell, text, marks, pipe, next, careful>>

\* A signal interrupts poll.
PollInterrupted ==
  /\ pc = "poll" /\ pollfd # NIL /\ ahead = 0
  /\ pc' = "check" /\ next' = "poll"
  /\ UNCHANGED <<os, shell, text, marks, pipe, revents, ahead, careful>>

-----------------------------------------------------------------------------
(* The commands. *)

\* wuseother(SHELLBUFF): find or create the buffer and empty it; the command
\* then puts some lines in it.
UseShell(lines) ==
  /\ IF shell = NIL THEN shell' \in Zbuff ELSE UNCHANGED shell
  /\ NexterrorCalled' = FALSE
  /\ got' = lines /\ seen' = 0 /\ out' = fill + lines

\* set_shell_mark.
SetShellMark ==
  /\ shell_mark' = IF shell_mark = "freed" THEN "freed" ELSE "listed"
  /\ pc' = IF shell_mark = "freed" THEN "freedmark" ELSE AfterDotty

\* Zmake, Zcmd_to_buffer.  The buffer is emptied before it is found out that a
\* command is running.
Start ==
  \E p \in {d \in Pid : proc[d] = "none"} :
    /\ proc' = [proc EXCEPT ![p] = "running"]
    /\ pipebuff' = shell' /\ child' = p /\ in_pipe' = p /\ pollfd' = p
    /\ holds' = TRUE /\ heirs' = 0 /\ fill' = 0

\* Cmdtobuff with a bug: nobody asks whether a command is running.
Cmdtobuff_in_use ==
  /\ pc = "dotty"
  /\ UseShell(0) /\ errs' = 0
  /\ SetShellMark
  /\ Start
  /\ UNCHANGED <<killed, revents, ahead, next, careful>>

Cmdtobuff ==
  /\ pc = "dotty"
  /\ UseShell(0) /\ errs' = 0
  /\ SetShellMark
  /\ \/ UNCHANGED <<proc, pipe, holds, heirs, fill>>  \* in use; no pipe or fork
     \/ child = NIL /\ shell_mark # "freed" /\ Start
  /\ UNCHANGED <<killed, revents, ahead, next, careful>>

\* Zgrep fills the same buffer itself, with at most MaxHits hits.
Zgrep ==
  /\ pc = "dotty"
  /\ \E hits \in 0 .. MaxHits : UseShell(hits) /\ errs' = hits
  /\ SetShellMark
  /\ UNCHANGED <<proc, killed, holds, heirs, fill, pipe, revents, ahead, next, careful>>

\* unvoke(buff); buff = NIL: whatever the buffer.  A dead child stays as it is.
Kill(buff) ==
  IF pipebuff = NIL \/ (buff # NIL /\ buff # pipebuff)
  THEN UNCHANGED killed
  ELSE killed' = killed \cup {p \in Pid : p = child /\ proc[p] = "running"}

Zkill ==
  /\ pc = "dotty" /\ Kill(NIL)
  /\ pc' = AfterDotty
  /\ UNCHANGED <<proc, holds, heirs, fill, out, shell, text, marks, pipe, revents,
                 ahead, next, careful>>

Znext_error ==
  /\ pc = "dotty" /\ shell # NIL
  /\ careful' = (careful /\ child = NIL)
  /\ LET from == IF NexterrorCalled THEN seen ELSE 0
     IN IF from < errs
        THEN /\ seen' = from + 1 /\ NexterrorCalled' = TRUE
             /\ UNCHANGED shell_mark
             /\ pc' = CASE shell_mark = "listed" -> AfterDotty
                        [] shell_mark = "none"   -> "nomark"
                        [] shell_mark = "freed"  -> "freedmark"
        ELSE /\ seen' = errs /\ NexterrorCalled' = TRUE
             /\ shell_mark' = "none"
             /\ pc' = IF shell_mark = "freed" THEN "freedmark" ELSE AfterDotty
  /\ UNCHANGED <<os, shell, got, errs, pipe, revents, ahead, next>>

\* cdelbuff up to its checkpipes.
DeleteShell ==
  /\ pc = "dotty" /\ shell # NIL
  /\ careful' = (careful /\ child = NIL /\ shell_mark # "listed")
  /\ Kill(shell)
  /\ IF pipebuff = shell THEN pc' = "check" /\ next' = "free"
                         ELSE pc' = "free"  /\ UNCHANGED next
  /\ UNCHANGED <<proc, holds, heirs, fill, out, shell, text, marks, pipe, revents, ahead>>

\* The rest of it: the buffer and its marks are freed.
FreeShell ==
  /\ pc = "free"
  /\ shell' = NIL /\ got' = 0 /\ errs' = 0 /\ seen' = 0 /\ out' = fill
  /\ shell_mark' = IF shell_mark = "listed" THEN "freed" ELSE shell_mark
  /\ pc' = AfterDotty
  /\ UNCHANGED <<proc, killed, holds, heirs, fill, NexterrorCalled, pipe, revents,
                 ahead, next, careful>>

\* Any other command.
Other ==
  /\ pc = "dotty" /\ pc' = AfterDotty
  /\ UNCHANGED <<os, shell, text, marks, pipe, revents, ahead, next, careful>>

\* Zexit, and hang_up, which is a signal handler.
Exit ==
  /\ pc \notin Undefined \cup {"exited"} /\ ~ (pc = "check" /\ next = "exited")
  /\ Kill(NIL)
  /\ pc' = "check" /\ next' = "exited"
  /\ UNCHANGED <<proc, holds, heirs, fill, out, shell, text, marks, pipe, revents, ahead, careful>>

-----------------------------------------------------------------------------
Command ==
  Cmdtobuff \/ Zgrep \/ Zkill \/ Znext_error \/ DeleteShell \/ Other

World == Write \/ LeaveBehind \/ CloseOutput \/ HeirDies \/ \E p \in Pid : ChildDies(p)

Next ==
  \/ World
  \/ Readapipe \/ Checkpipes \/ Drain
  \/ ExecuteKey \/ PollInterrupted \/ \E typed \in BOOLEAN : Poll(typed)
  \/ Command \/ FreeShell \/ Exit

Spec == Init /\ [][Next]_vars

\* The editor goes on where it can, the keyboard aside, and a command ends;
\* a killed process dies.
FairSpec ==
  /\ Spec
  /\ WF_vars(Readapipe \/ Checkpipes \/ Drain \/ Poll(FALSE) \/ Command \/ FreeShell)
  /\ WF_vars(ExecuteKey /\ ahead > 0)
  /\ \A p \in Pid : WF_vars(p \in killed /\ ChildDies(p))

-----------------------------------------------------------------------------
(* Properties. *)

\* No child is left unwaited for by a second command: every process that was
\* started and not waited for is the one the editor knows (_cmdtobuff's test of
\* child).
NoLostChild == \A p \in Pid : proc[p] # "none" => p = child

\* When the pipe is closed while the editor runs, all that was written is in
\* the buffer (the loop in checkpipes).
AllOutput ==
  [][in_pipe # NIL /\ in_pipe' = NIL /\ pc' # "exited" => got = out /\ fill = 0]_vars

\* execute never reads from a pipe that has nothing: revents is still true
\* after dotty.
ExecuteDoesNotBlock == pc = "pipe" /\ in_pipe # NIL => Readable

\* Of a user who waits: pipebuff is a buffer that was not deleted, and nothing
\* is written through a freed buffer, a freed mark or no mark (readapipe,
\* set_shell_mark, Znext_error).
PipebuffLive ==
  TypeOK /\ (careful => (pipebuff # NIL => pipebuff = shell) /\ pc \notin Undefined)

\* The child that died is waited for and its status shown, whatever is typed
\* meanwhile, unless processes it left behind hold the pipe open.
Reaped ==
  \A p \in Pid : proc[p] = "zombie" ~>
    child # p \/ heirs > 0 \/ pc \in Undefined \cup {"exited"}

=============================================================================
