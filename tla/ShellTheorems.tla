---------------------------- MODULE ShellTheorems ----------------------------
(***************************************************************************)
(* The safety of the shell pipe holds for any number of processes and      *)
(* buffers and whatever the bounds are.                                    *)
(*                                                                         *)
(* None of the four properties is inductive.  That a second command finds  *)
(* no child needs that the loop which empties the pipe runs with the child *)
(* already waited for; that all output is in the buffer needs that fill    *)
(* and got together are out; that execute does not block needs to know     *)
(* where the stale revents may still be used; and that pipebuff lives      *)
(* needs that a careful user never waits in cdelbuff for a child, and that *)
(* the mark is there whenever it is used.  Each of these facts has a name  *)
(* below and a lemma that every step keeps it.                             *)
(***************************************************************************)
EXTENDS Shell, TLAPS

\* shell.c sets and clears child, in_pipe, pipebuff and the polled descriptor
\* together, and without a pipe nothing is in it.
PipeWhole ==
  /\ in_pipe = child /\ pollfd = child /\ (pipebuff = NIL <=> child = NIL)
  /\ child = NIL => ~ holds /\ heirs = 0 /\ fill = 0

\* The pipe is emptied when the child is waited for, and not on exit.
DrainInv ==
  pc = "drain" => next # "exited" /\ child # NIL /\ \A p \in Pid : proc[p] = "none"

\* The lines that were to go to the buffer are there or in the pipe.
LinesInv == pc \notin {"freedbuff", "exited"} => out = got + fill

\* cdelbuff is on its way to free the buffer.
Deleting == pc = "free" \/ (pc \in {"check", "drain"} /\ next = "free")

\* Where revents is looked at again it is true only of a pipe that is still
\* readable or was closed.
ReventsInv ==
  /\ pc \in {"dotty", "pipe", "free"} \/ (pc = "check" /\ next = "free") =>
       (revents /\ in_pipe # NIL => Readable)
  /\ pc = "dotty" /\ revents => in_pipe # NIL
  /\ pc = "pipe" => revents

\* A user who waits deletes the buffer only when no command runs.
DeleteInv == Deleting /\ careful => child = NIL /\ shell_mark # "listed"

\* The mark of a user who waits is on the buffer while a command runs, and if
\* there is none, next-error has said so.
MarkInv ==
  careful =>
    /\ shell_mark # "freed"
    /\ child # NIL => shell_mark = "listed"
    /\ shell = NIL => shell_mark = "none"
    /\ shell # NIL /\ shell_mark = "none" => NexterrorCalled /\ seen = errs

-----------------------------------------------------------------------------
\* The bounds are numbers.
LEMMA Bounds ==
  /\ CHUNK \in Nat \ {0} /\ MaxFill \in Nat /\ MaxOut \in Nat /\ MaxHits \in Nat
  /\ MaxHeirs \in Nat /\ MaxAhead \in Nat /\ NIL \notin Pid /\ NIL \notin Zbuff
BY ShellBounds, PidAssumption

\* The types, in three parts.
TypeOs ==
  /\ proc \in [Pid -> {"none", "running", "zombie"}] /\ killed \subseteq Pid
  /\ holds \in BOOLEAN /\ heirs \in 0 .. MaxHeirs /\ fill \in 0 .. MaxFill /\ out \in Nat

TypeText ==
  /\ shell \in Zbuff \cup {NIL} /\ pipebuff \in Zbuff \cup {NIL}
  /\ got \in Nat /\ errs \in 0 .. got /\ seen \in 0 .. errs
  /\ shell_mark \in {"none", "listed", "freed"} /\ NexterrorCalled \in BOOLEAN

TypeEditor ==
  /\ child \in Pid \cup {NIL} /\ in_pipe \in Pid \cup {NIL} /\ pollfd \in Pid \cup {NIL}
  /\ revents \in BOOLEAN /\ careful \in BOOLEAN /\ ahead \in 0 .. MaxAhead
  /\ pc \in {"poll", "dotty", "pipe", "check", "drain", "free", "exited"} \cup Undefined
  /\ next \in {"poll", "free", "exited"}

\* TypeOK is about the system, the text and the editor.
LEMMA TypeParts == TypeOK <=> TypeOs /\ TypeText /\ TypeEditor
BY DEF TypeOK, TypeOs, TypeText, TypeEditor

\* Each step keeps the types.
LEMMA TypeStep ==
  ASSUME TypeOK, [Next]_vars
  PROVE  TypeOK'
<1> USE Bounds DEF text, marks, pipe, Undefined
<1>0. TypeOs /\ TypeText /\ TypeEditor
  BY TypeParts
<1>1. CASE Write
  BY <1>1 DEF TypeOK, Write, editor
<1>2. CASE LeaveBehind
  BY <1>2 DEF TypeOK, LeaveBehind, editor
<1>3. CASE CloseOutput
  <2>1. TypeOs' BY <1>0, <1>3 DEF TypeOs, CloseOutput, editor
  <2>2. TypeText' BY <1>0, <1>3 DEF TypeText, CloseOutput, editor, TypeOs
  <2>3. TypeEditor' BY <1>0, <1>3 DEF TypeEditor, CloseOutput, editor
  <2> QED BY <2>1, <2>2, <2>3, TypeParts DEF TypeOK, TypeOs, TypeText, TypeEditor
<1>4. CASE HeirDies
  BY <1>4 DEF TypeOK, HeirDies, editor
<1>5. ASSUME NEW p \in Pid, ChildDies(p)
      PROVE  TypeOK'
  BY <1>5 DEF TypeOK, ChildDies, editor
<1>6. CASE Readapipe
  BY <1>6 DEF TypeOK, Readapipe, ReadLines, os
<1>7. CASE Checkpipes
  <2>1. TypeOs'
    <3>1. proc' \in [Pid -> {"none", "running", "zombie"}] /\ killed' \subseteq Pid
      BY <1>0, <1>7 DEF TypeOs, Checkpipes
    <3>2. holds' \in BOOLEAN /\ heirs' \in 0 .. MaxHeirs /\ fill' \in 0 .. MaxFill /\ out' \in Nat
      <4>1. CASE ClosePipe
        <5>1. holds' \in BOOLEAN
          BY <4>1 DEF ClosePipe
        <5> QED BY <1>0, <1>7, <4>1, <5>1 DEF TypeOs, Checkpipes, ClosePipe
      <4>2. CASE UNCHANGED <<holds, heirs, fill>>
        BY <1>0, <1>7, <4>2 DEF TypeOs, Checkpipes
      <4> QED BY <1>7, <4>1, <4>2 DEF Checkpipes
    <3> QED BY <3>1, <3>2 DEF TypeOs
  <2>2. TypeText' BY <1>0, <1>7 DEF TypeText, Checkpipes, ClosePipe, TypeOs
  <2>3. TypeEditor' BY <1>0, <1>7 DEF TypeEditor, Checkpipes, ClosePipe
  <2> QED BY <2>1, <2>2, <2>3, TypeParts DEF TypeOK, TypeOs, TypeText, TypeEditor
<1>8. CASE Drain
  <2>1. TypeOs'
    <3>1. CASE ReadLines
      BY <1>0, <3>1 DEF TypeOs, ReadLines
    <3>2. CASE ClosePipe /\ UNCHANGED <<proc, killed, out>>
      <4>1. holds' \in BOOLEAN
        BY <3>2 DEF ClosePipe
      <4> QED BY <1>0, <3>2, <4>1 DEF TypeOs, ClosePipe
    <3>3. CASE UNCHANGED os
      BY <1>0, <3>3 DEF TypeOs, os
    <3> QED BY <1>8, <3>1, <3>2, <3>3 DEF Drain
  <2>2. TypeText' BY <1>0, <1>8 DEF TypeText, Drain, ReadLines, ClosePipe, os, TypeOs
  <2>3. TypeEditor' BY <1>0, <1>8 DEF TypeEditor, Drain, ReadLines, ClosePipe, os
  <2> QED BY <2>1, <2>2, <2>3, TypeParts DEF TypeOK, TypeOs, TypeText, TypeEditor
<1>9. CASE ExecuteKey
  <2>1. TypeOs' BY <1>0, <1>9 DEF TypeOs, ExecuteKey, os
  <2>2. TypeText' BY <1>0, <1>9 DEF TypeText, ExecuteKey, os, TypeOs
  <2>3. TypeEditor'
    <3>1. ahead' \in 0 .. MaxAhead
      BY <1>0, <1>9 DEF TypeEditor, ExecuteKey
    <3> QED BY <1>0, <1>9, <3>1 DEF TypeEditor, ExecuteKey
  <2> QED BY <2>1, <2>2, <2>3, TypeParts DEF TypeOK, TypeOs, TypeText, TypeEditor
<1>10. CASE PollInterrupted
  BY <1>10 DEF TypeOK, PollInterrupted, os
<1>11. ASSUME NEW typed \in BOOLEAN, Poll(typed)
      PROVE  TypeOK'
  <2>1. TypeOs' BY <1>0, <1>11 DEF TypeOs, Poll, os
  <2>2. TypeText' BY <1>0, <1>11 DEF TypeText, Poll, os, TypeOs
  <2>3. TypeEditor'
    <3>1. ahead' \in 0 .. MaxAhead
      BY <1>0, <1>11 DEF TypeEditor, Poll
    <3>2. revents' \in BOOLEAN
      BY <1>11 DEF Poll, Readable, Writers
    <3> QED BY <1>0, <1>11, <3>1, <3>2 DEF TypeEditor, Poll
  <2> QED BY <2>1, <2>2, <2>3, TypeParts DEF TypeOK, TypeOs, TypeText, TypeEditor
<1>12. CASE Cmdtobuff
  <2>1. TypeOs'
    <3>1. out' \in Nat
      BY <1>0, <1>12 DEF TypeOs, Cmdtobuff, UseShell
    <3>2. CASE UNCHANGED <<proc, holds, heirs, fill>>
      BY <1>0, <1>12, <3>1, <3>2 DEF TypeOs, Cmdtobuff
    <3>3. CASE Start
      BY <1>0, <1>12, <3>1, <3>3 DEF TypeOs, Cmdtobuff, Start
    <3> QED BY <1>12, <3>2, <3>3 DEF Cmdtobuff
  <2>2. TypeText'
    <3>1. shell' \in Zbuff \cup {NIL} /\ pipebuff' \in Zbuff \cup {NIL}
      BY <1>0, <1>12 DEF TypeText, Cmdtobuff, UseShell, Start
    <3>2. NexterrorCalled' \in BOOLEAN
      BY <1>12 DEF Cmdtobuff, UseShell
    <3> QED BY <1>0, <1>12, <3>1, <3>2 DEF TypeText, Cmdtobuff, UseShell, SetShellMark
  <2>3. TypeEditor' BY <1>0, <1>12 DEF TypeEditor, Cmdtobuff, UseShell, SetShellMark, Start, AfterDotty
  <2> QED BY <2>1, <2>2, <2>3, TypeParts DEF TypeOK, TypeOs, TypeText, TypeEditor
<1>13. CASE Zgrep
  <2>1. TypeOs' BY <1>0, <1>13 DEF TypeOs, Zgrep, UseShell, SetShellMark, AfterDotty
  <2>2. TypeText'
    <3>1. PICK hits \in 0 .. MaxHits : UseShell(hits) /\ errs' = hits
      BY <1>13 DEF Zgrep
    <3>2. shell' \in Zbuff \cup {NIL} /\ pipebuff' \in Zbuff \cup {NIL}
      BY <1>0, <1>13, <3>1 DEF TypeText, Zgrep, UseShell
    <3>3. got' \in Nat /\ errs' \in 0 .. got' /\ seen' \in 0 .. errs'
      BY <3>1 DEF UseShell
    <3> QED BY <1>13, <3>1, <3>2, <3>3, <1>0 DEF TypeText, Zgrep, UseShell, SetShellMark
  <2>3. TypeEditor' BY <1>0, <1>13 DEF TypeEditor, Zgrep, UseShell, SetShellMark, AfterDotty
  <2> QED BY <2>1, <2>2, <2>3, TypeParts DEF TypeOK, TypeOs, TypeText, TypeEditor
<1>14. CASE Zkill
  BY <1>14 DEF TypeOK, Zkill, Kill, AfterDotty
<1>15. CASE Znext_error
  <2>1. TypeOs' BY <1>0, <1>15 DEF TypeOs, Znext_error, AfterDotty, os
  <2>2. TypeText'
    <3>1. seen' \in 0 .. errs
      BY <1>0, <1>15 DEF TypeText, Znext_error
    <3> QED BY <1>0, <1>15, <3>1 DEF TypeText, Znext_error
  <2>3. TypeEditor'
    <3>1. pc' \in {"poll", "pipe"} \cup Undefined
      BY <1>0, <1>15 DEF TypeText, Znext_error, AfterDotty
    <3>2. careful' \in BOOLEAN
      BY <1>15 DEF Znext_error
    <3> QED BY <1>0, <1>15, <3>1, <3>2 DEF TypeEditor, Znext_error
  <2> QED BY <2>1, <2>2, <2>3, TypeParts DEF TypeOK, TypeOs, TypeText, TypeEditor
<1>16. CASE DeleteShell
  BY <1>16 DEF TypeOK, DeleteShell, Kill
<1>17. CASE FreeShell
  BY <1>17 DEF TypeOK, FreeShell, AfterDotty
<1>18. CASE Other
  BY <1>18 DEF TypeOK, Other, AfterDotty, os
<1>19. CASE Exit
  BY <1>19 DEF TypeOK, Exit, Kill
<1>20. CASE UNCHANGED vars
  BY <1>20 DEF TypeOK, vars, os
<1> QED
  BY <1>1, <1>2, <1>3, <1>4, <1>5, <1>6, <1>7, <1>8, <1>9, <1>10, <1>11,
     <1>12, <1>13, <1>14, <1>15, <1>16, <1>17, <1>18, <1>19, <1>20 DEF Next, World, Command

\* Each step keeps what is known of the child and its pipe: only Cmdtobuff starts
\* one, only Checkpipes waits for it and only the end of Drain, or exit, closes it.
LEMMA ChildStep ==
  ASSUME TypeOK, NoLostChild, PipeWhole, DrainInv, [Next]_vars
  PROVE  (NoLostChild /\ PipeWhole /\ DrainInv)'
<1> USE Bounds
    DEF TypeOK, NoLostChild, PipeWhole, DrainInv, text, marks, pipe, Undefined
<1>1. CASE Write
  BY <1>1 DEF Write, editor
<1>2. CASE LeaveBehind
  BY <1>2 DEF LeaveBehind, editor
<1>3. CASE CloseOutput
  BY <1>3 DEF CloseOutput, editor
<1>4. CASE HeirDies
  BY <1>4 DEF HeirDies, editor
<1>5. ASSUME NEW p \in Pid, ChildDies(p)
      PROVE  (NoLostChild /\ PipeWhole /\ DrainInv)'
  BY <1>5 DEF ChildDies, editor
<1>6. CASE Readapipe
  BY <1>6 DEF Readapipe, ReadLines, os
<1>7. CASE Checkpipes
  BY <1>7 DEF Checkpipes, ClosePipe
<1>8. CASE Drain
  BY <1>8 DEF Drain, ReadLines, ClosePipe, os
<1>9. CASE ExecuteKey
  BY <1>9 DEF ExecuteKey, os
<1>10. CASE PollInterrupted
  BY <1>10 DEF PollInterrupted, os
<1>11. ASSUME NEW typed \in BOOLEAN, Poll(typed)
      PROVE  (NoLostChild /\ PipeWhole /\ DrainInv)'
  BY <1>11 DEF Poll, os
<1>12. CASE Cmdtobuff
  BY <1>12 DEF Cmdtobuff, UseShell, SetShellMark, Start, AfterDotty
<1>13. CASE Zgrep
  BY <1>13 DEF Zgrep, UseShell, SetShellMark, AfterDotty
<1>14. CASE Zkill
  BY <1>14 DEF Zkill, Kill, AfterDotty
<1>15. CASE Znext_error
  BY <1>15 DEF Znext_error, AfterDotty, os
<1>16. CASE DeleteShell
  BY <1>16 DEF DeleteShell, Kill
<1>17. CASE FreeShell
  BY <1>17 DEF FreeShell, AfterDotty
<1>18. CASE Other
  BY <1>18 DEF Other, AfterDotty, os
<1>19. CASE Exit
  BY <1>19 DEF Exit, Kill
<1>20. CASE UNCHANGED vars
  BY <1>20 DEF vars, os
<1> QED
  BY <1>1, <1>2, <1>3, <1>4, <1>5, <1>6, <1>7, <1>8, <1>9, <1>10, <1>11,
     <1>12, <1>13, <1>14, <1>15, <1>16, <1>17, <1>18, <1>19, <1>20 DEF Next, World, Command

\* Each step keeps the count of the lines: what leaves the pipe goes to the buffer.
LEMMA LinesStep ==
  ASSUME TypeOK, PipeWhole, DrainInv, LinesInv, [Next]_vars
  PROVE  LinesInv'
<1> USE Bounds
    DEF TypeOK, PipeWhole, DrainInv, LinesInv, text, marks, pipe, Undefined
<1>1. CASE Write
  BY <1>1 DEF Write, editor
<1>2. CASE LeaveBehind
  BY <1>2 DEF LeaveBehind, editor
<1>3. CASE CloseOutput
  BY <1>3 DEF CloseOutput, editor
<1>4. CASE HeirDies
  BY <1>4 DEF HeirDies, editor
<1>5. ASSUME NEW p \in Pid, ChildDies(p)
      PROVE  LinesInv'
  BY <1>5 DEF ChildDies, editor
<1>6. CASE Readapipe
  BY <1>6 DEF Readapipe, ReadLines, os
<1>7. CASE Checkpipes
  BY <1>7 DEF Checkpipes, ClosePipe
<1>8. CASE Drain
  BY <1>8 DEF Drain, ReadLines, ClosePipe, os
<1>9. CASE ExecuteKey
  BY <1>9 DEF ExecuteKey, os
<1>10. CASE PollInterrupted
  BY <1>10 DEF PollInterrupted, os
<1>11. ASSUME NEW typed \in BOOLEAN, Poll(typed)
      PROVE  LinesInv'
  BY <1>11 DEF Poll, os
<1>12. CASE Cmdtobuff
  BY <1>12 DEF Cmdtobuff, UseShell, SetShellMark, Start, AfterDotty
<1>13. CASE Zgrep
  BY <1>13 DEF Zgrep, UseShell, SetShellMark, AfterDotty
<1>14. CASE Zkill
  BY <1>14 DEF Zkill, Kill, AfterDotty
<1>15. CASE Znext_error
  BY <1>15 DEF Znext_error, AfterDotty, os
<1>16. CASE DeleteShell
  BY <1>16 DEF DeleteShell, Kill
<1>17. CASE FreeShell
  BY <1>17 DEF FreeShell, AfterDotty
<1>18. CASE Other
  BY <1>18 DEF Other, AfterDotty, os
<1>19. CASE Exit
  BY <1>19 DEF Exit, Kill
<1>20. CASE UNCHANGED vars
  BY <1>20 DEF vars, os
<1> QED
  BY <1>1, <1>2, <1>3, <1>4, <1>5, <1>6, <1>7, <1>8, <1>9, <1>10, <1>11,
     <1>12, <1>13, <1>14, <1>15, <1>16, <1>17, <1>18, <1>19, <1>20 DEF Next, World, Command

\* Each step keeps what a revents that is still to be looked at says.
LEMMA ReventsStep ==
  ASSUME TypeOK, PipeWhole, ReventsInv, [Next]_vars
  PROVE  ReventsInv'
<1> USE Bounds
    DEF TypeOK, PipeWhole, ReventsInv, Readable, Writers, text, marks, pipe, Undefined
<1>1. CASE Write
  BY <1>1 DEF Write, editor
<1>2. CASE LeaveBehind
  BY <1>2 DEF LeaveBehind, editor
<1>3. CASE CloseOutput
  BY <1>3 DEF CloseOutput, editor
<1>4. CASE HeirDies
  BY <1>4 DEF HeirDies, editor
<1>5. ASSUME NEW p \in Pid, ChildDies(p)
      PROVE  ReventsInv'
  BY <1>5 DEF ChildDies, editor
<1>6. CASE Readapipe
  BY <1>6 DEF Readapipe, ReadLines, os
<1>7. CASE Checkpipes
  BY <1>7 DEF Checkpipes, ClosePipe
<1>8. CASE Drain
  BY <1>8 DEF Drain, ReadLines, ClosePipe, os
<1>9. CASE ExecuteKey
  BY <1>9 DEF ExecuteKey, os
<1>10. CASE PollInterrupted
  BY <1>10 DEF PollInterrupted, os
<1>11. ASSUME NEW typed \in BOOLEAN, Poll(typed)
      PROVE  ReventsInv'
  BY <1>11 DEF Poll, os
<1>12. CASE Cmdtobuff
  BY <1>12 DEF Cmdtobuff, UseShell, SetShellMark, Start, AfterDotty
<1>13. CASE Zgrep
  BY <1>13 DEF Zgrep, UseShell, SetShellMark, AfterDotty
<1>14. CASE Zkill
  BY <1>14 DEF Zkill, Kill, AfterDotty
<1>15. CASE Znext_error
  BY <1>15 DEF Znext_error, AfterDotty, os
<1>16. CASE DeleteShell
  BY <1>16 DEF DeleteShell, Kill
<1>17. CASE FreeShell
  BY <1>17 DEF FreeShell, AfterDotty
<1>18. CASE Other
  BY <1>18 DEF Other, AfterDotty, os
<1>19. CASE Exit
  BY <1>19 DEF Exit, Kill
<1>20. CASE UNCHANGED vars
  BY <1>20 DEF vars, os
<1> QED
  BY <1>1, <1>2, <1>3, <1>4, <1>5, <1>6, <1>7, <1>8, <1>9, <1>10, <1>11,
     <1>12, <1>13, <1>14, <1>15, <1>16, <1>17, <1>18, <1>19, <1>20 DEF Next, World, Command

\* pipebuff and the mark of a user who waits.
LEMMA DeleteStep ==
  ASSUME TypeOK, PipeWhole, DrainInv, DeleteInv, MarkInv, PipebuffLive, TypeOK', [Next]_vars
  PROVE  (DeleteInv /\ MarkInv /\ PipebuffLive)'
<1> USE Bounds
    DEF TypeOK, PipeWhole, DrainInv, DeleteInv, Deleting, MarkInv, PipebuffLive, text, marks, pipe, Undefined
<1>1. CASE Write
  BY <1>1 DEF Write, editor
<1>2. CASE LeaveBehind
  BY <1>2 DEF LeaveBehind, editor
<1>3. CASE CloseOutput
  BY <1>3 DEF CloseOutput, editor
<1>4. CASE HeirDies
  BY <1>4 DEF HeirDies, editor
<1>5. ASSUME NEW p \in Pid, ChildDies(p)
      PROVE  (DeleteInv /\ MarkInv /\ PipebuffLive)'
  BY <1>5 DEF ChildDies, editor
<1>6. CASE Readapipe
  BY <1>6 DEF Readapipe, ReadLines, os
<1>7. CASE Checkpipes
  BY <1>7 DEF Checkpipes, ClosePipe
<1>8. CASE Drain
  BY <1>8 DEF Drain, ReadLines, ClosePipe, os
<1>9. CASE ExecuteKey
  BY <1>9 DEF ExecuteKey, os
<1>10. CASE PollInterrupted
  BY <1>10 DEF PollInterrupted, os
<1>11. ASSUME NEW typed \in BOOLEAN, Poll(typed)
      PROVE  (DeleteInv /\ MarkInv /\ PipebuffLive)'
  BY <1>11 DEF Poll, os
<1>12. CASE Cmdtobuff
  BY <1>12 DEF Cmdtobuff, UseShell, SetShellMark, Start, AfterDotty
<1>13. CASE Zgrep
  BY <1>13 DEF Zgrep, UseShell, SetShellMark, AfterDotty
<1>14. CASE Zkill
  BY <1>14 DEF Zkill, Kill, AfterDotty
<1>15. CASE Znext_error
  <2> DEFINE from == IF NexterrorCalled THEN seen ELSE 0
  <2>1. pc = "dotty" /\ shell # NIL /\ UNCHANGED <<shell, pipebuff, child, errs, next>>
    BY <1>15 DEF Znext_error
  <2>2. careful' => careful /\ child = NIL
    BY <1>15 DEF Znext_error
  <2>3. CASE from < errs
    BY <1>15, <2>1, <2>2, <2>3 DEF Znext_error, AfterDotty
  <2>4. CASE ~ (from < errs)
    <3>1. shell_mark' = "none" /\ seen' = errs /\ NexterrorCalled' = TRUE
      BY <1>15, <2>4 DEF Znext_error
    <3>2. careful => pc' \in {"poll", "pipe"}
      BY <1>15, <2>4 DEF Znext_error, AfterDotty
    <3> QED BY <2>1, <2>2, <3>1, <3>2
  <2> QED BY <2>3, <2>4
<1>16. CASE DeleteShell
  BY <1>16 DEF DeleteShell, Kill
<1>17. CASE FreeShell
  BY <1>17 DEF FreeShell, AfterDotty
<1>18. CASE Other
  BY <1>18 DEF Other, AfterDotty, os
<1>19. CASE Exit
  BY <1>19 DEF Exit, Kill
<1>20. CASE UNCHANGED vars
  BY <1>20 DEF vars, os
<1> QED
  BY <1>1, <1>2, <1>3, <1>4, <1>5, <1>6, <1>7, <1>8, <1>9, <1>10, <1>11,
     <1>12, <1>13, <1>14, <1>15, <1>16, <1>17, <1>18, <1>19, <1>20 DEF Next, World, Command

-----------------------------------------------------------------------------
(* The theorems. *)

\* The variables keep their types: more errors than lines are never counted, and
\* the place of next-error stays among them.
THEOREM TypeCorrect == Spec => []TypeOK
<1>1. Init => TypeOs /\ TypeText /\ TypeEditor
  <2> SUFFICES ASSUME Init PROVE TypeOs /\ TypeText /\ TypeEditor
    OBVIOUS
  <2>1. holds \in BOOLEAN /\ NexterrorCalled \in BOOLEAN /\ revents \in BOOLEAN /\ careful \in BOOLEAN
    BY DEF Init
  <2>2. TypeOs
    BY <2>1, Bounds DEF Init, TypeOs
  <2>3. TypeText
    BY <2>1, Bounds DEF Init, TypeText
  <2>4. TypeEditor
    BY <2>1, Bounds DEF Init, TypeEditor
  <2> QED BY <2>2, <2>3, <2>4
<1>2. Init => TypeOK
  BY <1>1, TypeParts
<1> QED BY <1>2, TypeStep, PTL DEF Spec

\* The child, its pipe and the loop that empties it, as one invariant.
LEMMA ChildAndPipe == Spec => [](NoLostChild /\ PipeWhole /\ DrainInv)
<1> DEFINE Inv == NoLostChild /\ PipeWhole /\ DrainInv
<1>1. Init => Inv
  BY Bounds DEF Init, NoLostChild, PipeWhole, DrainInv
<1>2. TypeOK /\ Inv /\ [Next]_vars => Inv'
  BY ChildStep
<1> HIDE DEF Inv
<1>3. Spec => []Inv
  BY <1>1, <1>2, TypeCorrect, PTL DEF Spec
<1> QED BY <1>3 DEF Inv

\* No child is left unwaited for by a second command, for any number of process
\* ids: _cmdtobuff's test of child is enough, because the child is waited for
\* before its pipe is emptied, and both before child is cleared.
THEOREM NoChildIsLost == Spec => []NoLostChild
BY ChildAndPipe, PTL

\* execute never calls readapipe when the pipe has nothing: the revents of the
\* last poll may be stale after dotty, but then the pipe is still readable or
\* was closed by cdelbuff's checkpipes, and no command opens one in between.
THEOREM ExecuteNeverBlocks == Spec => []ExecuteDoesNotBlock
<1>1. Init => ReventsInv
  BY DEF Init, ReventsInv
<1>2. TypeOK /\ PipeWhole /\ ReventsInv /\ [Next]_vars => ReventsInv'
  BY ReventsStep
<1>3. ReventsInv => ExecuteDoesNotBlock
  BY DEF ReventsInv, ExecuteDoesNotBlock
<1> QED BY <1>1, <1>2, <1>3, TypeCorrect, ChildAndPipe, PTL DEF Spec

\* A user who waits for commands to end never leaves pipebuff on a buffer that
\* was deleted, at whatever address the next *shell* buffer comes, and never makes
\* the program write through a freed buffer, a freed mark or no mark.
THEOREM PipebuffStaysLive == Spec => []PipebuffLive
<1>1. Init /\ TypeOK => DeleteInv /\ MarkInv /\ PipebuffLive
  BY DEF Init, DeleteInv, Deleting, MarkInv, PipebuffLive, Undefined
<1>2. TypeOK /\ TypeOK' /\ PipeWhole /\ DrainInv /\ DeleteInv /\ MarkInv /\ PipebuffLive /\ [Next]_vars
        => DeleteInv' /\ MarkInv' /\ PipebuffLive'
  BY DeleteStep
<1> QED BY <1>1, <1>2, TypeCorrect, ChildAndPipe, PTL DEF Spec

\* When the editor closes the pipe because the command has ended, every line that
\* was written to it since the buffer was emptied is in the buffer.
THEOREM NoOutputIsLost == Spec => AllOutput
<1> DEFINE Complete == in_pipe # NIL /\ in_pipe' = NIL /\ pc' # "exited" => got = out /\ fill = 0
<1>1. Init => LinesInv
  BY DEF Init, LinesInv
<1>2. TypeOK /\ PipeWhole /\ DrainInv /\ LinesInv /\ [Next]_vars => LinesInv'
  BY LinesStep
<1>3. TypeOK /\ PipeWhole /\ DrainInv /\ LinesInv /\ [Next]_vars => Complete
  <2> SUFFICES ASSUME TypeOK, PipeWhole, DrainInv, LinesInv, [Next]_vars,
                      in_pipe # NIL, in_pipe' = NIL, pc' # "exited"
               PROVE  got = out /\ fill = 0
    OBVIOUS
  <2>1. Checkpipes \/ Drain \/ Cmdtobuff
    BY DEF Next, World, Command, vars, pipe, editor, Write, LeaveBehind, CloseOutput, HeirDies,
           ChildDies, Readapipe, ReadLines, ExecuteKey, PollInterrupted, Poll, Zgrep, Zkill,
           Znext_error, DeleteShell, FreeShell, Other, Exit
  <2>2. ~ Checkpipes
    BY DEF Checkpipes, ClosePipe, pipe, DrainInv
  <2>3. ~ Cmdtobuff
    BY Bounds DEF Cmdtobuff, Start, pipe
  <2>4. Drain /\ fill = 0
    BY <2>1, <2>2, <2>3 DEF Drain, ReadLines, pipe
  <2> QED BY <2>4 DEF Drain, LinesInv, TypeOK
<1> HIDE DEF Complete
<1>4. Spec => [][Complete]_vars
  BY <1>1, <1>2, <1>3, TypeCorrect, ChildAndPipe, PTL DEF Spec
<1> QED BY <1>4 DEF AllOutput, Complete
=============================================================================
