---------------------------- MODULE FilesTheorems ----------------------------
(***************************************************************************)
(* What saving promises holds for any buffers and files, however often     *)
(* other programs write, whatever fails and wherever a signal comes in.    *)
(*                                                                         *)
(* A clean buffer is on disk because no other buffer writes its file, and  *)
(* because a save that has emptied the file has marked its buffer.  The    *)
(* user is warned because the time of a file never goes below the one the  *)
(* buffer knows, so that it is equal when it is not later, and because a   *)
(* text that comes after the check has a version of its own.               *)
(***************************************************************************)
EXTENDS Files, FiniteSetTheorems, SequenceTheorems, TLAPS

\* No two buffers are on one file.
UniqueFiles ==
  \A b, c \in Buffer : b # c => buf[b].file = NIL \/ buf[b].file # buf[c].file

\* A buffer r and what its file holds: no version is later than v, and the file
\* is not older than the buffer thinks.
Fit(r, d, v) ==
  /\ r.text.v <= v /\ r.first.v <= v
  /\ r.file = NIL => r.mtime = 0
  /\ r.file # NIL /\ r.mtime # 0 /\ d # NONE => r.mtime <= d.mtime

\* A buffer r that is shown as unmodified is safe to leave.
Clean(r, d) ==
  \/ r.modf \/ r.loose \/ r.text.v = 0
  \/ r.file # NIL /\ d # NONE /\ (d.text = r.text \/ d.text.v \notin r.own)

DataInv ==
  /\ UniqueFiles
  /\ \A f \in File : disk[f] # NONE => disk[f].text.v <= fresh
  /\ \A b \in Buffer :
       /\ Fit(buf[b], disk[buf[b].file], fresh)
       /\ b \notin SYSBUFF => Clean(buf[b], disk[buf[b].file])

\* A save that may return to saveall knows where that began.
HasStart(c) ==
  /\ c.at \in {"promptsave", "save?"} \/ c.todo # <<>> => c.start \in Buffer
  /\ c.at = "save?" => c.todo # <<>>

\* What creat needs to empty a file that holds d, of version v.
Warned(c, r, d, v) ==
  d = NONE \/ c.told \/ r.mtime = 0 \/ d.mtime = r.mtime \/ v # c.checked

\* Where a save has got to.
Saving ==
  /\ call.at \in {"overwrite?", "preserve?", "creat", "write"} => buf[cur].file # NIL
  /\ call.at \in {"preserve?", "creat"} =>
       Warned(call, buf[cur], disk[buf[cur].file], Version(buf[cur].file))
  /\ call.at = "write" => buf[cur].modf \/ buf[cur].loose

CallInv == HasStart(call) /\ (out = "running" => Saving)

\* Who leaves without being asked leaves nothing; who is hung up writes what can
\* be written.
EndInv ==
  /\ out = "exited" /\ ~ call.told => Modified = {}
  /\ out = "hung up" /\ ~ InPaw /\ buf[cur].file # NIL =>
       \A b \in Modified :
         LET f == buf[b].file IN f # NIL => disk[f] # NONE /\ disk[f].text = buf[b].text

FilesInv == TypeOK /\ DataInv /\ CallInv /\ EndInv

-----------------------------------------------------------------------------
(* The parts the steps are made of. *)

\* What is in a file.
Disk == {NONE} \cup [text : Text, mtime : 1 .. now]

\* The types, one by one.
LEMMA TypeParts ==
  TypeOK <=>
    /\ disk \in [File -> Disk] /\ linked \subseteq File /\ cur \in Buffer
    /\ save_all \in BOOLEAN /\ buf \in [Buffer -> BufType] /\ call \in CallType
    /\ now \in 1 .. MaxTime /\ fresh \in 0 .. MaxTexts /\ calls \in 0 .. MaxCalls
    /\ out \in {"running", "exited", "hung up"}
BY DEF TypeOK, Disk

\* The bounds are numbers.
LEMMA Bounds ==
  MaxTexts \in Nat /\ MaxTime \in Nat \ {0} /\ MaxCalls \in Nat /\ NIL \notin File
BY FilesAssumption

\* So are the times and versions.
LEMMA Clocks ==
  ASSUME TypeOK
  PROVE  /\ now \in Nat \ {0} /\ fresh \in Nat /\ fresh <= MaxTexts /\ cur \in Buffer
         /\ 0 \in 0 .. now /\ 0 \in 0 .. fresh
<1>1. now \in 1 .. MaxTime /\ fresh \in 0 .. MaxTexts /\ cur \in Buffer BY TypeParts
<1> QED BY <1>1, Bounds

\* saveall goes through the ends of the list of buffers.
LEMMA Suffixes ==
  /\ Bufflist \in Suffix /\ <<>> \in Suffix
  /\ \A s \in Suffix : s # <<>> => Head(s) \in Buffer /\ Tail(s) \in Suffix
<1> DEFINE L == Len(Bufflist)
<1>1. Bufflist \in Seq(Buffer) /\ L \in Nat \ {0} BY FilesAssumption
<1>2. Bufflist \in Suffix
  <2>1. SubSeq(Bufflist, 1, L) = Bufflist BY <1>1
  <2>2. 1 \in 1 .. L + 1 BY <1>1
  <2> QED BY <2>1, <2>2 DEF Suffix
<1>3. <<>> \in Suffix
  <2>1. SubSeq(Bufflist, L + 1, L) = <<>> BY <1>1
  <2>2. L + 1 \in 1 .. L + 1 BY <1>1
  <2> QED BY <2>1, <2>2 DEF Suffix
<1>4. ASSUME NEW s \in Suffix, s # <<>> PROVE Head(s) \in Buffer /\ Tail(s) \in Suffix
  <2>1. PICK n \in 1 .. L + 1 : s = SubSeq(Bufflist, n, L) BY DEF Suffix
  <2>2. n \in 1 .. L
    <3>1. n = L + 1 => SubSeq(Bufflist, n, L) = <<>> BY <1>1
    <3> QED BY <1>1, <1>4, <2>1, <3>1
  <2>3. s \in Seq(Buffer) /\ Len(s) = L - n + 1 /\ \A k \in 1 .. L - n + 1 : s[k] = Bufflist[n + k - 1]
    BY <1>1, <2>1, <2>2
  <2>4. Head(s) \in Buffer BY <1>1, <2>2, <2>3
  <2> DEFINE t == SubSeq(Bufflist, n + 1, L)
  <2>5. t \in Seq(Buffer) /\ Len(t) = L - n /\ \A k \in 1 .. L - n : t[k] = Bufflist[n + 1 + k - 1]
    BY <1>1, <2>2
  <2>6. Tail(s) \in Seq(Buffer) /\ Len(Tail(s)) = L - n /\ \A k \in 1 .. L - n : Tail(s)[k] = s[k + 1]
    BY <1>1, <1>4, <2>2, <2>3
  <2>7. \A k \in 1 .. L - n : Tail(s)[k] = t[k]
    BY <1>1, <2>2, <2>3, <2>5, <2>6
  <2> HIDE DEF t
  <2>8. Tail(s) = t BY <2>5, <2>6, <2>7, SeqEqual
  <2>9. n + 1 \in 1 .. L + 1 BY <1>1, <2>2
  <2> QED BY <2>4, <2>8, <2>9 DEF t, Suffix
<1> QED BY <1>2, <1>3, <1>4

\* No command runs.
LEMMA IdleCall == TypeOK => Idle \in CallType /\ HasStart(Idle) /\ Idle.at = "idle"
<1> SUFFICES ASSUME TypeOK PROVE Idle \in CallType /\ HasStart(Idle) /\ Idle.at = "idle"
  OBVIOUS
<1>1. 0 \in 0 .. fresh /\ <<>> \in Suffix BY Clocks, Suffixes
<1> QED BY <1>1 DEF Idle, CallType, HasStart

\* saveall begins with the whole list.
LEMMA SaveAllCall ==
  ASSUME TypeOK, NEW must \in BOOLEAN, NEW then \in {"done", "zexit", "quit"}
  PROVE  /\ SaveAll(must, then) \in CallType /\ HasStart(SaveAll(must, then))
         /\ SaveAll(must, then).at = "promptsave"
<1>1. cur \in Buffer /\ Bufflist \in Suffix /\ Idle \in CallType BY Clocks, Suffixes, IdleCall
<1> QED BY <1>1 DEF SaveAll, CallType, HasStart

\* A save goes back to saveall or to the user.
LEMMA AfterSaveCall ==
  ASSUME FilesInv, NEW ok \in BOOLEAN
  PROVE  /\ AfterSave(ok) \in CallType /\ HasStart(AfterSave(ok))
         /\ AfterSave(ok).at \in {"promptsave", "idle"}
<1>1. TypeOK /\ call \in CallType /\ HasStart(call)
  BY TypeParts DEF FilesInv, CallInv
<1>2. call.must \in BOOLEAN BY <1>1 DEF CallType
<1> DEFINE more == [call EXCEPT !.at = "promptsave", !.todo = Tail(@), !.told = FALSE]
<1>3. call.todo # <<>> => more \in CallType /\ HasStart(more) /\ more.at = "promptsave"
  BY <1>1, Suffixes DEF CallType, HasStart
<1>4. CASE call.todo = <<>>
  <2>1. AfterSave(ok) \in {SaveAll(call.must, "quit"), Idle} BY <1>4 DEF AfterSave
  <2> QED BY <1>1, <1>2, <2>1, SaveAllCall, IdleCall
<1>5. CASE call.todo # <<>>
  <2>1. AfterSave(ok) \in {more, SaveAll(TRUE, "quit"), Idle} BY <1>5 DEF AfterSave
  <2> QED BY <1>1, <1>3, <1>5, <2>1, SaveAllCall, IdleCall
<1> QED BY <1>4, <1>5

\* The check of the file's time: the user is asked if it is later.
LEMMA CheckCall ==
  ASSUME FilesInv, NEW r \in BufType, NEW f \in File,
         r.mtime # 0 /\ disk[f] # NONE => r.mtime <= disk[f].mtime
  PROVE  /\ Check(r, f) \in CallType
         /\ Check(r, f).at \in {"overwrite?", "preserve?", "creat"}
         /\ Check(r, f).todo = call.todo /\ Check(r, f).start = call.start
         /\ Check(r, f).at # "overwrite?" => Warned(Check(r, f), r, disk[f], Version(f))
<1> DEFINE d == disk[f]
           known == r.mtime # 0 /\ d # NONE
           c == [call EXCEPT !.nlink = known /\ f \in linked, !.checked = Version(f)]
<1>1. call \in CallType /\ d \in Disk /\ fresh \in Nat /\ now \in Nat
  BY TypeParts, Clocks DEF FilesInv
<1>2. Version(f) \in 0 .. fresh
  <2>1. d # NONE => d.text.v <= fresh BY DEF FilesInv, DataInv
  <2>2. d # NONE => d.text.v \in Nat BY <1>1, Bounds DEF Disk, Text
  <2> QED BY <1>1, <2>1, <2>2 DEF Version
<1>3. (known /\ f \in linked) \in BOOLEAN OBVIOUS
<1>4. c \in CallType /\ c.checked = Version(f) /\ c.todo = call.todo /\ c.start = call.start
  BY <1>1, <1>2, <1>3 DEF CallType
<1>5. Check(r, f) = CASE known /\ d.mtime > r.mtime            -> [c EXCEPT !.at = "overwrite?"]
                      [] known /\ d.mtime <= r.mtime /\ c.nlink -> [c EXCEPT !.at = "preserve?"]
                      [] OTHER                                  -> [c EXCEPT !.at = "creat"]
  BY DEF Check
<1>6. r.mtime \in Nat /\ (known => d.mtime \in Nat) BY <1>1, Bounds DEF BufType, Disk
<1>7. known /\ d.mtime <= r.mtime => d.mtime = r.mtime BY <1>6
<1> HIDE DEF c
<1>8. CASE known /\ d.mtime > r.mtime
  <2>1. Check(r, f) = [c EXCEPT !.at = "overwrite?"] BY <1>5, <1>6, <1>8
  <2> QED BY <1>4, <2>1 DEF CallType
<1>9. CASE ~ known
  <2>1. Check(r, f) = [c EXCEPT !.at = "creat"] BY <1>5, <1>9
  <2> QED BY <1>4, <1>9, <2>1 DEF CallType, Warned
<1>10. CASE known /\ d.mtime <= r.mtime
  <2>1. Check(r, f) \in {[c EXCEPT !.at = "preserve?"], [c EXCEPT !.at = "creat"]}
    BY <1>5, <1>6, <1>10
  <2> QED BY <1>4, <1>7, <1>10, <2>1 DEF CallType, Warned
<1> QED BY <1>6, <1>8, <1>9, <1>10

\* A step that changes one buffer and at most the file it has then.
LEMMA OneBuffer ==
  ASSUME FilesInv, NEW b \in Buffer, NEW r, buf' = [buf EXCEPT ![b] = r],
         fresh' \in Nat, fresh <= fresh',
         r.file \in File \cup {NIL},
         r.file = NIL \/ \A c \in Buffer \ {b} : buf[c].file # r.file,
         \A f \in File : f = r.file \/ disk'[f] = disk[f],
         r.file \in File => disk'[r.file] = NONE \/ disk'[r.file].text.v <= fresh',
         Fit(r, disk'[r.file], fresh'), b \in SYSBUFF \/ Clean(r, disk'[r.file])
  PROVE  DataInv'
<1>1. buf \in [Buffer -> BufType] /\ disk \in [File -> Disk] /\ fresh \in Nat
  BY TypeParts, Clocks DEF FilesInv
<1>2. buf'[b] = r /\ \A c \in Buffer \ {b} : buf'[c] = buf[c] BY <1>1
<1>3. UniqueFiles' BY <1>2 DEF FilesInv, DataInv, UniqueFiles
<1>4. ASSUME NEW f \in File, disk'[f] # NONE PROVE disk'[f].text.v <= fresh'
  <2>1. CASE f = r.file BY <1>4, <2>1
  <2>2. CASE f # r.file
    <3>1. disk'[f] = disk[f] BY <2>2
    <3>2. disk[f] \in [text : Text, mtime : 1 .. now] BY <1>1, <1>4, <3>1 DEF Disk
    <3>3. disk[f].text.v <= fresh /\ disk[f].text.v \in Int
      BY <1>4, <3>1, <3>2, Bounds DEF FilesInv, DataInv, Text
    <3> QED BY <1>1, <3>1, <3>3
  <2> QED BY <2>1, <2>2
<1>5. ASSUME NEW c \in Buffer
      PROVE  /\ Fit(buf'[c], disk'[buf'[c].file], fresh')
             /\ c \notin SYSBUFF => Clean(buf'[c], disk'[buf'[c].file])
  <2>1. CASE c = b BY <1>2, <2>1
  <2>2. CASE c # b
    <3>1. buf'[c] = buf[c] /\ buf[c].file \in File \cup {NIL}
      <4>1. buf[c] \in BufType BY <1>1
      <4> QED BY <1>2, <2>2, <4>1 DEF BufType
    <3>2. buf[c].file # NIL => disk'[buf[c].file] = disk[buf[c].file]
      BY <2>2, <3>1
    <3>3. Fit(buf[c], disk[buf[c].file], fresh) /\ (c \notin SYSBUFF => Clean(buf[c], disk[buf[c].file]))
      BY DEF FilesInv, DataInv
    <3>4. buf[c].text.v \in Int /\ buf[c].first.v \in Int
      <4>1. buf[c] \in BufType BY <1>1
      <4> QED BY <4>1, Bounds DEF BufType, Text
    <3>5. buf[c].text.v <= fresh' /\ buf[c].first.v <= fresh'
      BY <1>1, <3>3, <3>4 DEF Fit
    <3>6. Fit(buf[c], disk'[buf[c].file], fresh') BY <3>1, <3>2, <3>3, <3>5 DEF Fit
    <3>7. c \notin SYSBUFF => Clean(buf[c], disk'[buf[c].file]) BY <3>2, <3>3 DEF Clean
    <3> QED BY <3>1, <3>6, <3>7
  <2> QED BY <2>1, <2>2
<1> QED BY <1>3, <1>4, <1>5 DEF DataInv

\* The types after a step, in which time and versions only grow.
LEMMA TypeStep ==
  ASSUME TypeOK, now' \in 1 .. MaxTime, fresh' \in 0 .. MaxTexts,
         save_all' \in BOOLEAN, linked' \subseteq File, calls' \in 0 .. MaxCalls,
         out' \in {"running", "exited", "hung up"}, cur' \in Buffer,
         call' \in CallType', buf' \in [Buffer -> BufType'], disk' \in [File -> Disk']
  PROVE  TypeOK'
BY DEF TypeOK, Disk

\* What is of a type stays of it.
LEMMA TypesGrow ==
  ASSUME TypeOK, now <= now', fresh <= fresh', now' \in Nat, fresh' \in Nat
  PROVE  BufType \subseteq BufType' /\ CallType \subseteq CallType' /\ Disk \subseteq Disk'
<1>1. now \in Nat /\ fresh \in Nat BY Clocks
<1>2. 0 .. now \subseteq 0 .. now' /\ 1 .. now \subseteq 1 .. now' /\ 0 .. fresh \subseteq 0 .. fresh'
  BY <1>1
<1>3. BufType \subseteq BufType' BY <1>2 DEF BufType
<1>4. CallType \subseteq CallType' BY <1>2 DEF CallType
<1>5. Disk \subseteq Disk' BY <1>2 DEF Disk
<1> QED BY <1>3, <1>4, <1>5

\* A step that asks, answers or begins a command: no text changes.
LEMMA QuietStep ==
  ASSUME FilesInv, UNCHANGED <<disk, linked, buf, now, fresh>>, out' = "running",
         save_all' \in BOOLEAN, calls' \in 0 .. MaxCalls, cur' \in Buffer,
         call' \in CallType, HasStart(call'), Saving'
  PROVE  FilesInv'
<1>1. TypeOK'
  <2>1. BufType' = BufType /\ CallType' = CallType /\ Disk' = Disk BY DEF BufType, CallType, Disk
  <2>2. TypeOK BY DEF FilesInv
  <2> QED BY <2>1, <2>2, TypeParts, TypeStep
<1>2. DataInv' BY DEF FilesInv, DataInv, UniqueFiles
<1>3. CallInv' BY DEF CallInv
<1>4. EndInv' BY DEF EndInv
<1> QED BY <1>1, <1>2, <1>3, <1>4 DEF FilesInv

\* A step that changes the current buffer and at most its file.
LEMMA OneStep ==
  ASSUME FilesInv, NEW r \in BufType, buf' = [buf EXCEPT ![cur] = r],
         UNCHANGED <<now, fresh, cur>>, out' = "running",
         save_all' \in BOOLEAN, linked' \subseteq File, calls' \in 0 .. MaxCalls,
         disk' \in [File -> Disk],
         r.file = buf[cur].file \/ r.file \in Free,
         \A f \in File : f = r.file \/ disk'[f] = disk[f],
         r.file \in File => disk'[r.file] = NONE \/ disk'[r.file].text.v <= fresh,
         Fit(r, disk'[r.file], fresh), cur \in SYSBUFF \/ Clean(r, disk'[r.file]),
         call' \in CallType, HasStart(call'), Saving'
  PROVE  FilesInv'
<1>1. TypeOK /\ buf \in [Buffer -> BufType] /\ cur \in Buffer /\ fresh \in Nat
  BY TypeParts, Clocks DEF FilesInv
<1>2. TypeOK'
  <2>1. BufType' = BufType /\ CallType' = CallType /\ Disk' = Disk BY DEF BufType, CallType, Disk
  <2>2. buf' \in [Buffer -> BufType] BY <1>1
  <2>3. now' \in 1 .. MaxTime /\ fresh' \in 0 .. MaxTexts BY <1>1, TypeParts
  <2> QED BY <1>1, <2>1, <2>2, <2>3, TypeStep
<1>3. r.file = NIL \/ \A c \in Buffer \ {cur} : buf[c].file # r.file
  <2>1. CASE r.file = buf[cur].file
    <3>1. UniqueFiles BY DEF FilesInv, DataInv
    <3> QED BY <1>1, <2>1, <3>1 DEF UniqueFiles
  <2>2. CASE r.file \in Free BY <2>2 DEF Free
  <2> QED BY <2>1, <2>2
<1>4. r.file \in File \cup {NIL} BY DEF BufType
<1>5. DataInv'
  <2>1. fresh' \in Nat /\ fresh <= fresh' /\ Fit(r, disk'[r.file], fresh')
        /\ (r.file \in File => disk'[r.file] = NONE \/ disk'[r.file].text.v <= fresh')
    BY <1>1
  <2> QED BY <1>1, <1>3, <1>4, <2>1, OneBuffer
<1>6. CallInv' BY DEF CallInv
<1>7. EndInv' BY DEF EndInv
<1> QED BY <1>2, <1>5, <1>6, <1>7 DEF FilesInv

\* Nothing is asked of a save that does not run.
LEMMA Calm ==
  ASSUME call'.at \in {"idle", "promptsave", "save?", "filesave", "quit"}
  PROVE  Saving'
BY DEF Saving

-----------------------------------------------------------------------------
(* Saving all. *)

\* saveall is through.
LEMMA AfterAllCall ==
  ASSUME FilesInv, call.at = "promptsave"
  PROVE  /\ AfterAll \in CallType /\ HasStart(AfterAll)
         /\ AfterAll.at \in {"promptsave", "quit", "idle"} /\ call.start \in Buffer
<1>1. TypeOK /\ call \in CallType /\ call.start \in Buffer
  BY TypeParts DEF FilesInv, CallInv, HasStart
<1> DEFINE again == SaveAll(TRUE, "quit")
<1>2. again \in CallType /\ again.at = "promptsave" BY <1>1, SaveAllCall
<1>3. Idle \in CallType /\ HasStart(Idle) /\ Idle.at = "idle" /\ Idle.todo = <<>>
  BY <1>1, IdleCall DEF Idle
<1>4. CASE call.then = "zexit"
  <2>1. AfterAll = [again EXCEPT !.start = call.start] BY <1>4 DEF AfterAll
  <2> HIDE DEF again
  <2> QED BY <1>1, <1>2, <2>1 DEF CallType, HasStart
<1>5. CASE call.then = "quit"
  <2>1. AfterAll = [Idle EXCEPT !.at = "quit"] BY <1>5 DEF AfterAll
  <2> QED BY <1>1, <1>3, <2>1 DEF CallType, HasStart
<1>6. CASE call.then = "done"
  <2>1. AfterAll = Idle BY <1>6 DEF AfterAll
  <2> QED BY <1>1, <1>3, <2>1
<1> QED BY <1>1, <1>4, <1>5, <1>6 DEF CallType

\* promptsave looks at the next buffer.
LEMMA PromptsaveStep == ASSUME FilesInv, out = "running", Promptsave PROVE FilesInv'
<1>1. call.at = "promptsave" /\ UNCHANGED <<disk, linked, buf, now, fresh, save_all, calls, out>>
  BY DEF Promptsave, others
<1>2. TypeOK /\ call \in CallType /\ HasStart(call) /\ call.todo \in Suffix /\ cur \in Buffer
      /\ save_all' \in BOOLEAN /\ calls' \in 0 .. MaxCalls
  BY <1>1, TypeParts DEF FilesInv, CallInv, CallType
<1>3. CASE call.todo = <<>>
  <2>1. cur' = call.start /\ call' = AfterAll BY <1>3 DEF Promptsave
  <2> QED BY <1>1, <1>2, <2>1, AfterAllCall, Calm, QuietStep
<1>4. CASE call.todo # <<>>
  <2>1. Head(call.todo) \in Buffer /\ Tail(call.todo) \in Suffix BY <1>2, <1>4, Suffixes
  <2>2. \/ call' = [call EXCEPT !.todo = Tail(@)] /\ cur' = cur
        \/ call' = [call EXCEPT !.at = "filesave"] /\ cur' = Head(call.todo)
        \/ call' = [call EXCEPT !.at = "save?"] /\ cur' = cur
    BY <1>4 DEF Promptsave
  <2>3. call' \in CallType /\ HasStart(call') /\ call'.at \in {"promptsave", "filesave", "save?"}
    BY <1>1, <1>2, <1>4, <2>1, <2>2 DEF CallType, HasStart
  <2> QED BY <1>1, <1>2, <2>1, <2>2, <2>3, Calm, QuietStep
<1> QED BY <1>3, <1>4

\* The user says whether to save a buffer, or aborts.
LEMMA AnswerSaveStep == ASSUME FilesInv, out = "running", AnswerSave PROVE FilesInv'
<1>1. call.at = "save?" /\ UNCHANGED <<disk, linked, buf, now, fresh, calls, out>>
  BY DEF AnswerSave
<1>2. TypeOK /\ call \in CallType /\ HasStart(call) /\ call.todo \in Suffix /\ call.todo # <<>>
      /\ cur \in Buffer /\ calls' \in 0 .. MaxCalls /\ save_all \in BOOLEAN
  BY <1>1, TypeParts DEF FilesInv, CallInv, CallType, HasStart
<1>3. Head(call.todo) \in Buffer /\ Tail(call.todo) \in Suffix BY <1>2, Suffixes
<1>4. CASE \E bang \in BOOLEAN :
             /\ save_all' = (save_all \/ bang)
             /\ cur' = Head(call.todo) /\ call' = [call EXCEPT !.at = "filesave"]
  <2>1. save_all' \in BOOLEAN BY <1>4, Zenon
  <2>2. call' \in CallType /\ HasStart(call') /\ call'.at = "filesave"
    BY <1>1, <1>2, <1>4 DEF CallType, HasStart
  <2> QED BY <1>1, <1>2, <1>3, <1>4, <2>1, <2>2, Calm, QuietStep
<1>5. CASE promptsave(Head(call.todo))
  <2>1. call' = [call EXCEPT !.at = "promptsave", !.todo = Tail(@)]
        /\ UNCHANGED <<cur, save_all>>
    BY <1>5 DEF promptsave
  <2>2. call' \in CallType /\ HasStart(call') /\ call'.at = "promptsave"
    BY <1>1, <1>2, <1>3, <2>1 DEF CallType, HasStart
  <2> QED BY <1>1, <1>2, <2>1, <2>2, Calm, QuietStep
<1>6. CASE call' = AfterSave(FALSE) /\ UNCHANGED <<cur, save_all>>
  BY <1>1, <1>2, <1>6, AfterSaveCall, Calm, QuietStep
<1> QED BY <1>4, <1>5, <1>6 DEF AnswerSave

\* Modified buffers are left, or not.
LEMMA QuitStep == ASSUME FilesInv, out = "running", Quit PROVE FilesInv'
<1>1. call.at = "quit" /\ UNCHANGED <<disk, linked, buf, cur, now, fresh, save_all, calls>>
  BY DEF Quit, others
<1>2. TypeOK /\ call \in CallType /\ HasStart(call) /\ cur \in Buffer
      /\ save_all' \in BOOLEAN /\ calls' \in 0 .. MaxCalls
  BY <1>1, TypeParts DEF FilesInv, CallInv
<1>3. CASE out' = "exited" /\ call' = [call EXCEPT !.told = Modified # {}]
  <2>1. (Modified # {}) \in BOOLEAN OBVIOUS
  <2>2. call' \in CallType /\ HasStart(call') /\ call'.told = (Modified # {})
    BY <1>2, <1>3, <2>1 DEF CallType, HasStart
  <2>3. TypeOK'
    <3>1. BufType' = BufType /\ CallType' = CallType /\ Disk' = Disk
      BY <1>1 DEF BufType, CallType, Disk
    <3> QED BY <1>1, <1>2, <1>3, <2>2, <3>1, TypeParts, TypeStep
  <2>4. DataInv' BY <1>1 DEF FilesInv, DataInv, UniqueFiles
  <2>5. CallInv' BY <1>3, <2>2 DEF CallInv
  <2>6. EndInv' BY <1>1, <1>3, <2>2 DEF EndInv, Modified
  <2> QED BY <2>3, <2>4, <2>5, <2>6 DEF FilesInv
<1>4. CASE call' = Idle /\ out' = out
  BY <1>1, <1>2, <1>4, IdleCall, Calm, QuietStep
<1> QED BY <1>3, <1>4 DEF Quit

-----------------------------------------------------------------------------
(* Saving one buffer. *)

\* What a save knows of its buffer.
LEMMA CurParts ==
  ASSUME FilesInv
  PROVE  /\ TypeOK /\ cur \in Buffer /\ buf[cur] \in BufType /\ buf \in [Buffer -> BufType]
         /\ disk \in [File -> Disk] /\ call \in CallType /\ HasStart(call)
         /\ linked \subseteq File /\ save_all \in BOOLEAN /\ calls \in 0 .. MaxCalls
         /\ Fit(buf[cur], disk[buf[cur].file], fresh)
         /\ (cur \in SYSBUFF \/ Clean(buf[cur], disk[buf[cur].file]))
         /\ \A f \in File : disk[f] = NONE \/ disk[f].text.v <= fresh
<1>1. TypeOK /\ cur \in Buffer /\ buf \in [Buffer -> BufType]
  BY TypeParts DEF FilesInv
<1> QED BY <1>1, TypeParts DEF FilesInv, DataInv, CallInv

\* filesave has a name or asks for one, and checks the file's time.
LEMMA FilesaveStep == ASSUME FilesInv, out = "running", filesave PROVE FilesInv'
<1> DEFINE b == buf[cur]
<1>1. call.at = "filesave" /\ UNCHANGED <<disk, cur, linked, save_all, now, fresh, calls, out>>
  BY DEF filesave, others
<1>2. /\ cur \in Buffer /\ b \in BufType /\ call \in CallType /\ HasStart(call)
      /\ Fit(b, disk[b.file], fresh) /\ save_all' \in BOOLEAN /\ calls' \in 0 .. MaxCalls
      /\ linked' \subseteq File /\ disk' \in [File -> Disk] /\ buf \in [Buffer -> BufType]
  BY <1>1, CurParts
<1>3. CASE b.file # NIL
  <2> DEFINE c == Check(b, b.file)
  <2>1. call' = c /\ buf' = buf BY <1>3 DEF filesave
  <2>2. b.file \in File /\ (b.mtime # 0 /\ disk[b.file] # NONE => b.mtime <= disk[b.file].mtime)
    BY <1>2, <1>3 DEF BufType, Fit
  <2>3. /\ c \in CallType /\ c.at \in {"overwrite?", "preserve?", "creat"}
        /\ c.todo = call.todo /\ c.start = call.start
        /\ c.at # "overwrite?" => Warned(c, b, disk[b.file], Version(b.file))
    BY <1>2, <2>2, CheckCall
  <2> HIDE DEF c
  <2>4. HasStart(c) BY <1>2, <2>3 DEF HasStart
  <2>5. Saving' BY <1>1, <1>3, <2>1, <2>3 DEF Saving, Version
  <2> QED BY <1>1, <1>2, <2>1, <2>3, <2>4, <2>5, QuietStep
<1>4. ASSUME NEW f \in Free, b.file = NIL, call' = Check(b, f),
             buf' = [buf EXCEPT ![cur].file = f, ![cur].loose = @ \/ ~ b.modf]
      PROVE  FilesInv'
  <2> DEFINE c == Check(b, f)
             r == [b EXCEPT !.file = f, !.loose = @ \/ ~ b.modf]
  <2>1. f \in File /\ b.mtime = 0 BY <1>2, <1>4 DEF Free, Fit
  <2>2. /\ c \in CallType /\ c.at \in {"overwrite?", "preserve?", "creat"}
        /\ c.todo = call.todo /\ c.start = call.start
    BY <1>2, <2>1, CheckCall
  <2> HIDE DEF c
  <2>3. (b.loose \/ ~ b.modf) \in BOOLEAN OBVIOUS
  <2>4. r \in BufType /\ r.file = f /\ r.mtime = 0 /\ r.text = b.text /\ r.first = b.first
        /\ r.modf = b.modf /\ r.loose = (b.loose \/ ~ b.modf)
    BY <1>2, <2>1, <2>3 DEF BufType
  <2>5. buf' = [buf EXCEPT ![cur] = r] BY <1>4
  <2>6. buf'[cur] = r BY <1>2, <2>5
  <2> HIDE DEF r
  <2>7. Fit(r, disk'[r.file], fresh) BY <1>2, <2>4 DEF Fit
  <2>8. Clean(r, disk'[r.file]) BY <2>4 DEF Clean
  <2>9. HasStart(c) BY <1>2, <2>2 DEF HasStart
  <2>10. f # NIL BY <2>1, Bounds
  <2>11. Saving' BY <1>1, <1>4, <2>2, <2>4, <2>6, <2>10 DEF Saving, Warned, c
  <2>12. r.file \in File => disk'[r.file] = NONE \/ disk'[r.file].text.v <= fresh
    BY <1>1, CurParts
  <2> QED BY <1>1, <1>2, <1>4, <2>2, <2>4, <2>5, <2>7, <2>8, <2>9, <2>11, <2>12, OneStep DEF c
<1>5. CASE call' = AfterSave(FALSE) /\ buf' = buf
  BY <1>1, <1>2, <1>5, AfterSaveCall, Calm, QuietStep
<1> QED BY <1>3, <1>4, <1>5 DEF filesave

\* The user lets a newer file be overwritten, or not.
LEMMA AnswerOverwriteStep == ASSUME FilesInv, out = "running", AnswerOverwrite PROVE FilesInv'
<1>1. call.at = "overwrite?" /\ UNCHANGED <<disk, buf, cur, linked, save_all, now, fresh, calls, out>>
  BY DEF AnswerOverwrite, others
<1>2. /\ cur \in Buffer /\ call \in CallType /\ HasStart(call)
      /\ save_all' \in BOOLEAN /\ calls' \in 0 .. MaxCalls
  BY <1>1, CurParts
<1>3. CASE call' = [call EXCEPT !.at = IF call.nlink THEN "preserve?" ELSE "creat", !.told = TRUE]
  <2>1. call' \in CallType /\ call'.told = TRUE /\ call'.at \in {"preserve?", "creat"}
        /\ HasStart(call')
    BY <1>2, <1>3 DEF CallType, HasStart
  <2>2. buf[cur].file # NIL BY <1>1 DEF FilesInv, CallInv, Saving
  <2>3. Saving' BY <1>1, <2>1, <2>2 DEF Saving, Warned
  <2> QED BY <1>1, <1>2, <2>1, <2>3, QuietStep
<1>4. CASE call' = AfterSave(FALSE)
  BY <1>1, <1>2, <1>4, AfterSaveCall, Calm, QuietStep
<1> QED BY <1>3, <1>4 DEF AnswerOverwrite

\* The user keeps a link, or breaks it.
LEMMA AnswerPreserveStep == ASSUME FilesInv, out = "running", AnswerPreserve PROVE FilesInv'
<1> DEFINE b == buf[cur]
           c == [call EXCEPT !.at = "creat"]
           r == [b EXCEPT !.loose = @ \/ ~ b.modf]
<1>1. call.at = "preserve?" /\ UNCHANGED <<cur, save_all, now, fresh, calls, out>>
  BY DEF AnswerPreserve
<1>2. /\ cur \in Buffer /\ b \in BufType /\ call \in CallType /\ HasStart(call)
      /\ Fit(b, disk[b.file], fresh) /\ save_all' \in BOOLEAN /\ calls' \in 0 .. MaxCalls
      /\ linked \subseteq File /\ disk \in [File -> Disk] /\ buf \in [Buffer -> BufType]
  BY <1>1, CurParts
<1>3. b.file # NIL /\ Warned(call, b, disk[b.file], Version(b.file))
  BY <1>1 DEF FilesInv, CallInv, Saving
<1>4. c \in CallType /\ HasStart(c) /\ c.at = "creat" /\ c.told = call.told /\ c.checked = call.checked
  BY <1>1, <1>2 DEF CallType, HasStart
<1> HIDE DEF c
<1>5. CASE call' = c /\ UNCHANGED <<disk, linked, buf>>
  <2>1. Saving' BY <1>1, <1>3, <1>4, <1>5 DEF Saving, Warned, Version
  <2> QED BY <1>1, <1>2, <1>4, <1>5, <2>1, QuietStep
<1>6. CASE /\ call' = c
           /\ disk' = [disk EXCEPT ![b.file] = NONE] /\ linked' = linked \ {b.file}
           /\ buf' = [buf EXCEPT ![cur].loose = @ \/ ~ b.modf]
  <2>1. (b.loose \/ ~ b.modf) \in BOOLEAN OBVIOUS
  <2>2. r \in BufType /\ r.file = b.file /\ r.mtime = b.mtime /\ r.text = b.text
        /\ r.first = b.first /\ r.modf = b.modf /\ r.loose = (b.loose \/ ~ b.modf)
    BY <1>2, <2>1 DEF BufType
  <2>3. buf' = [buf EXCEPT ![cur] = r] BY <1>6
  <2>4. buf'[cur] = r BY <1>2, <2>3
  <2> HIDE DEF r
  <2>5. b.file \in File BY <1>2, <1>3 DEF BufType
  <2>6. disk'[b.file] = NONE /\ (\A f \in File : f = b.file \/ disk'[f] = disk[f])
        /\ disk' \in [File -> Disk]
    BY <1>2, <1>6, <2>5 DEF Disk
  <2>7. Fit(r, disk'[r.file], fresh) BY <1>2, <2>2, <2>6 DEF Fit
  <2>8. Clean(r, disk'[r.file]) BY <2>2 DEF Clean
  <2>9. Saving' BY <1>1, <1>3, <1>4, <1>6, <2>2, <2>4, <2>6 DEF Saving, Warned
  <2>10. linked' \subseteq File BY <1>2, <1>6
  <2> QED BY <1>1, <1>2, <1>4, <1>6, <2>2, <2>3, <2>6, <2>7, <2>8, <2>9, <2>10, OneStep
<1>7. CASE call' = AfterSave(FALSE) /\ UNCHANGED <<disk, linked, buf>>
  BY <1>1, <1>2, <1>7, AfterSaveCall, Calm, QuietStep
<1> QED BY <1>5, <1>6, <1>7 DEF AnswerPreserve, c

\* What is written now is a file, and not the lack of one.
LEMMA Written ==
  ASSUME TypeOK, NEW t \in Text
  PROVE  /\ Content(t) \in Disk /\ Content(t) # NONE
         /\ Content(t).text = t /\ Content(t).mtime = now
<1>1. now \in 1 .. now /\ now \in Nat BY Clocks
<1> QED BY <1>1, FilesAssumption DEF Content, Disk

\* The empty text is one.
LEMMA EmptyText == EMPTY \in Text /\ EMPTY.v = 0
BY Bounds DEF EMPTY, Text

\* creat empties the file, or fails.
LEMMA CreatStep == ASSUME FilesInv, out = "running", Creat PROVE FilesInv'
<1> DEFINE b == buf[cur]
           t == [b.text EXCEPT !.nl = TRUE]
           modf == b.modf \/ ~ b.text.nl
<1>1. call.at = "creat" /\ UNCHANGED <<cur, linked, save_all, now, fresh, calls, out>>
  BY DEF Creat, others
<1>2. /\ cur \in Buffer /\ b \in BufType /\ call \in CallType /\ HasStart(call)
      /\ Fit(b, disk[b.file], fresh) /\ save_all' \in BOOLEAN /\ calls' \in 0 .. MaxCalls
      /\ linked' \subseteq File /\ disk \in [File -> Disk] /\ buf \in [Buffer -> BufType]
      /\ (cur \in SYSBUFF \/ Clean(b, disk[b.file])) /\ TypeOK
      /\ \A f \in File : disk[f] = NONE \/ disk[f].text.v <= fresh
  BY <1>1, CurParts
<1>3. b.file # NIL /\ b.file \in File BY <1>1, <1>2 DEF FilesInv, CallInv, Saving, BufType
<1>4. b.text \in Text /\ t \in Text /\ t.v = b.text.v /\ (b.text.nl => t = b.text)
      /\ modf \in BOOLEAN
  BY <1>2 DEF BufType, Text
<1>5. CASE /\ buf' = [buf EXCEPT ![cur] = [b EXCEPT !.text = t, !.modf = modf]]
           /\ call' = AfterSave(FALSE) /\ disk' = disk
  <2> DEFINE r == [b EXCEPT !.text = t, !.modf = modf]
  <2> HIDE DEF t, modf
  <2>1. r \in BufType /\ r.file = b.file /\ r.mtime = b.mtime /\ r.text = t /\ r.first = b.first
        /\ r.modf = modf /\ r.loose = b.loose /\ r.own = b.own
    BY <1>2, <1>4 DEF BufType
  <2> HIDE DEF r
  <2>2. Fit(r, disk'[r.file], fresh) BY <1>2, <1>4, <1>5, <2>1 DEF Fit
  <2>3. cur \in SYSBUFF \/ Clean(r, disk'[r.file])
    BY <1>2, <1>4, <1>5, <2>1 DEF Clean, modf
  <2>4. buf' = [buf EXCEPT ![cur] = r] BY <1>5 DEF r
  <2>5. call' \in CallType /\ HasStart(call') /\ Saving' BY <1>5, AfterSaveCall, Calm
  <2> QED BY <1>1, <1>2, <1>5, <2>1, <2>2, <2>3, <2>4, <2>5, OneStep
<1>6. CASE /\ buf' = [buf EXCEPT ![cur] = [b EXCEPT !.text = t, !.modf = modf,
                                                  !.own = @ \cup {0}, !.loose = @ \/ ~ modf]]
           /\ disk' = [disk EXCEPT ![b.file] = Content(EMPTY)]
           /\ call' = [call EXCEPT !.at = "write"]
  <2> DEFINE loose == b.loose \/ ~ modf
             own   == b.own \cup {0}
             r     == [b EXCEPT !.text = t, !.modf = modf, !.own = own, !.loose = loose]
  <2>1. loose \in BOOLEAN OBVIOUS
  <2>2. own \in SUBSET (0 .. fresh) BY <1>2, Clocks DEF BufType
  <2>3. buf' = [buf EXCEPT ![cur] = r] BY <1>6
  <2> HIDE DEF t, modf, loose, own
  <2>4. r \in BufType /\ r.file = b.file /\ r.mtime = b.mtime /\ r.text = t /\ r.first = b.first
        /\ r.modf = modf /\ r.loose = loose
    BY <1>2, <1>4, <2>1, <2>2 DEF BufType
  <2> HIDE DEF r
  <2>5. Content(EMPTY) \in Disk /\ Content(EMPTY).text.v = 0 /\ Content(EMPTY).mtime = now
    BY <1>2, Written, EmptyText
  <2>6. disk'[b.file] = Content(EMPTY) /\ (\A f \in File : f = b.file \/ disk'[f] = disk[f])
        /\ disk' \in [File -> Disk]
    BY <1>2, <1>3, <1>6, <2>5
  <2>7. b.mtime <= now /\ 0 <= fresh BY <1>2, Clocks DEF BufType
  <2>8. Fit(r, disk'[r.file], fresh) BY <1>2, <1>3, <1>4, <2>4, <2>5, <2>6, <2>7 DEF Fit
  <2>9. Clean(r, disk'[r.file]) BY <2>4 DEF Clean, loose
  <2>10. call' \in CallType /\ HasStart(call') /\ call'.at = "write"
    BY <1>1, <1>2, <1>6 DEF CallType, HasStart
  <2>11. buf'[cur] = r BY <1>2, <2>3
  <2>12. Saving' BY <1>1, <1>3, <2>4, <2>10, <2>11 DEF Saving, loose
  <2>13. disk'[r.file] = NONE \/ disk'[r.file].text.v <= fresh BY <2>4, <2>5, <2>6, <2>7
  <2> QED BY <1>1, <1>2, <2>3, <2>4, <2>6, <2>8, <2>9, <2>10, <2>12, <2>13, OneStep
<1> QED BY <1>5, <1>6 DEF Creat

\* The text is written, or not all of it.
LEMMA WriteStep == ASSUME FilesInv, out = "running", zwritefile PROVE FilesInv'
<1> DEFINE b == buf[cur]
<1>1. call.at = "write" /\ UNCHANGED <<cur, linked, save_all, now, fresh, calls, out>>
      /\ bwritefile(b)
  BY DEF zwritefile, others
<1>2. /\ cur \in Buffer /\ b \in BufType /\ call \in CallType /\ HasStart(call)
      /\ Fit(b, disk[b.file], fresh) /\ save_all' \in BOOLEAN /\ calls' \in 0 .. MaxCalls
      /\ linked' \subseteq File /\ disk \in [File -> Disk] /\ buf \in [Buffer -> BufType]
      /\ TypeOK
  BY <1>1, CurParts
<1>3. b.file # NIL /\ b.file \in File /\ (b.modf \/ b.loose)
  BY <1>1, <1>2 DEF FilesInv, CallInv, Saving, BufType
<1>4. b.text \in Text /\ b.mtime <= now /\ now \in 0 .. now /\ 0 <= fresh
      /\ b.text.v <= fresh /\ b.first.v <= fresh
  BY <1>2, Clocks DEF BufType, Fit
<1>5. ASSUME NEW ok \in BOOLEAN, NEW r \in BufType, NEW x \in Disk, x # NONE, x.mtime = now,
             buf' = [buf EXCEPT ![cur] = r], disk' = [disk EXCEPT ![b.file] = x],
             r.file = b.file, r.text = b.text, r.first = b.first, r.mtime \in {b.mtime, now},
             x.text.v <= fresh, Clean(r, x), call' = AfterSave(ok)
      PROVE  FilesInv'
  <2>1. disk'[b.file] = x /\ (\A f \in File : f = b.file \/ disk'[f] = disk[f])
        /\ disk' \in [File -> Disk]
    BY <1>2, <1>3, <1>5
  <2>2. r.mtime <= now BY <1>4, <1>5
  <2>3. Fit(r, disk'[r.file], fresh) BY <1>3, <1>4, <1>5, <2>1, <2>2 DEF Fit
  <2>4. Clean(r, disk'[r.file]) BY <1>5, <2>1
  <2>5. call' \in CallType /\ HasStart(call') /\ Saving' BY <1>5, AfterSaveCall, Calm
  <2>6. disk'[r.file] = NONE \/ disk'[r.file].text.v <= fresh BY <1>5, <2>1
  <2> QED BY <1>1, <1>2, <1>5, <2>1, <2>3, <2>4, <2>5, <2>6, OneStep
<1>6. CASE /\ disk' = [disk EXCEPT ![b.file] = Content(b.text)]
           /\ buf' = [buf EXCEPT ![cur] = [b EXCEPT !.modf = FALSE, !.mtime = now,
                                                  !.own = @ \ {0}, !.loose = FALSE]]
           /\ call' = AfterSave(TRUE)
  <2> DEFINE r == [b EXCEPT !.modf = FALSE, !.mtime = now, !.own = @ \ {0}, !.loose = FALSE]
             x == Content(b.text)
  <2>1. r \in BufType /\ r.file = b.file /\ r.text = b.text /\ r.first = b.first /\ r.mtime = now
    BY <1>2, <1>4 DEF BufType
  <2>2. x \in Disk /\ x # NONE /\ x.mtime = now /\ x.text = b.text BY <1>2, <1>4, Written
  <2>3. Clean(r, x) BY <1>3, <2>1, <2>2 DEF Clean
  <2>4. buf' = [buf EXCEPT ![cur] = r] BY <1>6
  <2> HIDE DEF r, x
  <2> QED BY <1>4, <1>5, <1>6, <2>1, <2>2, <2>3, <2>4 DEF x
<1>7. CASE /\ disk' = [disk EXCEPT ![b.file] = Content(EMPTY)]
           /\ call' = AfterSave(FALSE) /\ buf' = buf
  <2> DEFINE x == Content(EMPTY)
  <2>1. x \in Disk /\ x # NONE /\ x.mtime = now /\ x.text.v <= fresh
    BY <1>2, <1>4, Written, EmptyText
  <2>2. Clean(b, x) BY <1>3 DEF Clean
  <2>3. buf' = [buf EXCEPT ![cur] = b] BY <1>2, <1>7
  <2> HIDE DEF x
  <2> QED BY <1>2, <1>5, <1>7, <2>1, <2>2, <2>3 DEF x
<1> QED BY <1>1, <1>6, <1>7 DEF bwritefile

-----------------------------------------------------------------------------
(* Commands. *)

\* A command begins.
LEMMA CommandParts ==
  ASSUME FilesInv, NEW c, Command(c)
  PROVE  /\ call.at = "idle" /\ call' = c /\ calls' \in 0 .. MaxCalls
         /\ UNCHANGED <<linked, save_all, now, out>> /\ save_all' \in BOOLEAN
<1>1. calls \in 0 .. MaxCalls /\ save_all \in BOOLEAN BY CurParts
<1> QED BY <1>1, Bounds DEF Command

\* A command that begins with a save.
LEMMA SaveCommand ==
  ASSUME FilesInv, out = "running", NEW c, Command(c), c \in CallType, HasStart(c),
         c.at \in {"promptsave", "filesave"}, UNCHANGED <<disk, buf, cur, fresh>>
  PROVE  FilesInv'
BY CommandParts, CurParts, Calm, QuietStep

\* save-file, alone or before leaving.
LEMMA SaveFileCall ==
  ASSUME TypeOK, NEW argp \in BOOLEAN, NEW then \in {"done", "zexit", "quit"}
  PROVE  /\ SaveFile(argp, then) \in CallType /\ HasStart(SaveFile(argp, then))
         /\ SaveFile(argp, then).at \in {"promptsave", "filesave"}
<1> DEFINE c == [Idle EXCEPT !.at = "filesave", !.then = then]
<1>1. c \in CallType /\ HasStart(c) /\ c.at = "filesave"
  BY IdleCall DEF CallType, HasStart, Idle
<1>2. SaveFile(argp, then) \in {SaveAll(FALSE, then), c} BY DEF SaveFile
<1> QED BY <1>1, <1>2, SaveAllCall

\* A command that changes the current buffer at once.
LEMMA AtOnce ==
  ASSUME FilesInv, out = "running", NEW c, Command(c), c \in CallType, HasStart(c),
         c.at \in {"idle", "promptsave", "filesave"}, UNCHANGED <<disk, cur, fresh>>,
         NEW r \in BufType, buf' = [buf EXCEPT ![cur] = r],
         r.file = buf[cur].file \/ r.file \in Free,
         Fit(r, disk[r.file], fresh), cur \in SYSBUFF \/ Clean(r, disk[r.file])
  PROVE  FilesInv'
<1>1. call' = c /\ calls' \in 0 .. MaxCalls /\ UNCHANGED <<linked, save_all, now, out>>
  BY CommandParts
<1>2. save_all' \in BOOLEAN /\ linked' \subseteq File /\ disk' \in [File -> Disk]
      /\ \A f \in File : disk'[f] = NONE \/ disk'[f].text.v <= fresh
  BY <1>1, CurParts
<1>3. Saving' BY <1>1, Calm
<1> QED BY <1>1, <1>2, <1>3, OneStep

\* Every file counts as modified.
LEMMA SaveAllFilesStep == ASSUME FilesInv, out = "running", Zsave_all_files PROVE FilesInv'
<1>1. PICK argp \in BOOLEAN :
        /\ Command(SaveAll(TRUE, "done"))
        /\ buf' = [b \in Buffer |-> [buf[b] EXCEPT !.modf =
                     @ \/ (argp /\ b \notin SYSBUFF /\ buf[b].file # NIL)]]
        /\ UNCHANGED <<disk, cur, fresh>>
  BY DEF Zsave_all_files
<1>2. /\ call' = SaveAll(TRUE, "done") /\ calls' \in 0 .. MaxCalls
      /\ UNCHANGED <<linked, save_all, now, out>>
  BY <1>1, CommandParts
<1>3. TypeOK /\ cur \in Buffer /\ buf \in [Buffer -> BufType] /\ disk \in [File -> Disk]
      /\ linked \subseteq File /\ save_all \in BOOLEAN
  BY CurParts
<1>4. call' \in CallType /\ HasStart(call') /\ call'.at = "promptsave" BY <1>2, <1>3, SaveAllCall
<1>5. ASSUME NEW b \in Buffer
      PROVE  /\ buf'[b] \in BufType /\ buf'[b].file = buf[b].file /\ buf'[b].text = buf[b].text
             /\ buf'[b].first = buf[b].first /\ buf'[b].mtime = buf[b].mtime
             /\ buf'[b].loose = buf[b].loose /\ buf'[b].own = buf[b].own
             /\ buf[b].modf => buf'[b].modf
  <2> DEFINE m == buf[b].modf \/ (argp /\ b \notin SYSBUFF /\ buf[b].file # NIL)
  <2>1. buf'[b] = [buf[b] EXCEPT !.modf = m] BY <1>1
  <2>2. m \in BOOLEAN OBVIOUS
  <2>3. buf[b].modf => m OBVIOUS
  <2>4. buf[b] \in BufType BY <1>3
  <2> HIDE DEF m
  <2> QED BY <2>1, <2>2, <2>3, <2>4 DEF BufType
<1>6. TypeOK'
  <2>1. BufType' = BufType /\ CallType' = CallType /\ Disk' = Disk
    BY <1>1, <1>2 DEF BufType, CallType, Disk
  <2>2. buf' \in [Buffer -> BufType] BY <1>1, <1>5
  <2> QED BY <1>1, <1>2, <1>3, <1>4, <2>1, <2>2, TypeParts, TypeStep
<1>7. DataInv'
  <2>1. UniqueFiles' BY <1>5 DEF FilesInv, DataInv, UniqueFiles
  <2>2. ASSUME NEW b \in Buffer
        PROVE  /\ Fit(buf'[b], disk[buf'[b].file], fresh)
               /\ b \notin SYSBUFF => Clean(buf'[b], disk[buf'[b].file])
    BY <1>5 DEF FilesInv, DataInv, Fit, Clean
  <2> QED BY <1>1, <2>1, <2>2 DEF FilesInv, DataInv
<1>8. CallInv' BY <1>4, Calm DEF CallInv
<1>9. EndInv' BY <1>2 DEF EndInv
<1> QED BY <1>6, <1>7, <1>8, <1>9 DEF FilesInv

\* Another name for the buffer's text.
LEMMA WriteFileStep == ASSUME FilesInv, out = "running", Zwrite_file PROVE FilesInv'
<1> DEFINE b == buf[cur]
<1>1. PICK f \in Free \cup ({b.file} \cap File), argp \in BOOLEAN :
        /\ Command(SaveFile(argp, "done"))
        /\ buf' = [buf EXCEPT ![cur].file = f, ![cur].mtime = 0, ![cur].loose = @ \/ ~ b.modf]
        /\ UNCHANGED <<disk, cur, fresh>>
  BY DEF Zwrite_file
<1> DEFINE loose == b.loose \/ ~ b.modf
           r == [b EXCEPT !.file = f, !.mtime = 0, !.loose = loose]
<1>2. TypeOK /\ b \in BufType /\ 0 \in 0 .. now /\ Fit(b, disk[b.file], fresh) BY CurParts, Clocks
<1>3. f \in File /\ (f = b.file \/ f \in Free) BY DEF Free
<1>4. loose \in BOOLEAN OBVIOUS
<1>5. buf' = [buf EXCEPT ![cur] = r] BY <1>1
<1> HIDE DEF loose
<1>6. r \in BufType /\ r.file = f /\ r.mtime = 0 /\ r.text = b.text /\ r.first = b.first
      /\ r.modf = b.modf /\ r.loose = loose
  BY <1>2, <1>3, <1>4 DEF BufType
<1> HIDE DEF r
<1>7. Fit(r, disk[r.file], fresh) BY <1>2, <1>6 DEF Fit
<1>8. Clean(r, disk[r.file]) BY <1>6 DEF Clean, loose
<1> QED BY <1>1, <1>2, <1>3, <1>5, <1>6, <1>7, <1>8, SaveFileCall, AtOnce

\* What a file has is a text with its time.
LEMMA FileParts ==
  ASSUME FilesInv, NEW f \in File, disk[f] # NONE
  PROVE  /\ disk[f].text \in Text /\ disk[f].mtime \in 1 .. now
         /\ disk[f].text.v \in 0 .. fresh
<1>1. disk[f] \in [text : Text, mtime : 1 .. now] BY CurParts DEF Disk
<1>2. disk[f].text.v <= fresh /\ fresh \in Nat BY CurParts, Clocks
<1>3. disk[f].text.v \in Nat BY <1>1, Bounds DEF Text
<1> QED BY <1>1, <1>2, <1>3

\* A buffer that is read anew.
LEMMA OpenedParts ==
  ASSUME FilesInv, NEW f \in File
  PROVE  /\ Opened(f, disk[f]) \in BufType /\ Opened(f, disk[f]).file = f
         /\ disk[f] = NONE => Opened(f, disk[f]).text = EMPTY /\ Opened(f, disk[f]).mtime = 0
                              /\ Opened(f, disk[f]).first = EMPTY
         /\ disk[f] # NONE => /\ Opened(f, disk[f]).text = disk[f].text
                              /\ Opened(f, disk[f]).first = disk[f].text
                              /\ Opened(f, disk[f]).mtime = disk[f].mtime
<1>1. TypeOK /\ 0 \in 0 .. now /\ EMPTY \in Text /\ now \in Nat BY CurParts, Clocks, EmptyText
<1>2. CASE disk[f] = NONE BY <1>1, <1>2 DEF Opened, BufType
<1>3. CASE disk[f] # NONE
  <2>1. disk[f].text \in Text /\ disk[f].mtime \in 0 .. now /\ disk[f].text.v \in 0 .. fresh
    BY <1>1, <1>3, FileParts
  <2> QED BY <1>3, <2>1 DEF Opened, BufType
<1> QED BY <1>2, <1>3

\* The file is read again, in part or not at all.
LEMMA RevertStep == ASSUME FilesInv, out = "running", Zrevert_file PROVE FilesInv'
<1> DEFINE b == buf[cur]
           f == b.file
           d == disk[f]
           o == Opened(f, d)
<1>1. f # NIL /\ Command(Idle) /\ UNCHANGED <<disk, cur, fresh>> BY DEF Zrevert_file
<1>2. TypeOK /\ b \in BufType /\ f \in File /\ fresh \in Nat /\ EMPTY \in Text /\ EMPTY.v = 0
  BY <1>1, CurParts, Clocks, EmptyText DEF BufType
<1>3. /\ o \in BufType /\ o.file = f
      /\ d = NONE => o.text = EMPTY /\ o.mtime = 0 /\ o.first = EMPTY
      /\ d # NONE => o.text = d.text /\ o.first = d.text /\ o.mtime = d.mtime
                     /\ d.text.v \in 0 .. fresh /\ d.mtime \in 1 .. now
  BY <1>2, OpenedParts, FileParts
<1>4. Idle \in CallType /\ HasStart(Idle) /\ Idle.at = "idle" BY <1>2, IdleCall
<1>5. ASSUME NEW r \in BufType, buf' = [buf EXCEPT ![cur] = r], r.file = f,
             Fit(r, d, fresh), Clean(r, d)
      PROVE  FilesInv'
  <2> HIDE DEF o
  <2> QED BY <1>1, <1>4, <1>5, AtOnce
<1> DEFINE own == o.own \cup b.own
<1>6. own \in SUBSET (0 .. fresh) BY <1>2, <1>3 DEF BufType
<1>7. CASE d = NONE /\ buf' = [buf EXCEPT ![cur] = [o EXCEPT !.own = @ \cup b.own,
                                                            !.modf = b.modf, !.loose = TRUE]]
  <2> DEFINE r == [o EXCEPT !.own = own, !.modf = b.modf, !.loose = TRUE]
  <2>1. buf' = [buf EXCEPT ![cur] = r] BY <1>7
  <2>2. b.modf \in BOOLEAN BY <1>2 DEF BufType
  <2> HIDE DEF o, own
  <2>3. r \in BufType /\ r.file = f /\ r.loose = TRUE /\ r.text = EMPTY /\ r.first = EMPTY
        /\ r.mtime = 0
    BY <1>3, <1>6, <1>7, <2>2 DEF BufType
  <2> HIDE DEF r
  <2>4. Fit(r, d, fresh) /\ Clean(r, d) BY <1>2, <2>3 DEF Fit, Clean
  <2> QED BY <1>5, <2>1, <2>3, <2>4
<1>8. ASSUME NEW got \in {o.text, EMPTY}, d # NONE,
             buf' = [buf EXCEPT ![cur] = [o EXCEPT !.text = got, !.first = got,
                          !.own = @ \cup b.own, !.loose = got = EMPTY]]
      PROVE  FilesInv'
  <2> DEFINE loose == got = EMPTY
             r == [o EXCEPT !.text = got, !.first = got, !.own = own, !.loose = loose]
  <2>1. buf' = [buf EXCEPT ![cur] = r] BY <1>8
  <2>2. loose \in BOOLEAN OBVIOUS
  <2>3. got \in Text /\ got.v <= fresh /\ (loose \/ got = d.text)
    <3>1. got \in {d.text, EMPTY} BY <1>3, <1>8
    <3>2. d.text \in Text BY <1>2, <1>8, FileParts
    <3>3. d.text.v <= fresh BY <1>2, <1>3, <1>8
    <3> QED BY <1>2, <3>1, <3>2, <3>3
  <2> HIDE DEF o, own, loose
  <2>4. r \in BufType /\ r.file = f /\ r.loose = loose /\ r.text = got /\ r.first = got
        /\ r.mtime = o.mtime
    BY <1>3, <1>6, <2>2, <2>3 DEF BufType
  <2> HIDE DEF r
  <2>5. r.mtime <= d.mtime BY <1>2, <1>3, <1>8, <2>4, Clocks
  <2>6. Fit(r, d, fresh) BY <1>1, <2>3, <2>4, <2>5 DEF Fit
  <2>7. Clean(r, d) BY <1>1, <1>8, <2>3, <2>4 DEF Clean
  <2> QED BY <1>5, <2>1, <2>4, <2>6, <2>7
<1> QED BY <1>7, <1>8 DEF Zrevert_file

\* Text is typed.
LEMMA EditStep == ASSUME FilesInv, out = "running", Edit PROVE FilesInv'
<1> DEFINE b == buf[cur]
           t == [b.text EXCEPT !.v = fresh + 1]
           own == b.own \cup {fresh + 1}
           r == [b EXCEPT !.text = t, !.modf = TRUE, !.own = own, !.loose = FALSE]
<1>1. /\ call.at = "idle" /\ fresh < MaxTexts /\ fresh' = fresh + 1
      /\ buf' = [buf EXCEPT ![cur].text.v = fresh + 1, ![cur].modf = TRUE,
                            ![cur].own = @ \cup {fresh + 1}, ![cur].loose = FALSE]
      /\ UNCHANGED <<disk, linked, cur, save_all, call, now, calls, out>>
  BY DEF Edit
<1>2. /\ TypeOK /\ cur \in Buffer /\ b \in BufType /\ Fit(b, disk[b.file], fresh)
      /\ now \in Nat /\ fresh \in Nat /\ buf \in [Buffer -> BufType] /\ disk \in [File -> Disk]
      /\ \A f \in File : disk[f] = NONE \/ disk[f].text.v <= fresh
  BY CurParts, Clocks
<1>3. fresh' \in 0 .. MaxTexts /\ fresh <= fresh' /\ fresh' \in Nat /\ now <= now' /\ now' \in Nat
  BY <1>1, <1>2, Bounds
<1>4. BufType \subseteq BufType' /\ CallType \subseteq CallType' /\ Disk \subseteq Disk'
  BY <1>2, <1>3, TypesGrow
<1>5. buf' = [buf EXCEPT ![cur] = r] BY <1>1
<1>6. t \in Text /\ t.v = fresh' BY <1>1, <1>2, <1>3 DEF BufType, Text
<1>7. own \subseteq 0 .. fresh' BY <1>1, <1>2, <1>3 DEF BufType
<1> HIDE DEF t, own
<1>8. b \in BufType' BY <1>2, <1>4
<1>9. r \in BufType' /\ r.file = b.file /\ r.mtime = b.mtime /\ r.text = t /\ r.first = b.first
      /\ r.modf = TRUE
  BY <1>6, <1>7, <1>8 DEF BufType
<1> HIDE DEF r
<1>10. TypeOK'
  <2>1. buf' \in [Buffer -> BufType'] BY <1>2, <1>4, <1>5, <1>9
  <2>2. call' \in CallType' /\ disk' \in [File -> Disk']
    BY <1>1, <1>2, <1>4, CurParts
  <2>3. now' \in 1 .. MaxTime BY <1>1, <1>2, TypeParts
  <2> QED BY <1>1, <1>2, <1>3, <2>1, <2>2, <2>3, TypeParts, TypeStep
<1>11. DataInv'
  <2>1. b.first.v <= fresh' /\ t.v <= fresh'
    <3>1. b.first.v \in Int BY <1>2, Bounds DEF BufType, Text
    <3> QED BY <1>2, <1>3, <1>6, <3>1 DEF Fit
  <2>2. Fit(r, disk'[r.file], fresh') BY <1>1, <1>2, <1>9, <2>1 DEF Fit
  <2>3. Clean(r, disk'[r.file]) BY <1>9 DEF Clean
  <2>4. b.file \in File \cup {NIL} BY <1>2 DEF BufType
  <2>5. b.file = NIL \/ \A c \in Buffer \ {cur} : buf[c].file # b.file
    <3>1. UniqueFiles BY DEF FilesInv, DataInv
    <3> QED BY <1>2, <3>1 DEF UniqueFiles
  <2>6. b.file \in File => disk'[b.file] = NONE \/ disk'[b.file].text.v <= fresh'
    <3>1. ASSUME b.file \in File, disk[b.file] # NONE PROVE disk[b.file].text.v <= fresh'
      BY <1>2, <1>3, <3>1, FileParts
    <3> QED BY <1>1, <3>1
  <2>7. /\ r.file \in File \cup {NIL}
        /\ r.file = NIL \/ \A c \in Buffer \ {cur} : buf[c].file # r.file
        /\ \A f \in File : f = r.file \/ disk'[f] = disk[f]
        /\ r.file \in File => disk'[r.file] = NONE \/ disk'[r.file].text.v <= fresh'
    BY <1>1, <1>9, <2>4, <2>5, <2>6
  <2> QED BY <1>2, <1>3, <1>5, <2>2, <2>3, <2>7, OneBuffer
<1>12. CallInv'
  <2>1. HasStart(call) BY CurParts
  <2> QED BY <1>1, <2>1, Calm DEF CallInv
<1>13. EndInv' BY <1>1 DEF EndInv
<1> QED BY <1>10, <1>11, <1>12, <1>13 DEF FilesInv

\* Everything is undone.
LEMMA UndoStep == ASSUME FilesInv, out = "running", Zundo PROVE FilesInv'
<1> DEFINE b == buf[cur]
           r == [b EXCEPT !.text = b.first, !.modf = FALSE, !.loose = TRUE]
<1>1. Command(Idle) /\ UNCHANGED <<disk, cur, fresh>>
      /\ buf' = [buf EXCEPT ![cur].text = b.first, ![cur].modf = FALSE, ![cur].loose = TRUE]
  BY DEF Zundo
<1>2. TypeOK /\ b \in BufType /\ Fit(b, disk[b.file], fresh) BY CurParts
<1>3. buf' = [buf EXCEPT ![cur] = r] BY <1>1
<1>4. r \in BufType /\ r.file = b.file /\ r.mtime = b.mtime /\ r.text = b.first
      /\ r.first = b.first /\ r.loose = TRUE
  BY <1>2 DEF BufType
<1> HIDE DEF r
<1>5. Fit(r, disk[r.file], fresh) /\ Clean(r, disk[r.file]) BY <1>2, <1>4 DEF Fit, Clean
<1> QED BY <1>1, <1>2, <1>3, <1>4, <1>5, IdleCall, AtOnce

\* The buffer is said to be modified, or not to be.
LEMMA UnmodifyStep == ASSUME FilesInv, out = "running", Zunmodify PROVE FilesInv'
<1> DEFINE b == buf[cur]
<1>1. PICK argp \in BOOLEAN :
        /\ Command(Idle) /\ UNCHANGED <<disk, cur, fresh>>
        /\ buf' = [buf EXCEPT ![cur].modf = argp, ![cur].loose = @ \/ (b.modf /\ ~ argp)]
  BY DEF Zunmodify
<1> DEFINE loose == b.loose \/ (b.modf /\ ~ argp)
           r == [b EXCEPT !.modf = argp, !.loose = loose]
<1>2. TypeOK /\ cur \in Buffer /\ b \in BufType /\ Fit(b, disk[b.file], fresh)
      /\ (cur \in SYSBUFF \/ Clean(b, disk[b.file]))
  BY CurParts
<1>3. buf' = [buf EXCEPT ![cur] = r] BY <1>1
<1>4. loose \in BOOLEAN OBVIOUS
<1>5. r \in BufType /\ r.file = b.file /\ r.mtime = b.mtime /\ r.text = b.text
      /\ r.first = b.first /\ r.own = b.own /\ r.loose = loose /\ r.modf = argp
  BY <1>2, <1>4 DEF BufType
<1> HIDE DEF r
<1>6. Fit(r, disk[r.file], fresh) BY <1>2, <1>5 DEF Fit
<1>7. cur \in SYSBUFF \/ Clean(r, disk[r.file]) BY <1>2, <1>5 DEF Clean
<1> QED BY <1>1, <1>2, <1>3, <1>5, <1>6, <1>7, IdleCall, AtOnce

\* Another buffer becomes the current one.
LEMMA SwitchStep == ASSUME FilesInv, out = "running", Zswitch PROVE FilesInv'
<1>1. call.at = "idle" /\ cur' \in Buffer
      /\ UNCHANGED <<disk, linked, buf, save_all, call, now, fresh, calls, out>>
  BY DEF Zswitch
<1> QED BY <1>1, CurParts, Calm, QuietStep

-----------------------------------------------------------------------------
(* The rest of the world. *)

\* Another program writes a file.
LEMMA OtherStep == ASSUME FilesInv, out = "running", OtherWrites PROVE FilesInv'
<1>1. PICK f \in File :
        disk' = [disk EXCEPT ![f] = [text |-> [v |-> fresh + 1, nl |-> TRUE], mtime |-> now']]
  BY DEF OtherWrites
<1> DEFINE t == [v |-> fresh + 1, nl |-> TRUE]
           x == [text |-> t, mtime |-> now']
<1>2. fresh < MaxTexts /\ fresh' = fresh + 1 /\ now' \in {now} \cup ({now + 1} \cap 1 .. MaxTime)
      /\ UNCHANGED <<linked, buf, cur, save_all, call, calls, out>>
  BY DEF OtherWrites
<1>3. /\ TypeOK /\ cur \in Buffer /\ buf \in [Buffer -> BufType] /\ disk \in [File -> Disk]
      /\ now \in Nat \ {0} /\ fresh \in Nat /\ call \in CallType /\ now \in 1 .. MaxTime
  BY CurParts, Clocks, TypeParts
<1>4. now' \in 1 .. MaxTime /\ now <= now' /\ now' \in Nat /\ fresh' \in 0 .. MaxTexts
      /\ fresh' \in Nat /\ fresh <= fresh'
  BY <1>2, <1>3, Bounds
<1>5. BufType \subseteq BufType' /\ CallType \subseteq CallType' /\ Disk \subseteq Disk'
  BY <1>3, <1>4, TypesGrow
<1>6. t \in Text BY <1>2, <1>4 DEF Text
<1>7. x \in Disk'
  <2> HIDE DEF t
  <2>1. now' \in 1 .. now' BY <1>4
  <2> QED BY <1>6, <2>1 DEF Disk
<1>8. x # NONE
  <2> HIDE DEF t
  <2> QED BY <1>4, <1>6, FilesAssumption
<1>9. x.text.v = fresh + 1 /\ x.mtime = now' OBVIOUS
<1> HIDE DEF x
<1>10. disk'[f] = x /\ \A g \in File \ {f} : disk'[g] = disk[g] BY <1>1, <1>3 DEF x
<1>11. TypeOK'
  <2>1. disk' \in [File -> Disk'] BY <1>1, <1>3, <1>5, <1>7 DEF x
  <2>2. buf' \in [Buffer -> BufType'] /\ call' \in CallType' BY <1>2, <1>3, <1>5
  <2> QED BY <1>2, <1>3, <1>4, <2>1, <2>2, TypeParts, TypeStep
<1>12. DataInv'
  <2>1. UniqueFiles' BY <1>2 DEF FilesInv, DataInv, UniqueFiles
  <2>2. ASSUME NEW g \in File, disk'[g] # NONE PROVE disk'[g].text.v <= fresh'
    <3>1. CASE g = f BY <1>2, <1>3, <1>9, <1>10, <3>1
    <3>2. CASE g # f
      <4>1. disk'[g] = disk[g] /\ disk[g] # NONE BY <1>10, <2>2, <3>2
      <4>2. disk[g].text.v \in 0 .. fresh BY <4>1, FileParts
      <4> QED BY <1>3, <1>4, <4>1, <4>2
    <3> QED BY <3>1, <3>2
  <2>3. ASSUME NEW b \in Buffer
        PROVE  /\ Fit(buf[b], disk'[buf[b].file], fresh')
               /\ b \notin SYSBUFF => Clean(buf[b], disk'[buf[b].file])
    <3>1. buf[b] \in BufType /\ Fit(buf[b], disk[buf[b].file], fresh)
          /\ (b \notin SYSBUFF => Clean(buf[b], disk[buf[b].file]))
      BY <1>3 DEF FilesInv, DataInv
    <3>2. buf[b].file \in File \cup {NIL} /\ buf[b].mtime \in 0 .. now /\ buf[b].own \subseteq 0 .. fresh
          /\ buf[b].text.v \in Int /\ buf[b].first.v \in Int
      BY <3>1, Bounds DEF BufType, Text
    <3>3. buf[b].text.v <= fresh' /\ buf[b].first.v <= fresh'
      BY <1>3, <1>4, <3>1, <3>2 DEF Fit
    <3>4. CASE buf[b].file = f
      <4>1. buf[b].mtime <= x.mtime /\ x.text.v \notin buf[b].own /\ f # NIL
        BY <1>3, <1>4, <1>9, <3>2, Bounds
      <4>2. Fit(buf[b], x, fresh') BY <3>3, <3>4, <4>1 DEF Fit
      <4>3. Clean(buf[b], x) BY <1>8, <3>4, <4>1 DEF Clean
      <4> QED BY <1>10, <3>4, <4>2, <4>3
    <3>5. CASE buf[b].file # f
      <4>1. buf[b].file # NIL => disk'[buf[b].file] = disk[buf[b].file] BY <1>10, <3>2, <3>5
      <4>2. Fit(buf[b], disk'[buf[b].file], fresh') BY <3>1, <3>3, <4>1 DEF Fit
      <4>3. b \notin SYSBUFF => Clean(buf[b], disk'[buf[b].file]) BY <3>1, <4>1 DEF Clean
      <4> QED BY <4>2, <4>3
    <3> QED BY <3>4, <3>5
  <2> QED BY <1>2, <2>1, <2>2, <2>3 DEF DataInv
<1>13. CallInv'
  <2>1. HasStart(call') BY <1>2, CurParts
  <2> DEFINE b == buf[cur]
  <2>2. Saving BY DEF FilesInv, CallInv
  <2>3. ASSUME call.at \in {"preserve?", "creat"}
        PROVE  Warned(call, b, disk'[b.file], IF disk'[b.file] = NONE THEN 0 ELSE disk'[b.file].text.v)
    <3>1. b \in BufType /\ b.file # NIL BY <1>3, <2>2, <2>3 DEF Saving
    <3>2. b.file \in File BY <3>1 DEF BufType
    <3>3. CASE b.file = f
      <4>1. call.checked \in 0 .. fresh BY <1>3 DEF CallType
      <4>2. fresh + 1 # call.checked BY <1>3, <4>1
      <4> QED BY <1>8, <1>9, <1>10, <3>3, <4>2 DEF Warned
    <3>4. CASE b.file # f
      <4>1. disk'[b.file] = disk[b.file] BY <1>10, <3>2, <3>4
      <4> QED BY <2>2, <2>3, <4>1 DEF Saving, Warned, Version
    <3> QED BY <3>3, <3>4
  <2>4. Saving' BY <1>2, <2>2, <2>3 DEF Saving, Version
  <2> QED BY <2>1, <2>4 DEF CallInv
<1>14. EndInv' BY <1>2 DEF EndInv
<1> QED BY <1>11, <1>12, <1>13, <1>14 DEF FilesInv

\* The program is hung up.
LEMMA HangUpStep == ASSUME FilesInv, out = "running", HangUp PROVE FilesInv'
<1> DEFINE Saved(f) == {b \in Modified : buf[b].file = f}
           all == [f \in File |-> IF Saved(f) = {} THEN disk[f]
                                  ELSE Content(buf[CHOOSE b \in Saved(f) : TRUE].text)]
<1>1. out' = "hung up" /\ UNCHANGED <<buf, cur, linked, save_all, now, fresh, calls, call>>
      /\ disk' = IF InPaw \/ buf[cur].file = NIL THEN disk ELSE all
  BY DEF HangUp, hang_up, others
<1>2. /\ TypeOK /\ cur \in Buffer /\ buf \in [Buffer -> BufType] /\ disk \in [File -> Disk]
      /\ now \in Nat /\ fresh \in Nat /\ call \in CallType /\ HasStart(call)
  BY CurParts, Clocks
<1>3. ASSUME NEW f \in File, NEW b \in Modified, buf[b].file = f
      PROVE  /\ all[f] = Content(buf[b].text)
             /\ all[f] \in Disk /\ all[f] # NONE /\ all[f].text = buf[b].text /\ all[f].mtime = now
  <2>1. b \in Saved(f) BY <1>3
  <2> DEFINE c == CHOOSE c \in Saved(f) : TRUE
  <2>2. c \in Saved(f) BY <2>1
  <2> HIDE DEF c
  <2>3. c \in Buffer /\ b \in Buffer /\ buf[c].file = f /\ f # NIL
    BY <2>2, Bounds DEF Modified
  <2>4. UniqueFiles BY DEF FilesInv, DataInv
  <2>5. c = b BY <1>3, <2>3, <2>4 DEF UniqueFiles
  <2>6. all[f] = Content(buf[c].text) BY <2>1 DEF c
  <2>7. buf[b].text \in Text BY <1>2, <2>3 DEF BufType
  <2> HIDE DEF all
  <2> QED BY <1>2, <2>5, <2>6, <2>7, Written
<1>4. ASSUME NEW f \in File
      PROVE  all[f] = disk[f] \/ \E b \in Modified : buf[b].file = f
  BY <1>4
<1> HIDE DEF all
<1>5. ASSUME NEW f \in File
      PROVE  \/ disk'[f] = disk[f]
             \/ /\ disk'[f] = all[f] /\ ~ InPaw /\ buf[cur].file # NIL
                /\ \E b \in Modified : buf[b].file = f
  BY <1>1, <1>4
<1>6. ASSUME NEW f \in File PROVE disk'[f] \in Disk BY <1>2, <1>3, <1>5
<1>7. TypeOK'
  <2>1. BufType' = BufType /\ CallType' = CallType /\ Disk' = Disk
    BY <1>1 DEF BufType, CallType, Disk
  <2>2. disk' \in [File -> Disk]
    <3>1. disk' = [f \in File |-> disk'[f]]
      <4>1. all = [f \in File |-> all[f]] BY DEF all
      <4> QED BY <1>1, <1>2, <4>1
    <3> QED BY <1>6, <3>1
  <2> QED BY <1>1, <1>2, <2>1, <2>2, TypeParts, TypeStep
<1>8. DataInv'
  <2>1. UniqueFiles' /\ UniqueFiles BY <1>1 DEF FilesInv, DataInv, UniqueFiles
  <2>2. ASSUME NEW b \in Buffer
        PROVE  /\ buf[b] \in BufType /\ Fit(buf[b], disk[buf[b].file], fresh)
               /\ b \notin SYSBUFF => Clean(buf[b], disk[buf[b].file])
    BY <1>2 DEF FilesInv, DataInv
  <2>3. ASSUME NEW f \in File, disk'[f] # NONE PROVE disk'[f].text.v <= fresh
    <3>1. CASE disk'[f] = disk[f] BY <2>3, <3>1 DEF FilesInv, DataInv
    <3>2. CASE disk'[f] # disk[f]
      <4>1. PICK b \in Modified : disk'[f] = all[f] /\ buf[b].file = f BY <1>5, <3>2
      <4>2. b \in Buffer BY DEF Modified
      <4> QED BY <1>3, <2>2, <4>1, <4>2 DEF Fit
    <3> QED BY <3>1, <3>2
  <2>4. ASSUME NEW b \in Buffer
        PROVE  /\ Fit(buf[b], disk'[buf[b].file], fresh)
               /\ b \notin SYSBUFF => Clean(buf[b], disk'[buf[b].file])
    <3>1. buf[b].file \in File \cup {NIL} BY <2>2 DEF BufType
    <3>2. CASE buf[b].file = NIL \/ disk'[buf[b].file] = disk[buf[b].file]
      BY <2>2, <3>2 DEF Fit, Clean
    <3>3. CASE buf[b].file # NIL /\ disk'[buf[b].file] # disk[buf[b].file]
      <4> DEFINE f == buf[b].file
      <4>1. f \in File BY <3>1, <3>3
      <4>2. PICK c \in Modified : disk'[f] = all[f] /\ buf[c].file = f BY <1>5, <3>3, <4>1
      <4>3. c \in Buffer /\ buf[c].modf BY DEF Modified
      <4>4. c = b BY <2>1, <3>3, <4>2, <4>3 DEF UniqueFiles
      <4>5. disk'[f].mtime = now BY <1>3, <4>1, <4>2
      <4>6. buf[b].mtime <= now BY <1>2, <2>2 DEF BufType
      <4>7. Fit(buf[b], disk'[f], fresh) BY <2>2, <3>3, <4>5, <4>6 DEF Fit
      <4>8. Clean(buf[b], disk'[f]) BY <4>3, <4>4 DEF Clean
      <4> QED BY <4>7, <4>8
    <3> QED BY <3>2, <3>3
  <2> QED BY <1>1, <2>1, <2>3, <2>4 DEF DataInv
<1>9. CallInv' BY <1>1, <1>2 DEF CallInv
<1>10. EndInv'
  <2>1. ASSUME ~ InPaw, buf[cur].file # NIL, NEW b \in Modified, buf[b].file # NIL
        PROVE  disk'[buf[b].file] # NONE /\ disk'[buf[b].file].text = buf[b].text
    <3>1. b \in Buffer BY DEF Modified
    <3>2. buf[b].file \in File BY <1>2, <2>1, <3>1 DEF BufType
    <3>3. disk'[buf[b].file] = all[buf[b].file] BY <1>1, <2>1
    <3> QED BY <1>3, <3>2, <3>3
  <2>2. InPaw' = InPaw /\ Modified' = Modified BY <1>1 DEF InPaw, Modified
  <2> QED BY <1>1, <2>1, <2>2 DEF EndInv
<1> QED BY <1>7, <1>8, <1>9, <1>10 DEF FilesInv

-----------------------------------------------------------------------------
(* The theorems. *)

\* Each file has a version of its own at the start.
LEMMA NthFile == \A f \in File : Nth(f) \in 1 .. Cardinality(File)
<1> DEFINE C == Cardinality(File)
           P(n) == \A g, h \in File : g # h => n[g] # n[h]
<1>1. IsFiniteSet(File) BY FilesAssumption
<1>2. ExistsBijection(1 .. C, File) BY <1>1, FS_CardinalityType
<1>3. PICK m \in [1 .. C -> File] : \A f \in File : \E i \in 1 .. C : m[i] = f
  BY <1>2 DEF ExistsBijection, Bijection, Surjection
<1> DEFINE n == [f \in File |-> CHOOSE i \in 1 .. C : m[i] = f]
<1>4. \A f \in File : n[f] \in 1 .. C /\ m[n[f]] = f BY <1>3
<1>5. n \in [File -> 1 .. C] BY <1>4
<1>6. P(n) BY <1>4
<1>7. \E k \in [File -> 1 .. C] : P(k) BY <1>5, <1>6
<1> DEFINE k == CHOOSE k \in [File -> 1 .. C] : P(k)
<1>8. k \in [File -> 1 .. C] BY <1>7
<1>9. \A f \in File : Nth(f) = k[f] BY DEF Nth
<1> HIDE DEF k
<1> QED BY <1>8, <1>9

\* At first every buffer is empty or is its file.
LEMMA InitFiles == Init => FilesInv
<1> SUFFICES ASSUME Init PROVE FilesInv
  OBVIOUS
<1>1. /\ now = 1 /\ fresh = Cardinality(File) /\ calls = 0 /\ save_all = FALSE
      /\ out = "running" /\ linked \in Linked /\ cur = Bufflist[1] /\ call = Idle
  BY DEF Init
<1>2. fresh \in 0 .. MaxTexts /\ fresh \in Nat
  BY <1>1, FilesAssumption, FS_CardinalityType
<1>3. PICK had \in Had, nl \in BOOLEAN :
        disk = [f \in File |-> IF f \in had THEN Content([v |-> Nth(f), nl |-> nl]) ELSE NONE]
  BY DEF Init
<1>4. ASSUME NEW f \in File, disk[f] # NONE
      PROVE  /\ disk[f] \in [text : Text, mtime : 1 .. now] /\ disk[f].mtime = 1
             /\ disk[f].text \in Text /\ disk[f].text.v \in 0 .. fresh
  <2>1. Nth(f) \in 1 .. fresh BY <1>1, NthFile
  <2> DEFINE t == [v |-> Nth(f), nl |-> nl]
  <2>2. disk[f] = Content(t) BY <1>3, <1>4
  <2>3. t \in Text /\ t.v = Nth(f) BY <1>2, <2>1, Bounds DEF Text
  <2> HIDE DEF t
  <2>4. disk[f] = [text |-> t, mtime |-> 1] BY <1>1, <2>2 DEF Content
  <2> QED BY <1>1, <1>2, <2>1, <2>3, <2>4
<1>5. disk \in [File -> Disk]
  <2>1. disk = [f \in File |-> disk[f]] BY <1>3
  <2> QED BY <1>4, <2>1 DEF Disk
<1>6. PICK fname \in Fname :
        buf = [b \in Buffer |-> Opened(fname[b], IF fname[b] = NIL THEN NONE ELSE disk[fname[b]])]
  BY DEF Init
<1>7. fname \in [Buffer -> File \cup {NIL}] BY FnameAssumption
<1>8. ASSUME NEW b \in Buffer
      PROVE  /\ buf[b] \in BufType /\ buf[b].file = fname[b]
             /\ Fit(buf[b], disk[buf[b].file], fresh) /\ Clean(buf[b], disk[buf[b].file])
  <2> DEFINE f == fname[b]
             d == IF f = NIL THEN NONE ELSE disk[f]
  <2>1. buf[b] = Opened(f, d) /\ f \in File \cup {NIL} BY <1>6, <1>7
  <2>2. EMPTY \in Text /\ EMPTY.v = 0 BY EmptyText
  <2>3. CASE d = NONE
    <3>1. buf[b] = [file |-> f, text |-> EMPTY, modf |-> FALSE, mtime |-> 0, first |-> EMPTY,
                    own |-> {}, loose |-> FALSE]
      BY <2>1, <2>3 DEF Opened
    <3>2. 0 \in 0 .. now BY <1>1
    <3> HIDE DEF f, d
    <3>3. buf[b] \in BufType BY <2>1, <2>2, <3>1, <3>2 DEF BufType
    <3>4. Fit(buf[b], disk[buf[b].file], fresh) BY <1>2, <2>2, <3>1 DEF Fit
    <3>5. Clean(buf[b], disk[buf[b].file]) BY <2>2, <3>1 DEF Clean
    <3> QED BY <3>1, <3>3, <3>4, <3>5 DEF f
  <2>4. CASE d # NONE
    <3>1. f \in File /\ d = disk[f] /\ f # NIL BY <2>1, <2>4, Bounds
    <3>2. d.text \in Text /\ d.mtime = 1 /\ d.text.v \in 0 .. fresh BY <1>4, <2>4, <3>1
    <3>3. buf[b] = [file |-> f, text |-> d.text, modf |-> FALSE, mtime |-> d.mtime,
                    first |-> d.text, own |-> {d.text.v}, loose |-> FALSE]
      BY <2>1, <2>4 DEF Opened
    <3>4. d.mtime \in 0 .. now /\ {d.text.v} \in SUBSET (0 .. fresh) BY <1>1, <3>2
    <3> HIDE DEF f, d
    <3>5. buf[b] \in BufType BY <3>1, <3>2, <3>3, <3>4 DEF BufType
    <3>6. Fit(buf[b], disk[buf[b].file], fresh) BY <1>2, <3>1, <3>2, <3>3 DEF Fit
    <3>7. Clean(buf[b], disk[buf[b].file]) BY <2>4, <3>1, <3>3 DEF Clean
    <3> QED BY <3>3, <3>5, <3>6, <3>7 DEF f
  <2> QED BY <2>3, <2>4
<1>9. TypeOK
  <2>1. cur \in Buffer
    <3>1. 1 \in DOMAIN Bufflist BY FilesAssumption
    <3> QED BY <1>1, <3>1 DEF Buffer
  <2>2. call \in CallType
    <3>1. 0 \in 0 .. fresh /\ <<>> \in Suffix BY <1>2, Suffixes
    <3> QED BY <1>1, <3>1 DEF Idle, CallType
  <2>3. linked \subseteq File BY <1>1, FilesAssumption
  <2>4. buf \in [Buffer -> BufType]
    <3>1. buf = [b \in Buffer |-> buf[b]] BY <1>6
    <3> QED BY <1>8, <3>1
  <2>5. now \in 1 .. MaxTime /\ calls \in 0 .. MaxCalls BY <1>1, Bounds
  <2>6. save_all \in BOOLEAN BY <1>1, Zenon
  <2> QED BY <1>1, <1>2, <1>5, <2>1, <2>2, <2>3, <2>4, <2>5, <2>6, TypeParts
<1>10. UniqueFiles BY <1>8, FnameAssumption DEF UniqueFiles
<1>11. DataInv BY <1>4, <1>8, <1>10, <1>2 DEF DataInv
<1>12. CallInv BY <1>1 DEF CallInv, HasStart, Saving, Idle
<1>13. EndInv BY <1>1 DEF EndInv
<1> QED BY <1>9, <1>11, <1>12, <1>13 DEF FilesInv

\* Every step keeps the invariant.
LEMMA FilesStep == FilesInv /\ [Next]_vars => FilesInv'
<1> SUFFICES ASSUME FilesInv, [Next]_vars PROVE FilesInv'
  OBVIOUS
<1>1. ASSUME Next PROVE FilesInv'
  <2>1. out = "running" BY <1>1 DEF Next
  <2>2. CASE Step
    BY <2>1, <2>2, PromptsaveStep, AnswerSaveStep, FilesaveStep, AnswerOverwriteStep,
       AnswerPreserveStep, CreatStep, WriteStep, QuitStep DEF Step
  <2>3. CASE Zsave_file
    <3>1. PICK argp \in BOOLEAN : Command(SaveFile(argp, "done")) /\ UNCHANGED <<disk, buf, cur, fresh>>
      BY <2>3 DEF Zsave_file
    <3> QED BY <2>1, <3>1, CurParts, SaveFileCall, SaveCommand
  <2>4. CASE Zexit
    <3>1. PICK argp \in BOOLEAN : Command(SaveAll(argp, "quit")) /\ UNCHANGED <<disk, buf, cur, fresh>>
      BY <2>4 DEF Zexit
    <3> QED BY <2>1, <3>1, CurParts, SaveAllCall, SaveCommand
  <2>5. CASE Zsave_and_exit
    <3>1. PICK argp \in BOOLEAN :
            /\ \E c \in {SaveFile(argp, "zexit"), SaveAll(argp, "quit")} : Command(c)
            /\ UNCHANGED <<disk, buf, cur, fresh>>
      BY <2>5 DEF Zsave_and_exit
    <3> QED BY <2>1, <3>1, CurParts, SaveAllCall, SaveFileCall, SaveCommand
  <2> QED BY <1>1, <2>1, <2>2, <2>3, <2>4, <2>5, SaveAllFilesStep, WriteFileStep, RevertStep,
             EditStep, UndoStep, UnmodifyStep, SwitchStep, OtherStep, HangUpStep DEF Next
<1>2. CASE UNCHANGED vars
  <2>1. UNCHANGED <<disk, linked, buf, cur, save_all, call, now, fresh, calls, out>>
    BY <1>2 DEF vars
  <2>2. TypeOK'
    <3>1. BufType' = BufType /\ CallType' = CallType /\ Disk' = Disk
      BY <2>1 DEF BufType, CallType, Disk
    <3>2. TypeOK BY DEF FilesInv
    <3> QED BY <2>1, <3>1, <3>2, TypeParts, TypeStep
  <2>3. DataInv' BY <2>1 DEF FilesInv, DataInv, UniqueFiles
  <2>4. CallInv'
    <3>1. Saving => Saving' BY <2>1 DEF Saving, Version
    <3> QED BY <2>1, <3>1 DEF FilesInv, CallInv
  <2>5. EndInv' BY <2>1 DEF FilesInv, EndInv, Modified, InPaw
  <2> QED BY <2>2, <2>3, <2>4, <2>5 DEF FilesInv
<1> QED BY <1>1, <1>2

\* The invariant holds always.
LEMMA FilesAlways == Spec => []FilesInv
BY InitFiles, FilesStep, PTL DEF Spec

\* Spec => []CleanOnDisk: a buffer shown as unmodified is on disk between any two
\* steps of any save, or something made the code say so of a text it is not true
\* of.
THEOREM CleanBuffersAreOnDisk == Spec => []CleanOnDisk
<1>1. FilesInv => CleanOnDisk BY DEF FilesInv, DataInv, Clean, CleanOnDisk, OnDisk
<1> QED BY <1>1, FilesAlways, PTL

\* Spec => []WorkSurvives: nothing typed is lost at the end without a question.
THEOREM WorkIsSaved == Spec => []WorkSurvives
<1>1. FilesInv => WorkSurvives
  <2> SUFFICES ASSUME FilesInv PROVE WorkSurvives
    OBVIOUS
  <2>1. \A b \in Buffer \ SYSBUFF : buf[b].modf \/ buf[b].loose \/ OnDisk(b)
    BY DEF FilesInv, DataInv, Clean, OnDisk
  <2>2. \A b \in Buffer \ SYSBUFF : buf[b].modf => b \in Modified BY DEF Modified
  <2>3. out = "exited" /\ ~ call.told => Modified = {} BY DEF FilesInv, EndInv
  <2>4. ASSUME out = "hung up", ~ InPaw, buf[cur].file # NIL, NEW b \in Buffer \ SYSBUFF
        PROVE  buf[b].file = NIL \/ buf[b].loose \/ OnDisk(b)
    <3>1. CASE b \in Modified BY <2>4, <3>1 DEF FilesInv, EndInv, OnDisk
    <3>2. CASE b \notin Modified BY <2>1, <2>2, <3>2
    <3> QED BY <3>1, <3>2
  <2> QED BY <2>1, <2>2, <2>3, <2>4 DEF WorkSurvives
<1> QED BY <1>1, FilesAlways, PTL

\* Spec => WarnedBeforeLoss: no file is emptied over the head of the program that
\* wrote it last.
THEOREM LossIsWarnedOf == Spec => WarnedBeforeLoss
<1> DEFINE Act == call.at = "creat" /\ call'.at = "write" =>
                    LET b == buf[cur]
                        d == disk[b.file]
                    IN \/ d = NONE \/ call.told \/ b.mtime = 0
                       \/ d.mtime = b.mtime \/ Version(b.file) # call.checked
<1>1. FilesInv /\ [Next]_vars => [Act]_vars
  <2> SUFFICES ASSUME FilesInv, Next, call.at = "creat" PROVE Act
    BY DEF vars
  <2>1. Saving BY DEF FilesInv, CallInv, Next
  <2> QED BY <2>1 DEF Saving, Warned
<1> HIDE DEF Act
<1>2. Spec => [][Act]_vars BY <1>1, FilesAlways, PTL DEF Spec
<1> QED BY <1>2 DEF Act, WarnedBeforeLoss
=============================================================================
