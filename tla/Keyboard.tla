------------------------------ MODULE Keyboard ------------------------------
(***************************************************************************)
(* Reading the keyboard: a ring of CSTACK bytes that read() fills when it  *)
(* is empty, and tgetkb, which makes one key of the bytes a special key    *)
(* sends.  A byte that turns out not to belong to a special key is pushed  *)
(* back into the ring.                                                     *)
(*                                                                         *)
(* A step of the program is what it does from one _tgetkb that may block   *)
(* to the next.  Bytes have 7 bits here: the code masks the eighth.        *)
(***************************************************************************)
EXTENDS Integers, Sequences

CONSTANTS
  Byte,     \* what a terminal sends
  ESC,      \* the byte all special keys start with
  NUL,      \* what the ring holds before the first read
  CapO,     \* the byte O
  Special,  \* the special keys
  Tkeys0,   \* what each special key sends after its ESC, at first
  Rewrite,  \* for the byte after ESC O: what keys are found to send instead
  CSTACK,   \* bytes in the ring
  Burst     \* bound: the bytes typed before the program reads them

ASSUME CSTACKAssumption == CSTACK \in Nat \ {0} /\ Burst \in 1 .. CSTACK
ASSUME ByteTableAssumption ==
  /\ ESC \in Byte /\ CapO \in Byte /\ NUL \notin Byte
  /\ Tkeys0 \in [Special -> Seq(Byte) \ {<<>>}]
  /\ DOMAIN Rewrite \subseteq Byte
  /\ \A b \in DOMAIN Rewrite :
       \A i \in DOMAIN Rewrite[b] : i \in Special /\ Rewrite[b][i] = <<CapO, b>>

\* Bound: a burst fits in the ring beside the bytes of a key that were read
\* before it and may be pushed back; a longer one overwrites them.
ASSUME BurstAssumption ==
  /\ Burst < CSTACK
  /\ \A i \in Special : Len(Tkeys0[i]) + Burst <= CSTACK
  /\ \A b \in DOMAIN Rewrite : DOMAIN Rewrite[b] # {} => Len(<<CapO, b>>) + Burst <= CSTACK

VARIABLES
  tty,      \* bytes typed and not read yet
  ring,     \* cstack, cptr and cpushed
  Pending,  \* the last poll found input
  Tkeys,    \* what each special key sends after its ESC
  pc,       \* "out"; in tgetkb "esc", before its tkbrdy; or "special"
  j,        \* check_specials: the place in the key of the byte read next
  mask,     \* check_specials: the keys that match so far
  owed,     \* history: bytes typed and not returned yet, as part of a key
  key       \* the bytes of the key tgetkb returned last

vars == <<tty, ring, Pending, Tkeys, pc, j, mask, owed, key>>

Slot == 0 .. CSTACK - 1

TypeOK ==
  /\ tty \in Seq(Byte) /\ Len(tty) <= Burst
  /\ ring \in [cstack : [Slot -> Byte \cup {NUL}], cptr : Slot \cup {-1}, cpushed : 0 .. CSTACK]
  /\ Pending \in BOOLEAN
  /\ Tkeys \in [Special -> Seq(Byte)]
  /\ pc \in {"out", "esc", "special"}
  /\ j \in Nat
  /\ mask \in SUBSET Special
  /\ owed \in Seq(Byte) /\ key \in Seq(Byte)

Init ==
  /\ tty = <<>> /\ owed = <<>> /\ key = <<>>
  /\ ring = [cstack |-> [s \in Slot |-> NUL], cptr |-> -1, cpushed |-> 0]
  /\ Pending = FALSE
  /\ Tkeys = Tkeys0
  /\ pc = "out" /\ j = 1 /\ mask = {}

-----------------------------------------------------------------------------
(* The ring. *)

\* _tgetkb would not block.
CanGet == ring.cpushed # 0 \/ tty # <<>>

\* The ring after _tgetkb, which reads from in when the ring is empty.
_tgetkb(r, in) ==
  LET p == (r.cptr + 1) % CSTACK
      n == IF Len(in) < CSTACK THEN Len(in) ELSE CSTACK
      at(s) == ((s - p) % CSTACK) + 1
  IN IF r.cpushed # 0
     THEN [r EXCEPT !.cptr = p, !.cpushed = @ - 1]
     ELSE [cstack  |-> [s \in Slot |-> IF at(s) <= n THEN in[at(s)] ELSE r.cstack[s]],
           cptr    |-> p,
           cpushed |-> n - 1]

\* What is left to read after it.
Rest(r, in) == IF r.cpushed # 0 THEN in ELSE SubSeq(in, CSTACK + 1, Len(in))

tungetkb_short(r, n) ==
  [r EXCEPT !.cptr = (@ - (n - 1)) % CSTACK, !.cpushed = @ + (n - 1)]

tungetkb(r, n) == [r EXCEPT !.cptr = (@ - n) % CSTACK, !.cpushed = @ + n]

tpeek(r, offset) == r.cstack[(r.cptr + offset) % CSTACK]

\* The bytes in the ring that were not taken.
Unread == [k \in 1 .. ring.cpushed |-> tpeek(ring, k)]

-----------------------------------------------------------------------------
(* tgetkb. *)

Return(bytes) ==
  /\ key' = bytes
  /\ owed' = SubSeq(owed, Len(bytes) + 1, Len(owed))
  /\ pc' = "out" /\ j' = 1 /\ mask' = {}

\* One byte is typed.
Type ==
  /\ Len(tty) < Burst
  /\ \E b \in Byte : tty' = Append(tty, b) /\ owed' = Append(owed, b)
  /\ UNCHANGED <<ring, Pending, Tkeys, pc, j, mask, key>>

\* Called by who wants to know whether the user is typing.
tkbrdy ==
  /\ pc = "out"
  /\ ring.cpushed = 0 /\ ~ Pending
  /\ Pending' = (tty # <<>>)
  /\ UNCHANGED <<tty, ring, Tkeys, pc, j, mask, owed, key>>

tgetkb ==
  /\ pc = "out" /\ CanGet
  /\ ring' = _tgetkb(ring, tty)
  /\ tty' = Rest(ring, tty)
  /\ Pending' = FALSE
  /\ UNCHANGED Tkeys
  /\ IF tpeek(ring', 0) = ESC
     THEN pc' = "esc" /\ UNCHANGED <<j, mask, owed, key>>
     ELSE Return(<<tpeek(ring', 0)>>)

\* tgetkb has an ESC: a special key if more is waiting.
EscReady ==
  /\ pc = "esc"
  /\ IF ring.cpushed # 0 \/ tty # <<>>
     THEN /\ Pending' = (ring.cpushed = 0)
          /\ pc' = "special" /\ j' = 1 /\ mask' = Special
          /\ UNCHANGED <<owed, key>>
     ELSE Return(<<ESC>>) /\ UNCHANGED Pending
  /\ UNCHANGED <<tty, ring, Tkeys>>

\* The table once a key is known to send ESC O b.
Rewritten_not(b) == Tkeys

Rewritten(b) ==
  [i \in Special |-> IF i \in DOMAIN Rewrite[b] THEN Rewrite[b][i] ELSE Tkeys[i]]

\* The keys that match up to and with the byte cmd.
Matching(cmd) == {i \in mask : j <= Len(Tkeys[i]) /\ Tkeys[i][j] = cmd}

\* Complete with a bug: every match counts.
Complete_any(matching) == matching

\* Those with no further byte.
Complete(matching) == {i \in matching : Len(Tkeys[i]) = j}

\* One iteration of check_specials' loop, and what follows the loop.
check_specials ==
  /\ pc = "special" /\ CanGet
  /\ LET got   == _tgetkb(ring, tty)
         match == Matching(tpeek(got, 0))
         back  == tungetkb(got, j + 1)
     IN \/ \E i \in Complete(match) :                     \* a special key
             /\ ring' = got
             /\ Return(<<ESC>> \o Tkeys[i])
             /\ UNCHANGED Tkeys
        \/ /\ Complete(match) = {} /\ match # {}          \* it may become one
           /\ ring' = got
           /\ j' = j + 1 /\ mask' = match
           /\ UNCHANGED <<Tkeys, pc, owed, key>>
        \/ /\ match = {}                                  \* ESC O: try again
           /\ tpeek(back, 2) = CapO /\ tpeek(back, 3) \in DOMAIN Rewrite
           /\ Tkeys' = Rewritten(tpeek(back, 3))
           /\ ring' = _tgetkb(back, <<>>)
           /\ j' = 1 /\ mask' = Special
           /\ UNCHANGED <<pc, owed, key>>
        \/ /\ match = {}                                  \* no: only the ESC
           /\ ~ (tpeek(back, 2) = CapO /\ tpeek(back, 3) \in DOMAIN Rewrite)
           /\ ring' = _tgetkb(back, <<>>)
           /\ Return(<<tpeek(back, 1)>>)
           /\ UNCHANGED Tkeys
  /\ tty' = Rest(ring, tty)
  /\ UNCHANGED Pending

Next == Type \/ tkbrdy \/ tgetkb \/ EscReady \/ check_specials

Spec == Init /\ [][Next]_vars

\* The program goes on with a key once it can; nobody has to type.
FairSpec == Spec /\ WF_vars(EscReady \/ check_specials)

-----------------------------------------------------------------------------
(* Properties. *)

\* The bytes of the call in progress: an ESC and what matched after it.
Held ==
  CASE pc = "out" -> <<>>
    [] pc = "esc" -> <<ESC>>
    [] pc = "special" ->
         IF j = 1 THEN <<ESC>>
         ELSE <<ESC>> \o SubSeq(Tkeys[CHOOSE i \in mask : TRUE], 1, j - 1)

\* No byte is lost, doubled or reordered: what was typed and not returned is
\* what the call in progress holds, then the ring, then the terminal
\* (_tgetkb, tungetkb and the wrap of cptr).
NothingLost == TypeOK /\ owed = Held \o Unread \o tty

\* A key is made of the bytes typed next, also when bytes were read ahead and
\* pushed back (what check_specials returns).
InOrder == [][Len(owed') < Len(owed) => owed = key' \o owed']_vars

\* check_specials does not call itself for ever: it returns or waits for the
\* user.
SpecialsEnd == pc = "special" ~> pc = "out" \/ ~ CanGet
=============================================================================
