------------------------------ MODULE BuffText ------------------------------
(***************************************************************************)
(* The paged buffer of module Buff implements the text of TextBuffer.  A   *)
(* call that loops over pages is one step of TextBuffer, taken when it     *)
(* returns: the history variable "was" keeps what the caller saw before.   *)
(***************************************************************************)
EXTENDS Buff

\* The null pointer is no offset.
ASSUME NILAssumption == NIL \notin Nat

VARIABLE was  \* the text, point and marks when the last call returned

hvars == <<buf, call, ret, was>>

MarkPlace(b) ==
  [m \in Mark |-> IF b.mpage[m] = NIL THEN NIL
                  ELSE Before(b, b.mpage[m]) + b.moffset[m]]

View(b) == [text |-> Text(b), point |-> blocation(b), mark |-> MarkPlace(b)]

HInit == Init /\ was = View(buf)

HNext ==
  /\ Next
  /\ was' = IF call' = NoCall THEN View(buf') ELSE was

HSpec == HInit /\ [][HNext]_hvars

-----------------------------------------------------------------------------
Abstract == INSTANCE TextBuffer
              WITH text <- was.text, point <- was.point, mark <- was.mark

TextSpec == Abstract!Spec

=============================================================================
