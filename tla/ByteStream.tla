----------------------------- MODULE ByteStream -----------------------------
(***************************************************************************)
(* What the output path of a connection promises to the threads that send: *)
(* the bytes it accepts are one stream, in which those of a thread stand   *)
(* in the order in which it gave them; the kernel takes the stream from    *)
(* its front, without a gap or a repetition; the FIN comes when all that   *)
(* was accepted has been taken, and then nothing more is accepted; what    *)
(* was accepted is taken in the end.  The end of the connection, which the *)
(* peer brings about, is the only excuse.  TcpConnection implements it.    *)
(***************************************************************************)
EXTENDS Naturals, Sequences

CONSTANT Threads   \* the threads that send

VARIABLES
  stream,   \* the bytes accepted, with their thread and number
  taken,    \* how many of them the kernel has taken
  fin,      \* has the FIN been sent?
  ended     \* has the end of the connection been handled?

vars == <<stream, taken, fin, ended>>

Init == stream = <<>> /\ taken = 0 /\ fin = FALSE /\ ended = FALSE

(* Bytes that are in no message of a thread have no place in the order.    *)
InOrder(s) ==
  \A i, j \in DOMAIN s :
    i < j /\ s[i].from = s[j].from /\ s[j].from \in Threads => s[i].n < s[j].n

Pending == taken < Len(stream)

(* Bytes are put behind the others.  The kernel may take some of them at   *)
(* once, if none wait.                                                     *)
Accept ==
  /\ ~fin \/ ended
  /\ Len(stream) <= Len(stream') /\ SubSeq(stream', 1, Len(stream)) = stream
  /\ InOrder(stream')
  /\ taken' \in taken..Len(stream')
  /\ taken' # taken => ~Pending /\ ~fin
  /\ UNCHANGED <<fin, ended>>

(* The kernel takes some that wait; the FIN may follow the last.           *)
Deliver ==
  /\ ~fin
  /\ \E n \in (taken + 1)..Len(stream) : taken' = n
  /\ fin' \in BOOLEAN /\ (fin' => ~Pending')
  /\ UNCHANGED <<stream, ended>>

Finish ==
  /\ Pending => ended
  /\ fin' = TRUE
  /\ UNCHANGED <<stream, taken, ended>>

End ==
  /\ ended' = TRUE
  /\ UNCHANGED <<stream, taken, fin>>

Next == Accept \/ Deliver \/ Finish \/ End

SafeSpec == Init /\ [][Next]_vars

(* As long as bytes wait, some are taken, or the connection ends.          *)
Spec == SafeSpec /\ WF_vars(Pending /\ ~ended /\ (Deliver \/ End))
=============================================================================
