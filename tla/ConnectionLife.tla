--------------------------- MODULE ConnectionLife ---------------------------
(***************************************************************************)
(* What a TcpServer promises of the life of each connection: the user is   *)
(* told once that it is up and once that it is down, it is freed           *)
(* afterwards, and one whose peer has ended gets that far as long as the   *)
(* server is serving.  Only a server that stops may free a connection      *)
(* without telling the user.                                               *)
(***************************************************************************)
CONSTANT Conns

VARIABLES
  life,     \* how far each connection has come
  ended,    \* has its peer closed?
  serving   \* nobody has asked the base loop to quit

vars == <<life, ended, serving>>

Lives == {"waiting", "accepted", "up", "down", "freed"}

Init ==
  /\ life = [c \in Conns |-> "waiting"]
  /\ ended = [c \in Conns |-> FALSE]
  /\ serving = TRUE

Becomes(c, from, to) ==
  /\ life[c] = from
  /\ life' = [life EXCEPT ![c] = to]
  /\ UNCHANGED <<ended, serving>>

(* A connection of the base loop is up as soon as it is accepted.          *)
Accept(c) == Becomes(c, "waiting", "accepted") \/ Becomes(c, "waiting", "up")
Up(c) == Becomes(c, "accepted", "up")
Down(c) == Becomes(c, "up", "down")

MayBeFreed(c) ==
  \/ life[c] = "down"
  \/ ~serving /\ life[c] \in {"accepted", "up"}

(* A loop that drops its functors can free several connections at once.    *)
Free(freed) ==
  /\ freed # {}
  /\ \A c \in freed : MayBeFreed(c)
  /\ life' = [c \in Conns |-> IF c \in freed THEN "freed" ELSE life[c]]
  /\ UNCHANGED <<ended, serving>>

PeerEnds(c) ==
  /\ ~ended[c]
  /\ ended' = [ended EXCEPT ![c] = TRUE]
  /\ UNCHANGED <<life, serving>>

Stop ==
  /\ serving
  /\ serving' = FALSE
  /\ UNCHANGED <<life, ended>>

Next ==
  \/ \E c \in Conns : Accept(c) \/ Up(c) \/ Down(c) \/ PeerEnds(c)
  \/ \E freed \in SUBSET Conns : Free(freed)
  \/ Stop

SafeSpec == Init /\ [][Next]_vars

(* The next step in the life of a connection whose peer has ended.         *)
Progress(c) ==
  /\ serving /\ ended[c]
  /\ Up(c) \/ Down(c) \/ \E freed \in SUBSET Conns : c \in freed /\ Free(freed)

Spec == SafeSpec /\ \A c \in Conns : WF_vars(Progress(c))
=============================================================================
