------------------------------- MODULE LossyLink -------------------------------
(***************************************************************************)
(* What a one-way message link may do: it hands over messages that were    *)
(* put in, unchanged, each at most once and in the order they were put in, *)
(* and it may lose any of them.  SerialFrame, the byte frames of           *)
(* SerialLink.c, implements it.                                            *)
(***************************************************************************)
EXTENDS Naturals, Sequences

CONSTANT Messages

VARIABLES
  pending,   \* messages put in, neither handed over nor lost, oldest first
  received   \* messages handed over, in order

vars == <<pending, received>>

TypeOK ==
  /\ pending \in Seq(Messages)
  /\ received \in Seq(Messages)

Init == pending = <<>> /\ received = <<>>

\* The oldest n messages are gone.
DropOldest(n) == pending' = SubSeq(pending, n + 1, Len(pending))

Put(m) ==
  /\ pending' = Append(pending, m)
  /\ UNCHANGED received

\* A message is handed over.  Those before it, and some after it, are lost.
HandOver(i) ==
  /\ received' = Append(received, pending[i])
  /\ \E n \in i..Len(pending) : DropOldest(n)

\* Old messages are lost.
LoseOldest(n) == DropOldest(n) /\ UNCHANGED received

\* The message just put in is lost: there is no room for it.
LoseNewest ==
  /\ pending # <<>>
  /\ pending' = SubSeq(pending, 1, Len(pending) - 1)
  /\ UNCHANGED received

Next ==
  \/ \E m \in Messages : Put(m)
  \/ \E i \in DOMAIN pending : HandOver(i) \/ LoseOldest(i)
  \/ LoseNewest

Spec == Init /\ [][Next]_vars
=============================================================================
