------------------------------ MODULE SlotHistory ------------------------------
(***************************************************************************)
(* MessageSlots with two history variables, and what the waits of several  *)
(* tasks promise in terms of them.  Neither is in SerialLink.c: they       *)
(* record, of every step of MessageSlots, what of the past its code        *)
(* forgets, and restrict no step.                                          *)
(*                                                                         *)
(* eSL_MessageWait marks a slot as taken by its u16Type alone.  The slot   *)
(* looks free as soon as the wait is over, before the caller has read its  *)
(* answer, and also when eSL_MessageQueue releases it under a caller that  *)
(* still waits; and a claim does not clear the event bit.  So two calls    *)
(* may be at one slot, and a call may be woken by the bit of an earlier    *)
(* one.  Those calls are spoiled, and the properties say that no other is. *)
(***************************************************************************)
EXTENDS MessageSlots

VARIABLES
  spoiled,     \* clients whose last claim met another call or a left-over bit
  left,        \* slots with a copy in them that its call left there
  overwritten  \* copies whose only pointer was replaced by another one

history == <<spoiled, left, overwritten>>

\* The client is at its slot: from the claim until it has read its answer.
AtSlot(c) == pc[c] \in {"armed", "blocked", "woken", "expired", "collect"}

\* A bit that will wake a new call at slot i is set, or serialReadTask is about
\* to set it.
LeftOverBit(i) == bits[i] \/ (rpc = "signal" /\ ri = i)

Claims(c) == pc[c] = "scan" /\ pc'[c] = "armed"
CallsAt(i) == {c \in Clients : AtSlot(c) /\ at[c] = i}

\* A claim is spoiled by the calls already at the slot, which it spoils as well,
\* and by a left-over bit.
RecordSpoiled ==
  spoiled' =
    {d \in Clients :
       IF Claims(d) THEN CallsAt(at[d]) # {} \/ LeftOverBit(at[d])
       ELSE \/ d \in spoiled
            \/ \E c \in Clients : Claims(c) /\ d \in CallsAt(at[c])}

\* The pointer in slot i is replaced: by the sStatus of a call that claims the
\* slot, or by a copy that eSL_MessageQueue makes.
Replaced(i) ==
  \/ slotMsg'[i] \in Clients /\ slotMsg'[i] # slotMsg[i]
  \/ rpc = "match" /\ rpc' = "signal" /\ ri = i

\* A call leaves its slot without the vPortFree at the end of eSL_SendMessage:
\* its wait is over without the bit, or it waited with a NULL ppvMessage.
LeavesUnread(c) ==
  /\ AtSlot(c) /\ ~AtSlot(c)'
  /\ pc[c] = "expired" \/ phase[c] = "response"

RecordCopies ==
  /\ left' = {i \in Slots :
                /\ slotMsg'[i] \in Messages
                /\ ~Replaced(i)
                /\ i \in left \/ \E c \in CallsAt(i) : LeavesUnread(c)}
  /\ overwritten' = overwritten
       + Cardinality({i \in Slots : slotMsg[i] \in Messages /\ Replaced(i)})

HistInit == Init /\ spoiled = {} /\ left = {} /\ overwritten = 0
HistNext == Next /\ RecordSpoiled /\ RecordCopies
HistSpec == HistInit /\ [][HistNext]_<<vars, history>>

\* With the fairness of MessageSlots: the history changes with vars only.
FairHistSpec ==
  /\ HistSpec
  /\ WF_vars(ReaderStep)
  /\ \A c \in Clients : SF_vars(CallStep(c))

-----------------------------------------------------------------------------
(* Properties.                                                             *)

\* What is in the slot of client c is the answer to its own command: the status
\* of that command, or a response of the type it waits for.
OwnCopy(c) ==
  LET m == slotMsg[at[c]]
  IN  /\ m \in Messages
      /\ m.type = Awaited(c)
      /\ phase[c] = "status" => m.of = cmd[c]

\* A call that is about to read its answer finds its own, and a live copy to
\* free, unless another call was at its slot or it met a left-over bit: whatever
\* was late, lost, released under it or answered twice before.
AnswerIsOwn ==
  \A c \in Clients : pc[c] = "collect" /\ c \notin spoiled => OwnCopy(c)

\* Once no call and no received message is in progress, no copy is allocated
\* but those that a wait left behind, late or not asked for, and those that were
\* overwritten: every status a call reads is freed, once.
CopiesFreedWhenIdle ==
  (\A c \in Clients : pc[c] = "idle") /\ rpc = "read"
    => heapUsed = Cardinality(left) + overwritten

=============================================================================
