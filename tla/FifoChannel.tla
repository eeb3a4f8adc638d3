----------------------------- MODULE FifoChannel -----------------------------
(***************************************************************************)
(* What the bounded queues of this library promise their users: a          *)
(* closable first-in first-out channel.  sent is the sequence of all       *)
(* values whose put was accepted, received the sequence of all values      *)
(* handed to a getter.  Threads, locks, condition variables and timeouts   *)
(* do not appear: a detailed queue implements this module when its steps   *)
(* map to sends, receipts, a close, or nothing.                            *)
(***************************************************************************)
EXTENDS Naturals, Sequences

CONSTANTS Items,     (* the values that can be sent                   *)
          Capacity   (* most values sent and not yet received         *)

VARIABLES sent, received, open

chanVars == <<sent, received, open>>

InTransit == Len(sent) - Len(received)

ChanInit == /\ sent = << >>
            /\ received = << >>
            /\ open = TRUE

Send(x) == /\ open
           /\ Len(sent) < Len(received) + Capacity
           /\ sent' = Append(sent, x)
           /\ UNCHANGED <<received, open>>

Receive == /\ Len(received) < Len(sent)
           /\ received' = Append(received, sent[Len(received) + 1])
           /\ UNCHANGED <<sent, open>>

Shut == /\ open' = FALSE
        /\ UNCHANGED <<sent, received>>

ChanNext == \/ \E x \in Items : Send(x)
            \/ Receive
            \/ Shut

ChanSpec == ChanInit /\ [][ChanNext]_chanVars
=============================================================================
