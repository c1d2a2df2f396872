------------------------------- MODULE Channel -------------------------------
(***************************************************************************)
(* What each m_queue of sandbox/std_thread promises its threads: items     *)
(* come out in the order they went in, each once, never more than the      *)
(* capacity are in between, and a queue that was closed or aborted takes   *)
(* no more.                                                                *)
(***************************************************************************)
EXTENDS Naturals, Sequences

CONSTANTS Item, Capacity

VARIABLES
  sent,       \* every item that went in
  received,   \* every item that came out
  open        \* neither closed nor aborted

vars == <<sent, received, open>>

Init == sent = <<>> /\ received = <<>> /\ open = TRUE

Send(v) ==
  /\ open
  /\ Len(sent) < Len(received) + Capacity
  /\ sent' = Append(sent, v)
  /\ UNCHANGED <<received, open>>

Receive ==
  /\ Len(received) < Len(sent)
  /\ received' = Append(received, sent[Len(received) + 1])
  /\ UNCHANGED <<sent, open>>

End == open' = FALSE /\ UNCHANGED <<sent, received>>

Next == (\E v \in Item : Send(v)) \/ Receive \/ End

Spec == Init /\ [][Next]_vars

=============================================================================
