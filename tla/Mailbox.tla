------------------------------ MODULE Mailbox ------------------------------
(***************************************************************************)
(* What an event loop's task queue promises: every task that is posted is  *)
(* run at most once, and tasks run in the order in which they were posted. *)
(***************************************************************************)
EXTENDS Naturals, Sequences

CONSTANT Task

VARIABLES posted, \* the tasks posted so far, in order
          ran     \* the tasks run so far, in order

Init == posted = <<>> /\ ran = <<>>

Post(t) == posted' = Append(posted, t) /\ UNCHANGED ran

Run ==
    /\ Len(ran) < Len(posted)
    /\ ran' = Append(ran, posted[Len(ran) + 1])
    /\ UNCHANGED posted

Next == Run \/ \E t \in Task : Post(t)

Spec == Init /\ [][Next]_<<posted, ran>>
=============================================================================
