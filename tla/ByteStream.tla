----------------------------- MODULE ByteStream -----------------------------
(***************************************************************************)
(* What a TcpConnection promises its user.  Every send() and sendFile()    *)
(* promises some bytes; number the promised bytes 1, 2, 3, ... in the      *)
(* order of those calls.  The bytes leave on the wire in that order, each  *)
(* once, and none is skipped unless the file it belongs to was cut short   *)
(* while it was being sent.  Closing the connection ends the stream        *)
(* wherever it is.                                                         *)
(***************************************************************************)
EXTENDS Naturals, Sequences, SequencesExt, FiniteSetsExt

VARIABLES
    promised,   \* how many bytes send() and sendFile() have taken on
    wire,       \* the promised bytes the kernel has accepted, in order
    lost,       \* promised bytes of files that were truncated
    open        \* FALSE once the connection is closed

vars == <<promised, wire, lost, open>>

\* The last byte on the wire, 0 before the first.
Cursor == IF wire = <<>> THEN 0 ELSE Last(wire)

\* The numbers in S, each behind those that are less.
Ascending(S) ==
    [i \in 1..Cardinality(S) |->
        CHOOSE x \in S : Cardinality({y \in S : y < x}) = i - 1]

Init ==
    /\ promised = 0
    /\ wire = <<>>
    /\ lost = {}
    /\ open = TRUE

\* More may be promised, and the stream may advance, skipping lost bytes only.
Advance ==
    /\ open
    /\ promised' >= promised
    /\ lost \subseteq lost'
    /\ lost' \subseteq 1..promised'
    /\ \E upto \in Cursor..promised' :
          wire' = wire \o Ascending(((Cursor + 1)..upto) \ lost')
    /\ UNCHANGED open

Close ==
    /\ open
    /\ open' = FALSE
    /\ UNCHANGED <<promised, wire, lost>>

Next == Advance \/ Close

Spec == Init /\ [][Next]_vars
=============================================================================
