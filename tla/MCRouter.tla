------------------------------ MODULE MCRouter ------------------------------
(***************************************************************************)
(* What Router is checked with.  The last second of 1999, the year before  *)
(* a leap year that RFC 850 writes 00; and an upstream that tells the      *)
(* length of its answer, spells it in lower case, tells none, tells one    *)
(* that is too short, sends a body with a 304, or sends no status line.    *)
(***************************************************************************)
EXTENDS Router

MCStartTimes == {946684799}

\* Every day up to the last one of a 32-bit clock is read as it is written, but for
\* the year 00 (formatHttpDate() and parseHttpDate()).
DatesAreRead ==
    \A day \in 0..24854 : \A form \in Forms :
        LET t == day * 86400 + 11296
            d == gmtime_r(t)
        IN  parseHttpDate(Text(form, d)) = IF form = "RFC850" /\ d.year = 2000 THEN {} ELSE {t}

ASSUME DatesAssumption == DatesAreRead

Reply(status, headers, size) ==
    [status |-> status, headers |-> headers, body |-> [i \in 1..size |-> "upstream"]]

MCReplies == {
    Reply(200, "Content-Length" :> 2 @@ "Connection" :> "close", 2),
    Reply(404, "content-length" :> 1, 1),
    Reply(200, NoHeaders, 1),
    Reply(200, "Content-Length" :> 1, 2),
    Reply(304, NoHeaders, 1),
    Reply(0, NoHeaders, 1)}
=============================================================================
