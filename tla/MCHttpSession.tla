--------------------------- MODULE MCHttpSession ---------------------------
(***************************************************************************)
(* The streams that HttpSession is checked with: every message of one kind *)
(* followed by one of every kind, and a plain one behind.  With 10 bytes   *)
(* of head and 1 of body allowed, each limit is just kept and just passed. *)
(***************************************************************************)
EXTENDS HttpSession

EOL == <<CR, LF>>
Head1(line) == <<line>> \o EOL \o EOL
Head2(line, header) == <<line>> \o EOL \o <<header>> \o EOL \o EOL
Long(n) == [i \in 1..n |-> Filler]

Messages == {
    Head1("/file"), Head1("/api/data"), Head1("/metrics"), Head1("/file1.0"),
    Head2("/file", "close"), Head2("/file1.0", "keep-alive"),
    Head2("/api/data", "len1") \o <<CR>>,                  \* a body as long as allowed
    Head2("/api/data", "len2") \o Long(2),                 \* one too long
    <<"/file">> \o Long(1) \o EOL \o <<"other", CR>> \o EOL \o EOL, \* a head of 10 bytes
    <<"/file">> \o Long(2) \o EOL \o <<"other", CR>> \o EOL \o EOL, \* and of 11
    <<"/file">> \o Long(10),                               \* a line without end
    Head2("/file", Filler),                                \* a malformed header
    EOL}                                                   \* an empty request line

MCStreams == {m \o n \o Head1("/api/data") : m \in Messages, n \in Messages}
=============================================================================
