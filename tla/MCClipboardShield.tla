-------------------------- MODULE MCClipboardShield --------------------------
(* Applications of one session, under a configuration that denies what        *)
(* keepass wrote to everybody else, or everything to everybody.               *)
EXTENDS ClipboardShield

CONSTANTS
    p1, p2, p3,             \* processes
    t1, t2, t3,             \* threads
    s1,                     \* the session
    keepass, notepad        \* paths

MCPath          == {keepass, notepad}
MCFileOf        == [p \in MCPath |-> p]
MCSessionOf     == [p \in Process |-> s1]
MCPathOf        == [p \in Process |-> IF p = p1 THEN keepass ELSE notepad]
OneThreadEach   == [t \in Thread |-> CASE t = t1 -> p1 [] t = t2 -> p2 [] t = t3 -> p3]
TwoThreadsOfTwo == [t \in Thread |-> CASE t = t1 -> p1 [] t = t2 -> p2 [] t = t3 -> p2]
Win32Writers    == [t \in Thread |-> CASE t = t1 -> {"SetClipboardData", "GetClipboardData"}
                                       [] t = t2 -> {"SetClipboardData", "OleGetClipboard"}
                                       [] t = t3 -> {"GetClipboardData", "OleGetClipboard"}]
AnyCalls        == [t \in Thread |-> CASE t = t1 -> {"OleSetClipboard"}
                                       [] t = t2 -> {"OleSetClipboard", "GetClipboardData"}
                                       [] t = t3 -> {"SetClipboardData", "OleGetClipboard"}]
OneCallEach     == [t \in Thread |-> IF t = t3 THEN {"OleGetClipboard"} ELSE {"OleSetClipboard"}]
MCRequest       == Thread \X (1 .. 2 * MaxCalls)
MCProcessOf     == [r \in MCRequest |-> ThreadProcess[r[1]]]

KeepassRule == [executable |-> keepass, default_policy |-> "Deny", second_parties |-> <<>>]

MCConfig == [source_rules      |-> <<KeepassRule>>,
             destination_rules |-> <<>>,
             default_policy    |-> "Allow"]

\* `policy deny', and nothing else.
MCLockdown == [MCConfig EXCEPT !.source_rules = <<>>, !.default_policy = "Deny"]
=============================================================================
