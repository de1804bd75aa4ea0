--------------------------- MODULE ReferenceMonitor ---------------------------
(***************************************************************************)
(* What the clipboard firewall promises, with no service, hook or message in *)
(* sight: each session has a clipboard whose content somebody wrote, and a   *)
(* process gets to read it only if the policy lets it read what that writer  *)
(* wrote.  Nobody writes while somebody reads.  Refused reads are invisible. *)
(***************************************************************************)
CONSTANTS
    Process,
    Session,
    SessionOf,          \* SessionOf[p]: the session process p runs in
    NoWriter,           \* nobody wrote the content
    MayRead(_, _)       \* MayRead(w, p): the policy lets p read what w wrote

VARIABLES
    content,            \* per session, the process that wrote the content
    reading             \* the processes that are reading

vars == <<content, reading>>

Init ==
    /\ content = [s \in Session |-> NoWriter]
    /\ reading = {}

Write(p) ==
    /\ \A q \in reading : SessionOf[q] # SessionOf[p]
    /\ content' = [content EXCEPT ![SessionOf[p]] = p]
    /\ UNCHANGED reading

StartRead(p) ==
    /\ p \notin reading
    /\ MayRead(content[SessionOf[p]], p)
    /\ reading' = reading \cup {p}
    /\ UNCHANGED content

EndRead(p) ==
    /\ p \in reading
    /\ reading' = reading \ {p}
    /\ UNCHANGED content

Next == \E p \in Process : Write(p) \/ StartRead(p) \/ EndRead(p)

Spec == Init /\ [][Next]_vars
===============================================================================
