-------------------------- MODULE MCFirewallConfig --------------------------
(* A small instance of FirewallConfig: an executable with a second path (a   *)
(* link to the same file), and another one.  The text does not name the link. *)
EXTENDS FirewallConfig

CONSTANTS notepad, link, keepass, fileA, fileB

MCPath     == {notepad, link, keepass}
MCTextPath == {notepad, keepass}
MCFileOf   == [p \in MCPath |-> IF p = keepass THEN fileB ELSE fileA]

\* A directive without a path speaks for nobody: what it does is to be there, as
\* the group that the next subrule goes to.  Two lines show that.
MCShortWithoutPath ==
    (\E i \in Positions(Header \cup Subrule) : lines[i].argument = EmptyPath)
        => Len(lines) <= 2
=============================================================================
