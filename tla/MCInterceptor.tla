---------------------------- MODULE MCInterceptor ----------------------------
(* Three processes, two of them in one session, and either a configuration   *)
(* that denies pastes from the first executable to the second, or the         *)
(* configuration `policy deny' and one executable.                           *)
EXTENDS Interceptor

CONSTANTS
    p1, p2, p3,             \* processes
    s1, s2,                 \* sessions
    keepass, notepad,       \* paths
    r1, r2, r3, r4, r5,     \* requests
    WithRules,              \* the configuration holds a rule, or is `policy deny'
    AfterCrash              \* bound on the requests of a behaviour with a crash

MCPath      == {keepass, notepad}
MCFileOf    == [p \in MCPath |-> p]
MCSessionOf == [p \in Process |-> IF p = p3 THEN s2 ELSE s1]
MCPathOf    == [p \in Process |-> IF p = p1 /\ WithRules THEN keepass ELSE notepad]
MCProcessOf == [r \in Request |-> CASE r \in {r1, r2} -> p1
                                    [] r \in {r3, r4} -> p2
                                    [] r = r5         -> p3]

\* Requests of one process are interchangeable.
MCSymmetry == {f \in Permutations(Request) : \A r \in Request : ProcessOf[f[r]] = ProcessOf[r]}

\* After the service went down, only few requests are used in all.
MCFewAfterCrash == crashes = 0 \/ Cardinality(sent) <= AfterCrash

KeepassRule == [executable |-> keepass, default_policy |-> "Deny", second_parties |-> <<>>]

MCConfig == [source_rules      |-> IF WithRules THEN <<KeepassRule>> ELSE <<>>,
             destination_rules |-> <<>>,
             default_policy    |-> IF WithRules THEN "Allow" ELSE "Deny"]
=============================================================================
