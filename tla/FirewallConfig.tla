--------------------------- MODULE FirewallConfig ---------------------------
(***************************************************************************)
(* The configuration parser (FirewallConfiguration::parse_config_string in  *)
(* libvts/Rules.h) as a machine that consumes the text one line at a time,  *)
(* and what the rules it builds decide, compared with a reading of the      *)
(* text itself.                                                            *)
(*                                                                         *)
(* A line is what the parser tells apart in it: its indentation, its first  *)
(* word and the rest.  The text is not fixed in advance: each step reads    *)
(* one more line, whichever it is, so all texts of up to MaxLines lines are  *)
(* parsed.                                                                 *)
(***************************************************************************)
EXTENDS FirewallRules

CONSTANTS
    TextPath,   \* the paths that a configuration names
    MaxLines    \* bound on the length of the text

ASSUME TextAssumption == TextPath \subseteq Path /\ MaxLines \in Nat

VARIABLES
    lines,          \* the text read so far
    status,         \* reading, parsed, rejected (an exception) or undefined
    default_policy,
    src_rules,
    dst_rules,
    last_rule       \* where the last rule added is, <<>> for a null pointer

vars == <<lines, status, default_policy, src_rules, dst_rules, last_rule>>

SourceHeader      == {"source-allow", "source-deny"}
DestinationHeader == {"destination-allow", "destination-deny"}
Header            == SourceHeader \cup DestinationHeader
Subrule           == {"allow", "deny"}
AllowDirective    == {"allow", "source-allow", "destination-allow"}

\* The lines the parser distinguishes.  A directive with nothing behind it has
\* the empty string for its path.  "other" stands for any unknown first word and
\* for a policy that is neither allow nor deny.
Line == [indented : BOOLEAN, directive : Header \cup Subrule,
         argument : TextPath \cup {EmptyPath}]
        \cup [indented : BOOLEAN, directive : {"policy"}, argument : {"Allow", "Deny"}]
        \cup [indented : BOOLEAN, directive : {"blank", "other"}, argument : {EmptyPath}]

PolicyOf(l) == IF l.directive \in AllowDirective THEN "Allow" ELSE "Deny"

Init ==
    /\ lines = <<>>
    /\ status = "reading"
    /\ default_policy = "Allow"
    /\ src_rules = <<>>
    /\ dst_rules = <<>>
    /\ last_rule = <<>>

Reject ==
    /\ status' = "rejected"
    /\ UNCHANGED <<default_policy, src_rules, dst_rules, last_rule>>

BlankLine ==
    UNCHANGED <<status, default_policy, src_rules, dst_rules, last_rule>>

\* The policy directive is accepted anywhere, indented or not; the last one wins.
PolicyLine(l) ==
    /\ default_policy' = l.argument
    /\ UNCHANGED <<status, src_rules, dst_rules, last_rule>>

\* Defect for TypeOK: the pointer is taken into the source rules in both cases.
HeaderLineOneVector(l) ==
    LET rule == [executable |-> l.argument, default_policy |-> PolicyOf(l),
                 second_parties |-> <<>>]
    IN  /\ ~l.indented
        /\ last_rule' = <<"source", Len(src_rules) + 1>>
        /\ IF l.directive \in SourceHeader
           THEN src_rules' = Append(src_rules, rule) /\ UNCHANGED dst_rules
           ELSE dst_rules' = Append(dst_rules, rule) /\ UNCHANGED src_rules
        /\ UNCHANGED <<status, default_policy>>

\* add_rule appends to the vector of the rule's kind, and last_rule points there.
HeaderLine(l) ==
    IF l.indented
    THEN Reject
    ELSE LET rule == [executable     |-> l.argument,
                      default_policy |-> PolicyOf(l),
                      second_parties |-> <<>>]
         IN  /\ IF l.directive \in SourceHeader
                THEN /\ src_rules' = Append(src_rules, rule)
                     /\ last_rule' = <<"source", Len(src_rules) + 1>>
                     /\ UNCHANGED dst_rules
                ELSE /\ dst_rules' = Append(dst_rules, rule)
                     /\ last_rule' = <<"destination", Len(dst_rules) + 1>>
                     /\ UNCHANGED src_rules
             /\ UNCHANGED <<status, default_policy>>

\* last_rule->add_second_party(...)
AddSecondParty(l) ==
    LET sp == [path |-> l.argument, policy |-> PolicyOf(l)]
        Extended(rules) == [rules EXCEPT ![last_rule[2]].second_parties = Append(@, sp)]
    IN  /\ \/ last_rule[1] = "source" /\ src_rules' = Extended(src_rules) /\ UNCHANGED dst_rules
           \/ last_rule[1] = "destination" /\ dst_rules' = Extended(dst_rules) /\ UNCHANGED src_rules
        /\ UNCHANGED <<status, default_policy, last_rule>>

\* Defect for OnlyWellPlacedTextsAreParsed: the indentation is not tested.
AllowLineUnindented(l) ==
    IF last_rule = <<>> THEN Reject ELSE AddSecondParty(l)

\* "allow" requires indentation and a rule to belong to.
AllowLine(l) ==
    IF ~l.indented \/ last_rule = <<>> THEN Reject ELSE AddSecondParty(l)

\* Writing through a null last_rule is undefined: the process is gone.
NullDereference ==
    /\ status' = "undefined"
    /\ UNCHANGED <<default_policy, src_rules, dst_rules, last_rule>>

\* "deny" tests last_rule only inside `if (!indented)'.
DenyLine(l) ==
    IF ~l.indented THEN Reject
    ELSE IF last_rule = <<>> THEN NullDereference
    ELSE AddSecondParty(l)

ReadLine(l) ==
    /\ status = "reading"
    /\ Len(lines) < MaxLines
    /\ lines' = Append(lines, l)
    /\ CASE l.directive = "blank"   -> BlankLine
         [] l.directive = "other"   -> Reject
         [] l.directive = "policy"  -> PolicyLine(l)
         [] l.directive = "allow"   -> AllowLine(l)
         [] l.directive = "deny"    -> DenyLine(l)
         [] l.directive \in Header  -> HeaderLine(l)

EndOfText ==
    /\ status = "reading"
    /\ status' = "parsed"
    /\ UNCHANGED <<lines, default_policy, src_rules, dst_rules, last_rule>>

Next == EndOfText \/ \E l \in Line : ReadLine(l)

Spec == Init /\ [][Next]_vars

config == [source_rules      |-> src_rules,
           destination_rules |-> dst_rules,
           default_policy    |-> default_policy]

------------------------------------------------------------------------------
(***************************************************************************)
(* The same text read declaratively, by the positions of its lines: the     *)
(* documented meaning of a configuration (doc/Configuration.md), which the  *)
(* properties compare the parser and the rules with.                       *)
(***************************************************************************)
Positions(D) == {i \in DOMAIN lines : lines[i].directive \in D}

\* The group a subrule belongs to: the nearest main directive above it.
GroupOf(i) == Max({j \in Positions(Header) : j < i})

\* The subrules of the group headed at j that name path p.
Exceptions(j, p) ==
    {i \in Positions(Subrule) : /\ j < i
                                /\ GroupOf(i) = j
                                /\ paths_are_equivalent(p, lines[i].argument)}

\* What the groups headed by a directive in H say when they are about p and
\* the other party is q.
TextSays(H, p, q) ==
    LET G == {j \in Positions(H) : paths_are_equivalent(p, lines[j].argument)}
        E == Exceptions(Min(G), q)
    IN  CASE G = {}             -> "None"
          [] G # {} /\ E = {}   -> PolicyOf(lines[Min(G)])
          [] OTHER              -> PolicyOf(lines[Min(E)])

TextDefault ==
    IF Positions({"policy"}) = {} THEN "Allow"
    ELSE lines[Max(Positions({"policy"}))].argument

\* A paste is denied when either party's group denies it, allowed when one of
\* them allows it and none denies it, and left to the policy otherwise.
TextVerdict(s, d) ==
    LET opinions == {TextSays(SourceHeader, s, d), TextSays(DestinationHeader, d, s)}
    IN  CASE "Deny" \in opinions                           -> "Deny"
          [] "Deny" \notin opinions /\ "Allow" \in opinions -> "Allow"
          [] OTHER                                         -> TextDefault

Verdict(s, d) == run_permissions_logic(config, s, d)

\* The state of the parser is well formed (the locals of parse_config_string).
TypeOK ==
    /\ lines \in Seq(Line)
    /\ status \in {"reading", "parsed", "rejected", "undefined"}
    /\ config \in FirewallConfiguration
    /\ last_rule \in {<<>>} \cup ({"source"} \X DOMAIN src_rules)
                            \cup ({"destination"} \X DOMAIN dst_rules)

\* For every configuration the parser accepts and every two different
\* executables, the decision the service takes (run_permissions_logic over the
\* parsed rules) is the one the text itself expresses: subrules end up in the
\* group they were written under, the first matching group and the first
\* matching subrule win, a denial by either party prevails, and the default
\* policy applies only when no group says anything.
VerdictMatchesText ==
    status = "parsed" =>
        \A s, d \in Path : s # d => Verdict(s, d) = TextVerdict(s, d)

\* With no known last writer (run_permissions_logic with an empty source) only a
\* destination-deny group can deny, whatever its subrules and whatever the
\* default policy: on_previously_unknown_state answers for all the rest.  So
\* `policy deny' does not hold for an unknown writer, although doc/Configuration.md:27
\* says it forbids any process from reading: DenyPolicyForbidsReading of
\* ClipboardShield is refuted for that.
UnknownSourceMatchesText ==
    status = "parsed" =>
        \A d \in Path :
            LET G == {j \in Positions(DestinationHeader) :
                        paths_are_equivalent(d, lines[j].argument)}
            IN  (Verdict(EmptyPath, d) = "Deny") <=>
                    (G # {} /\ lines[Min(G)].directive = "destination-deny")

\* A line the parser goes on after: a main directive at the margin, a subrule
\* indented and with a main directive above it, a policy or a blank line anywhere.
WellPlaced(i) ==
    /\ lines[i].directive # "other"
    /\ lines[i].directive \in Header => ~lines[i].indented
    /\ lines[i].directive \in Subrule =>
            lines[i].indented /\ \E j \in Positions(Header) : j < i

\* The parser stops at the first line that is not well placed, and at no other:
\* what it has read or accepted consists of well placed lines, and a text it
\* threw on, or died of, ends in the one line that is not (the throws of
\* parse_config_string and the null last_rule).  This is laxer than the grammar
\* of doc/Configuration.md:73-79, which has at most one policy, first and at the
\* margin, and a path in every directive; the parser takes a policy anywhere,
\* indented or repeated, and a directive with no path.
OnlyWellPlacedTextsAreParsed ==
    /\ status \in {"reading", "parsed"} => \A i \in DOMAIN lines : WellPlaced(i)
    /\ status \in {"rejected", "undefined"} =>
            \A i \in DOMAIN lines : WellPlaced(i) <=> i # Len(lines)

\* One more line about a party, a main directive or a subrule, acts in its own
\* direction only: a deny line allows no paste that was denied, an allow line denies
\* none that was allowed, whatever groups, subrules and default policy precede it
\* (add_rule, add_second_party, check_combined_permissions).  This is said of
\* single lines: a group contains its exceptions, which act against its directive.
RuleLinesActInTheirDirection ==
    [][(config' # config /\ Last(lines').directive \in Header \cup Subrule) =>
        LET opposite == IF PolicyOf(Last(lines')) = "Allow" THEN "Deny" ELSE "Allow"
        IN  \A s, d \in Path :
                s # d /\ Verdict(s, d)' = opposite => Verdict(s, d) = opposite]_vars

\* doc/Configuration.md:75, "rule-group: main-directive SPACE PATH NEWLINE
\* ( subrule )*": a subrule that follows no main directive is not a
\* configuration, and the parser is meant to throw on it as it does for allow.
OrphanSubruleIsRejected ==
    (\E i \in Positions(Subrule) : \A j \in Positions(Header) : i < j)
        => status = "rejected"
==============================================================================
