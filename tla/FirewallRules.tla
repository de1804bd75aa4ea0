---------------------------- MODULE FirewallRules ----------------------------
(***************************************************************************)
(* The decision procedure of the clipboard firewall (libvts/Rules.h): what  *)
(* the service answers when the executable at path `destination' wants to   *)
(* paste what the executable at path `source' last copied.                  *)
(*                                                                         *)
(* A path is an atomic value; what the code asks of two paths is whether    *)
(* they are the same string and whether they open the same file.            *)
(***************************************************************************)
EXTENDS Naturals, Sequences, SequencesExt

CONSTANTS
    Path,       \* the executable paths of the system
    EmptyPath,  \* the empty string: the path could not be determined
    NoFile,     \* what a path opens when it cannot be opened
    FileOf      \* FileOf[p]: the identity of the file p opens, or NoFile

ASSUME PathAssumption ==
    /\ EmptyPath \notin Path
    /\ DOMAIN FileOf = Path

FirewallPolicy == {"None", "Allow", "Deny"}

\* A subrule: the other party of the operation, and what to do with it.  A
\* directive without a path leaves the empty string.
SecondParty == [path : Path \cup {EmptyPath}, policy : {"Allow", "Deny"}]

FirewallRule == [executable     : Path \cup {EmptyPath},
                 default_policy : {"Allow", "Deny"},
                 second_parties : Seq(SecondParty)]

FirewallConfiguration == [source_rules      : Seq(FirewallRule),
                          destination_rules : Seq(FirewallRule),
                          default_policy    : {"Allow", "Deny"}]

\* FirewallPolicy is an enum class ordered None < Allow < Deny.
Rank(p) == CASE p = "None" -> 0 [] p = "Allow" -> 1 [] p = "Deny" -> 2

\* Defect for RuleLinesActInTheirDirection: the weaker of the two opinions is taken.
min(a, b) == IF Rank(a) <= Rank(b) THEN a ELSE b

max(a, b) == IF Rank(a) >= Rank(b) THEN a ELSE b

\* The empty string opens nothing.
Opens(p) == IF p = EmptyPath THEN NoFile ELSE FileOf[p]

\* Two paths match when both can be opened and open the same file.
paths_are_equivalent(a, b) == Opens(a) # NoFile /\ Opens(a) = Opens(b)

\* A rule decides with its first subrule that names the second party.
rule_check_permission(rule, second_party) ==
    LET i == SelectInSeq(rule.second_parties,
                         LAMBDA sp : paths_are_equivalent(second_party, sp.path))
    IN  IF i = 0 THEN rule.default_policy ELSE rule.second_parties[i].policy

\* Only the first rule that names the first party is consulted.
first_rule(rules, first_party) ==
    SelectInSeq(rules, LAMBDA r : paths_are_equivalent(first_party, r.executable))

check_permission(rules, first_party, second_party) ==
    LET i == first_rule(rules, first_party)
    IN  IF i = 0 THEN "None" ELSE rule_check_permission(rules[i], second_party)

check_permission_source(config, source, destination) ==
    check_permission(config.source_rules, source, destination)

check_permission_destination(config, source, destination) ==
    check_permission(config.destination_rules, destination, source)

\* Defect for UnknownSourceMatchesText: the wrong vector is searched.
check_source_rules_only(config, destination) ==
    LET i == first_rule(config.source_rules, destination)
    IN  IF i = 0 THEN "None" ELSE config.source_rules[i].default_policy

\* The overload used when nobody is known to have copied: subrules do not apply.
check_permission_unknown_source(config, destination) ==
    LET i == first_rule(config.destination_rules, destination)
    IN  IF i = 0 THEN "None" ELSE config.destination_rules[i].default_policy

\* Defect for VerdictMatchesText: an opinion of the source is final.
check_source_first(config, source, destination) ==
    LET a == check_permission_source(config, source, destination)
        b == check_permission_destination(config, source, destination)
    IN  IF a # "None" THEN a
        ELSE IF b # "None" THEN b ELSE config.default_policy

check_combined_permissions(config, source, destination) ==
    LET a == check_permission_source(config, source, destination)
        b == check_permission_destination(config, source, destination)
        m == max(a, b)
    IN  IF a = "Deny" THEN "Deny"
        ELSE IF m = "None" THEN config.default_policy ELSE m

on_previously_unknown_state == "Allow"

run_permissions_logic(config, source, destination) ==
    CASE destination = EmptyPath -> "Allow"
      [] destination # EmptyPath /\ source = EmptyPath ->
            IF check_permission_unknown_source(config, destination) = "Deny"
            THEN "Deny"
            ELSE on_previously_unknown_state
      [] destination # EmptyPath /\ source # EmptyPath /\ source = destination -> "Allow"
      [] OTHER -> check_combined_permissions(config, source, destination)
==============================================================================
