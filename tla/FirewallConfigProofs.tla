------------------------- MODULE FirewallConfigProofs -------------------------
(***************************************************************************)
(* The parser and the rules it builds mean what the text says, for every     *)
(* text of any length, any paths and any files they open.                   *)
(***************************************************************************)
EXTENDS FirewallConfig, WellFoundedInduction, TLAPS

------------------------------------------------------------------------------
(* Least and greatest elements.                                             *)

LEMMA LeastExists ==
    ASSUME NEW S, S \subseteq Nat, S # {}
    PROVE  \E m \in S : \A n \in S : m <= n
<1>1. PICK m \in S : \A n \in S : ~(<<n, m>> \in OpToRel(<, Nat))
  BY NatLessThanWellFounded, WFMin, Zenon
<1>2. ASSUME NEW n \in S PROVE m <= n
  <2>1. <<n, m>> \in Nat \X Nat
    OBVIOUS
  <2>2. ~(n < m)
    BY <1>1, <2>1 DEF OpToRel
  <2>. QED
    BY <2>2
<1>. QED
  BY <1>2

LEMMA MinOfNat ==
    ASSUME NEW S, S \subseteq Nat, S # {}
    PROVE  Min(S) \in S /\ \A n \in S : Min(S) <= n
BY LeastExists DEF Min

LEMMA MinIs ==
    ASSUME NEW S, S \subseteq Nat, NEW m \in S, \A n \in S : m <= n
    PROVE  Min(S) = m
<1>1. Min(S) \in S /\ \A n \in S : Min(S) <= n
  BY MinOfNat
<1>2. Min(S) \in Nat /\ m \in Nat
  BY <1>1
<1>3. Min(S) <= m /\ m <= Min(S)
  BY <1>1
<1>. QED
  BY <1>2, <1>3

LEMMA MaxIs ==
    ASSUME NEW S, S \subseteq Nat, NEW m \in S, \A n \in S : n <= m
    PROVE  Max(S) = m
<1>1. Max(S) \in S /\ \A n \in S : Max(S) >= n
  BY DEF Max
<1>2. Max(S) \in Nat /\ m \in Nat
  BY <1>1
<1>3. Max(S) >= m /\ m >= Max(S)
  BY <1>1
<1>. QED
  BY <1>2, <1>3

\* A bounded set has a greatest element: its distance to the bound is the least.
LEMMA GreatestExists ==
    ASSUME NEW S, NEW b \in Nat, S \subseteq 1 .. b, S # {}
    PROVE  \E m \in S : \A n \in S : n <= m
<1> DEFINE D == {b - n : n \in S}
<1>1. D \subseteq Nat
  OBVIOUS
<1>0. D # {}
  OBVIOUS
<1>2. PICK d \in D : \A e \in D : d <= e
  BY <1>0, <1>1, LeastExists
<1>3. PICK m \in S : d = b - m
  BY <1>2
<1>4. ASSUME NEW n \in S PROVE n <= m
  <2>1. b - n \in D
    OBVIOUS
  <2>2. b - m <= b - n
    BY <1>2, <1>3, <2>1
  <2>3. n \in Nat /\ m \in Nat
    OBVIOUS
  <2>. QED
    BY <2>2, <2>3
<1>. QED
  BY <1>4

------------------------------------------------------------------------------
(* Increasing enumerations: what ties the rules to the lines they come from.  *)

\* g lists the elements of S, which are n, in increasing order.
Enumerates(g, n, S) ==
    /\ g \in [1 .. n -> S]
    /\ \A k, m \in 1 .. n : k < m => g[k] < g[m]
    /\ \A s \in S : \E k \in 1 .. n : g[k] = s

LEMMA EnumerateNothing ==
    Enumerates(<<>>, 0, {})
BY DEF Enumerates

\* A new greatest element is listed last.
Extension(g, n, x) == [k \in 1 .. n + 1 |-> IF k <= n THEN g[k] ELSE x]

LEMMA EnumerateOneMore ==
    ASSUME NEW g, NEW n \in Nat, NEW S, NEW x \in Nat,
           Enumerates(g, n, S), S \subseteq Nat, \A s \in S : s < x
    PROVE  Enumerates(Extension(g, n, x), n + 1, S \cup {x})
<1> DEFINE h == Extension(g, n, x)
<1>1. \A k \in 1 .. n : h[k] = g[k] /\ g[k] \in S
  BY DEF Extension, Enumerates
<1>2. h[n + 1] = x
  BY DEF Extension
<1>3. \A k \in 1 .. n + 1 : k \in 1 .. n \/ k = n + 1
  OBVIOUS
<1>4. 1 .. n \subseteq 1 .. n + 1 /\ n + 1 \in 1 .. n + 1
  OBVIOUS
<1>5. h \in [1 .. n + 1 -> S \cup {x}]
  BY DEF Extension, Enumerates
<1>6. ASSUME NEW k \in 1 .. n + 1, NEW m \in 1 .. n + 1, k < m PROVE h[k] < h[m]
  <2>1. k \in 1 .. n
    BY <1>6
  <2>2. CASE m \in 1 .. n
    BY <1>1, <1>6, <2>1, <2>2 DEF Enumerates
  <2>3. CASE m = n + 1
    BY <1>1, <1>2, <2>1, <2>3
  <2>. QED
    BY <1>3, <2>2, <2>3
<1>7. ASSUME NEW s \in S \cup {x} PROVE \E k \in 1 .. n + 1 : h[k] = s
  <2>1. CASE s \in S
    BY <1>1, <1>4, <2>1 DEF Enumerates
  <2>2. CASE s = x
    BY <1>2, <1>4, <2>2
  <2>. QED
    BY <2>1, <2>2
<1>. QED
  BY <1>5, <1>6, <1>7 DEF Enumerates

\* The first listed element of T is the least one of T; I are the places of
\* the elements of T in the list.
Picks(I, g, n, T) == I \subseteq 1 .. n /\ \A k \in 1 .. n : k \in I <=> g[k] \in T

LEMMA EnumerationMin ==
    ASSUME NEW g, NEW n \in Nat, NEW S, NEW T,
           Enumerates(g, n, S), S \subseteq Nat, T \subseteq S,
           NEW I, Picks(I, g, n, T)
    PROVE  /\ I = {} <=> T = {}
           /\ T # {} => Min(I) \in I /\ g[Min(I)] = Min(T)
<1>0. I \subseteq 1 .. n /\ \A k \in 1 .. n : k \in I <=> g[k] \in T
  BY DEF Picks
<1>1. I = {} <=> T = {}
  BY <1>0 DEF Enumerates
<1>2. ASSUME T # {} PROVE Min(I) \in I /\ g[Min(I)] = Min(T)
  <2>0. I # {}
    BY <1>1, <1>2
  <2>1. I \subseteq Nat
    BY <1>0
  <2>2. Min(I) \in I /\ \A k \in I : Min(I) <= k
    BY <2>0, <2>1, MinOfNat
  <2>3. g[Min(I)] \in T
    BY <1>0, <2>2
  <2>4. ASSUME NEW s \in T PROVE g[Min(I)] <= s
    <3>1. PICK k \in 1 .. n : g[k] = s
      BY DEF Enumerates
    <3>2. k \in I
      BY <1>0, <3>1
    <3>3. CASE Min(I) = k
      BY <3>1, <3>3
    <3>4. CASE Min(I) < k
      <4>1. Min(I) \in 1 .. n
        BY <1>0, <2>2
      <4>2. g[Min(I)] < g[k]
        BY <3>4, <4>1 DEF Enumerates
      <4>3. g[Min(I)] \in Nat /\ g[k] \in Nat
        BY <2>3, <3>1
      <4>. QED
        BY <3>1, <4>2, <4>3
    <3>5. Min(I) \in Nat /\ k \in Nat /\ Min(I) <= k
      BY <2>1, <2>2, <3>2
    <3>. QED
      BY <3>3, <3>4, <3>5
  <2>5. T \subseteq Nat
    OBVIOUS
  <2>6. Min(T) = g[Min(I)]
    BY <2>3, <2>4, <2>5, MinIs
  <2>. QED
    BY <2>2, <2>6
<1>. QED
  BY <1>1, <1>2

\* The greatest element is listed last.
LEMMA EnumerationLast ==
    ASSUME NEW g, NEW n \in Nat, NEW S, NEW j \in S,
           Enumerates(g, n, S), S \subseteq Nat, \A s \in S : s <= j
    PROVE  n \in 1 .. n /\ g[n] = j
<1>1. PICK k \in 1 .. n : g[k] = j
  BY DEF Enumerates
<1>2. n \in 1 .. n
  BY <1>1
<1>3. CASE k < n
  <2>1. g[k] < g[n]
    BY <1>2, <1>3 DEF Enumerates
  <2>2. g[n] \in S
    BY <1>2 DEF Enumerates
  <2>3. g[n] \in Nat /\ j \in Nat
    BY <2>2
  <2>. QED
    BY <1>1, <2>1, <2>2, <2>3
<1>. QED
  BY <1>1, <1>2, <1>3

------------------------------------------------------------------------------
(* Texts.                                                                   *)

LEMMA LineParts ==
    ASSUME NEW l \in Line
    PROVE  /\ l.indented \in BOOLEAN
           /\ l.directive \in Header \cup Subrule \cup {"policy", "blank", "other"}
           /\ l.directive \in Header \cup Subrule => l.argument \in TextPath \cup {EmptyPath}
           /\ l.directive = "policy" => l.argument \in {"Allow", "Deny"}
BY DEF Line, Header, SourceHeader, DestinationHeader, Subrule

\* The positions of the lines of a text with a directive in D.
At(t, D) == {i \in DOMAIN t : t[i].directive \in D}

\* The subrules of the group headed at j: no other header stands between.
Members(t, j) ==
    {i \in At(t, Subrule) : j < i /\ \A h \in At(t, Header) : h < i => h <= j}

LEMMA AtBounds ==
    ASSUME NEW t \in Seq(Line), NEW D
    PROVE  At(t, D) \subseteq 1 .. Len(t) /\ At(t, D) \subseteq Nat
BY DEF At

LEMMA MembersBounds ==
    ASSUME NEW t \in Seq(Line), NEW j
    PROVE  Members(t, j) \subseteq 1 .. Len(t) /\ Members(t, j) \subseteq Nat
BY AtBounds DEF Members

LEMMA AppendedLines ==
    ASSUME NEW t \in Seq(Line), NEW l \in Line
    PROVE  /\ Append(t, l) \in Seq(Line)
           /\ Len(Append(t, l)) = Len(t) + 1
           /\ DOMAIN Append(t, l) = DOMAIN t \cup {Len(t) + 1}
           /\ \A i \in DOMAIN t : Append(t, l)[i] = t[i]
           /\ Append(t, l)[Len(t) + 1] = l
           /\ Len(t) + 1 \notin DOMAIN t
           /\ Len(t) \in Nat
OBVIOUS

LEMMA AtWith ==
    ASSUME NEW t \in Seq(Line), NEW l \in Line, NEW D, l.directive \in D
    PROVE  At(Append(t, l), D) = At(t, D) \cup {Len(t) + 1}
BY AppendedLines DEF At

LEMMA AtWithout ==
    ASSUME NEW t \in Seq(Line), NEW l \in Line, NEW D, l.directive \notin D
    PROVE  At(Append(t, l), D) = At(t, D)
BY AppendedLines DEF At

\* A line that is no subrule adds no member to a group above it.
LEMMA MembersWithout ==
    ASSUME NEW t \in Seq(Line), NEW l \in Line, NEW j \in 1 .. Len(t),
           l.directive \notin Subrule
    PROVE  Members(Append(t, l), j) = Members(t, j)
<1>1. At(Append(t, l), Subrule) = At(t, Subrule)
  BY AtWithout
<1>2. CASE l.directive \notin Header
  BY <1>1, <1>2, AtWithout DEF Members
<1>3. CASE l.directive \in Header
  <2>1. At(Append(t, l), Header) = At(t, Header) \cup {Len(t) + 1}
    BY <1>3, AtWith
  <2>2. \A i \in At(t, Subrule) : i \in Nat /\ i <= Len(t)
    BY AtBounds
  <2>3. \A i \in At(t, Subrule) : ~(Len(t) + 1 < i)
    BY <2>2
  <2>. QED
    BY <1>1, <2>1, <2>3 DEF Members
<1>. QED
  BY <1>2, <1>3

\* A subrule joins the group of the last header and no other.
LEMMA MembersOfLast ==
    ASSUME NEW t \in Seq(Line), NEW l \in Line, l.directive \in Subrule,
           NEW j \in At(t, Header), \A h \in At(t, Header) : h <= j
    PROVE  /\ Members(Append(t, l), j) = Members(t, j) \cup {Len(t) + 1}
           /\ \A h \in At(t, Header) \ {j} : Members(Append(t, l), h) = Members(t, h)
<1>1. At(Append(t, l), Subrule) = At(t, Subrule) \cup {Len(t) + 1}
  BY AtWith
<1>2. l.directive \notin Header
  BY DEF Header, SourceHeader, DestinationHeader, Subrule
<1>3. At(Append(t, l), Header) = At(t, Header)
  BY <1>2, AtWithout
<1>4. \A h \in At(t, Header) : h \in Nat /\ h < Len(t) + 1
  BY AtBounds, AppendedLines
<1>5. Members(Append(t, l), j) = Members(t, j) \cup {Len(t) + 1}
  BY <1>1, <1>3, <1>4 DEF Members
<1>6. ASSUME NEW h \in At(t, Header) \ {j}
      PROVE  Members(Append(t, l), h) = Members(t, h)
  <2>1. ~(j <= h)
    BY <1>4
  <2>. QED
    BY <1>1, <1>3, <1>4, <2>1 DEF Members
<1>. QED
  BY <1>5, <1>6

\* A header begins a group with no members.
LEMMA MembersOfNew ==
    ASSUME NEW t \in Seq(Line), NEW l \in Line, l.directive \in Header
    PROVE  Members(Append(t, l), Len(t) + 1) = {}
<1>1. l.directive \notin Subrule
  BY DEF Header, SourceHeader, DestinationHeader, Subrule
<1>2. At(Append(t, l), Subrule) = At(t, Subrule)
  BY <1>1, AtWithout
<1>3. \A i \in At(t, Subrule) : i \in Nat /\ i <= Len(t)
  BY AtBounds
<1>. QED
  BY <1>2, <1>3, AppendedLines DEF Members

------------------------------------------------------------------------------
(* Rules that copy a text: each rule a header, in order, and each of its       *)
(* subrules a member of the group, in order.                                 *)

SubruleOf(l) == [path |-> l.argument, policy |-> PolicyOf(l)]

GroupCopied(t, j, sps) ==
    \E g : /\ Enumerates(g, Len(sps), Members(t, j))
           /\ \A k \in 1 .. Len(sps) : sps[k] = SubruleOf(t[g[k]])

RuleCopied(t, j, rule) ==
    /\ rule.executable = t[j].argument
    /\ rule.default_policy = PolicyOf(t[j])
    /\ GroupCopied(t, j, rule.second_parties)

Copied(t, H, rules) ==
    \E f : /\ Enumerates(f, Len(rules), At(t, H))
           /\ \A k \in 1 .. Len(rules) : RuleCopied(t, f[k], rules[k])

LEMMA RuleKept ==
    ASSUME NEW t \in Seq(Line), NEW l \in Line, NEW j \in 1 .. Len(t), NEW rule,
           Members(Append(t, l), j) = Members(t, j), RuleCopied(t, j, rule)
    PROVE  RuleCopied(Append(t, l), j, rule)
<1> DEFINE sps == rule.second_parties
<1>1. \A i \in 1 .. Len(t) : Append(t, l)[i] = t[i]
  BY AppendedLines
<1>2. PICK g : /\ Enumerates(g, Len(sps), Members(t, j))
               /\ \A k \in 1 .. Len(sps) : sps[k] = SubruleOf(t[g[k]])
  BY DEF RuleCopied, GroupCopied
<1>3. \A k \in 1 .. Len(sps) : g[k] \in 1 .. Len(t)
  BY <1>2, MembersBounds DEF Enumerates
<1>4. \A k \in 1 .. Len(sps) : sps[k] = SubruleOf(Append(t, l)[g[k]])
  BY <1>1, <1>2, <1>3
<1>5. GroupCopied(Append(t, l), j, sps)
  BY <1>2, <1>4 DEF GroupCopied
<1>. QED
  BY <1>1, <1>5 DEF RuleCopied

LEMMA CopyKept ==
    ASSUME NEW t \in Seq(Line), NEW l \in Line, NEW H, NEW rules,
           l.directive \notin H, Copied(t, H, rules),
           \A j \in At(t, H) : Members(Append(t, l), j) = Members(t, j)
    PROVE  Copied(Append(t, l), H, rules)
<1>1. PICK f : /\ Enumerates(f, Len(rules), At(t, H))
               /\ \A k \in 1 .. Len(rules) : RuleCopied(t, f[k], rules[k])
  BY DEF Copied
<1>2. \A k \in 1 .. Len(rules) : f[k] \in At(t, H) /\ f[k] \in 1 .. Len(t)
  BY <1>1, AtBounds DEF Enumerates
<1>3. \A k \in 1 .. Len(rules) : RuleCopied(Append(t, l), f[k], rules[k])
  BY <1>1, <1>2, RuleKept
<1>. QED
  BY <1>1, <1>3, AtWithout DEF Copied

NewRule(l) == [executable |-> l.argument, default_policy |-> PolicyOf(l),
               second_parties |-> <<>>]

LEMMA CopyHeader ==
    ASSUME NEW t \in Seq(Line), NEW l \in Line, NEW H \in SUBSET Header,
           NEW rules \in Seq(FirewallRule),
           l.directive \in H, Copied(t, H, rules)
    PROVE  Copied(Append(t, l), H, Append(rules, NewRule(l)))
<1> DEFINE u == Append(t, l)
           more == Append(rules, NewRule(l))
           n == Len(rules)
<1>1. PICK f : /\ Enumerates(f, n, At(t, H))
               /\ \A k \in 1 .. n : RuleCopied(t, f[k], rules[k])
  BY DEF Copied
<1> DEFINE h == Extension(f, n, Len(t) + 1)
<1>2. n \in Nat /\ Len(more) = n + 1 /\ more[n + 1] = NewRule(l)
      /\ \A k \in 1 .. n : more[k] = rules[k]
  OBVIOUS
<1>3. Enumerates(h, Len(more), At(u, H))
  <2>1. At(u, H) = At(t, H) \cup {Len(t) + 1}
    BY AtWith
  <2>2. \A i \in At(t, H) : i < Len(t) + 1
    BY AtBounds, AppendedLines
  <2>3. Len(t) + 1 \in Nat
    BY AppendedLines
  <2>. QED
    BY <1>1, <1>2, <2>1, <2>2, <2>3, AtBounds, EnumerateOneMore
<1>4. l.directive \in Header /\ l.directive \notin Subrule
  BY DEF Header, SourceHeader, DestinationHeader, Subrule
<1>5. ASSUME NEW k \in 1 .. n PROVE RuleCopied(u, h[k], more[k])
  <2>1. h[k] = f[k] /\ more[k] = rules[k]
    BY <1>2 DEF Extension
  <2>2. f[k] \in 1 .. Len(t)
    BY <1>1, AtBounds DEF Enumerates
  <2>3. Members(u, f[k]) = Members(t, f[k])
    BY <1>4, <2>2, MembersWithout
  <2>. QED
    BY <1>1, <2>1, <2>2, <2>3, RuleKept
<1>6. RuleCopied(u, h[n + 1], more[n + 1])
  <2>1. h[n + 1] = Len(t) + 1
    BY <1>2 DEF Extension
  <2>2. u[Len(t) + 1] = l
    BY AppendedLines
  <2>3. Members(u, Len(t) + 1) = {}
    BY <1>4, MembersOfNew
  <2>4. GroupCopied(u, Len(t) + 1, <<>>)
    <3>1. Enumerates(<<>>, Len(<<>>), Members(u, Len(t) + 1))
      BY <2>3, EnumerateNothing
    <3>. QED
      BY <3>1 DEF GroupCopied
  <2>. QED
    BY <1>2, <2>1, <2>2, <2>4 DEF RuleCopied, NewRule
<1>7. \A k \in 1 .. Len(more) : k \in 1 .. n \/ k = n + 1
  BY <1>2
<1>8. \A k \in 1 .. Len(more) : RuleCopied(u, h[k], more[k])
  BY <1>5, <1>6, <1>7
<1>. QED
  BY <1>3, <1>8 DEF Copied

\* last_rule->add_second_party, on the last rule of the vector.
Extended(rules, l) ==
    [rules EXCEPT ![Len(rules)].second_parties = Append(@, SubruleOf(l))]

LEMMA CopySubrule ==
    ASSUME NEW t \in Seq(Line), NEW l \in Line, NEW H \in SUBSET Header,
           NEW rules \in Seq(FirewallRule), l.directive \in Subrule,
           NEW j \in At(t, H), \A h \in At(t, Header) : h <= j,
           Copied(t, H, rules)
    PROVE  /\ Len(rules) \in DOMAIN rules
           /\ Copied(Append(t, l), H, Extended(rules, l))
<1> DEFINE u == Append(t, l)
           n == Len(rules)
           sps == rules[n].second_parties
           more == Extended(rules, l)
<1>1. PICK f : /\ Enumerates(f, n, At(t, H))
               /\ \A k \in 1 .. n : RuleCopied(t, f[k], rules[k])
  BY DEF Copied
<1>2. At(t, H) \subseteq At(t, Header)
  BY DEF At
<1>3. n \in 1 .. n /\ f[n] = j
  <2>1. n \in Nat
    OBVIOUS
  <2>2. \A h \in At(t, H) : h <= j
    BY <1>2
  <2>. QED
    BY <1>1, <2>1, <2>2, AtBounds, EnumerationLast
<1>4. sps \in Seq(SecondParty)
  <2>1. rules[n] \in FirewallRule
    BY <1>3
  <2>. QED
    BY <2>1 DEF FirewallRule
<1>5. /\ Len(more) = n
      /\ \A k \in 1 .. n \ {n} : more[k] = rules[k]
      /\ more[n].executable = rules[n].executable
      /\ more[n].default_policy = rules[n].default_policy
      /\ more[n].second_parties = Append(sps, SubruleOf(l))
  <2>1. DOMAIN rules = 1 .. n /\ \A k \in 1 .. n : rules[k] \in FirewallRule
    OBVIOUS
  <2>. QED
    BY <1>3, <2>1 DEF Extended, FirewallRule
<1>6. Enumerates(f, Len(more), At(u, H))
  <2>1. l.directive \notin H
    BY DEF Header, SourceHeader, DestinationHeader, Subrule
  <2>. QED
    BY <1>1, <1>5, <2>1, AtWithout
<1>7. /\ Members(u, j) = Members(t, j) \cup {Len(t) + 1}
      /\ \A h \in At(t, Header) \ {j} : Members(u, h) = Members(t, h)
  BY <1>2, MembersOfLast
<1>8. ASSUME NEW k \in 1 .. n \ {n} PROVE RuleCopied(u, f[k], more[k])
  <2>1. f[k] \in At(t, H) /\ f[k] \in 1 .. Len(t)
    BY <1>1, AtBounds DEF Enumerates
  <2>2. f[k] # j
    <3>1. k < n
      BY <1>3
    <3>2. f[k] < f[n]
      BY <1>1, <1>3, <3>1 DEF Enumerates
    <3>3. f[k] \in Nat
      BY <2>1
    <3>. QED
      BY <1>3, <3>2, <3>3
  <2>3. Members(u, f[k]) = Members(t, f[k])
    BY <1>2, <1>7, <2>1, <2>2
  <2>. QED
    BY <1>1, <1>5, <2>1, <2>3, RuleKept
<1>9. RuleCopied(u, j, more[n])
  <2>1. RuleCopied(t, j, rules[n])
    BY <1>1, <1>3
  <2>2. j \in 1 .. Len(t) /\ u[j] = t[j]
    BY <1>2, AtBounds, AppendedLines
  <2>3. PICK g : /\ Enumerates(g, Len(sps), Members(t, j))
                 /\ \A k \in 1 .. Len(sps) : sps[k] = SubruleOf(t[g[k]])
    BY <2>1 DEF RuleCopied, GroupCopied
  <2> DEFINE more_sps == Append(sps, SubruleOf(l))
             h == Extension(g, Len(sps), Len(t) + 1)
  <2>4. /\ Len(sps) \in Nat /\ Len(more_sps) = Len(sps) + 1
        /\ more_sps[Len(sps) + 1] = SubruleOf(l)
        /\ \A k \in 1 .. Len(sps) : more_sps[k] = sps[k]
    BY <1>4
  <2>5. Enumerates(h, Len(more_sps), Members(u, j))
    <3>1. \A i \in Members(t, j) : i < Len(t) + 1
      BY MembersBounds, AppendedLines
    <3>2. Len(t) + 1 \in Nat
      BY AppendedLines
    <3>. QED
      BY <1>7, <2>3, <2>4, <3>1, <3>2, MembersBounds, EnumerateOneMore
  <2>6. ASSUME NEW k \in 1 .. Len(more_sps) PROVE more_sps[k] = SubruleOf(u[h[k]])
    <3>1. CASE k \in 1 .. Len(sps)
      <4>1. h[k] = g[k]
        BY <2>4, <3>1 DEF Extension
      <4>2. g[k] \in 1 .. Len(t)
        BY <2>3, <3>1, MembersBounds DEF Enumerates
      <4>3. u[g[k]] = t[g[k]]
        BY <4>2, AppendedLines
      <4>. QED
        BY <2>3, <2>4, <3>1, <4>1, <4>3
    <3>2. CASE k = Len(sps) + 1
      <4>1. h[k] = Len(t) + 1
        BY <2>4, <3>2 DEF Extension
      <4>. QED
        BY <2>4, <3>2, <4>1, AppendedLines
    <3>3. k \in 1 .. Len(sps) \/ k = Len(sps) + 1
      BY <2>4
    <3>. QED
      BY <3>1, <3>2, <3>3
  <2>7. GroupCopied(u, j, more_sps)
    BY <2>5, <2>6 DEF GroupCopied
  <2>. QED
    BY <1>5, <2>1, <2>2, <2>7 DEF RuleCopied
<1>10. \A k \in 1 .. Len(more) : RuleCopied(u, f[k], more[k])
  BY <1>3, <1>5, <1>8, <1>9
<1>11. Copied(u, H, more)
  BY <1>6, <1>10 DEF Copied
<1>12. DOMAIN rules = 1 .. n
  OBVIOUS
<1>. QED
  BY <1>3, <1>11, <1>12

------------------------------------------------------------------------------
(* What the copies decide.                                                  *)

\* The policy of the first member of group j that names q, else the group's own.
GroupSays(t, j, q) ==
    LET E == {i \in Members(t, j) : paths_are_equivalent(q, t[i].argument)}
    IN  IF E = {} THEN PolicyOf(t[j]) ELSE PolicyOf(t[Min(E)])

LEMMA RuleSays ==
    ASSUME NEW t \in Seq(Line), NEW j \in 1 .. Len(t), NEW rule \in FirewallRule, NEW q,
           RuleCopied(t, j, rule)
    PROVE  rule_check_permission(rule, q) = GroupSays(t, j, q)
<1> DEFINE sps == rule.second_parties
           n == Len(sps)
           I == {k \in 1 .. n : paths_are_equivalent(q, sps[k].path)}
           E == {i \in Members(t, j) : paths_are_equivalent(q, t[i].argument)}
<1>1. PICK g : /\ Enumerates(g, n, Members(t, j))
               /\ \A k \in 1 .. n : sps[k] = SubruleOf(t[g[k]])
  BY DEF RuleCopied, GroupCopied
<1>2. n \in Nat
  BY DEF FirewallRule
<1>3. \A k \in 1 .. n : g[k] \in Members(t, j)
  BY <1>1 DEF Enumerates
<1>4. \A k \in 1 .. n : /\ sps[k].path = t[g[k]].argument
                       /\ sps[k].policy = PolicyOf(t[g[k]])
  <2>1. \A l : SubruleOf(l).path = l.argument /\ SubruleOf(l).policy = PolicyOf(l)
    BY DEF SubruleOf
  <2>. QED
    BY <1>1, <2>1
<1>5. Picks(I, g, n, E)
  BY <1>3, <1>4 DEF Picks
<1>6. Members(t, j) \subseteq Nat
  BY MembersBounds
<1>7. E \subseteq Members(t, j)
  OBVIOUS
<1>8. /\ I = {} <=> E = {}
      /\ E # {} => Min(I) \in I /\ g[Min(I)] = Min(E)
  <2> HIDE DEF I, E, n
  <2>. QED
    BY <1>1, <1>2, <1>5, <1>6, <1>7, EnumerationMin
<1>9. CASE I = {}
  <2>1. rule_check_permission(rule, q) = rule.default_policy
    BY <1>9 DEF rule_check_permission, SelectInSeq
  <2>2. GroupSays(t, j, q) = PolicyOf(t[j])
    BY <1>8, <1>9 DEF GroupSays
  <2>. QED
    BY <2>1, <2>2 DEF RuleCopied
<1>10. CASE I # {}
  <2>1. Min(I) \in 1 .. n /\ g[Min(I)] = Min(E) /\ E # {}
    BY <1>8, <1>10
  <2>2. Min(I) # 0
    BY <2>1
  <2>3. rule_check_permission(rule, q) = sps[Min(I)].policy
    BY <1>10, <2>2 DEF rule_check_permission, SelectInSeq
  <2>4. GroupSays(t, j, q) = PolicyOf(t[Min(E)])
    BY <2>1 DEF GroupSays
  <2>. QED
    BY <1>4, <2>1, <2>3, <2>4
<1>. QED
  BY <1>9, <1>10

\* The groups headed by a directive in H that are about p.
About(t, H, p) == {j \in At(t, H) : paths_are_equivalent(p, t[j].argument)}

LEMMA FirstRule ==
    ASSUME NEW t \in Seq(Line), NEW H, NEW rules \in Seq(FirewallRule), NEW p,
           Copied(t, H, rules)
    PROVE  \/ About(t, H, p) = {} /\ first_rule(rules, p) = 0
           \/ /\ About(t, H, p) # {}
              /\ first_rule(rules, p) \in 1 .. Len(rules)
              /\ first_rule(rules, p) # 0
              /\ Min(About(t, H, p)) \in 1 .. Len(t)
              /\ RuleCopied(t, Min(About(t, H, p)), rules[first_rule(rules, p)])
<1> DEFINE n == Len(rules)
           I == {k \in 1 .. n : paths_are_equivalent(p, rules[k].executable)}
           G == About(t, H, p)
<1>1. PICK f : /\ Enumerates(f, n, At(t, H))
               /\ \A k \in 1 .. n : RuleCopied(t, f[k], rules[k])
  BY DEF Copied
<1>2. \A k \in 1 .. n : f[k] \in At(t, H) /\ rules[k].executable = t[f[k]].argument
  BY <1>1 DEF Enumerates, RuleCopied
<1>3. Picks(I, f, n, G)
  BY <1>2 DEF About, Picks
<1>4. G \subseteq At(t, H) /\ At(t, H) \subseteq Nat /\ n \in Nat
  BY AtBounds DEF About
<1>5. /\ I = {} <=> G = {}
      /\ G # {} => Min(I) \in I /\ f[Min(I)] = Min(G)
  <2> HIDE DEF I, G, n
  <2>. QED
    BY <1>1, <1>3, <1>4, EnumerationMin
<1>6. first_rule(rules, p) = IF I # {} THEN Min(I) ELSE 0
  BY DEF first_rule, SelectInSeq
<1>7. ASSUME G # {}
      PROVE  /\ Min(I) \in 1 .. n
             /\ Min(I) # 0
             /\ Min(G) \in 1 .. Len(t)
             /\ RuleCopied(t, Min(G), rules[Min(I)])
  <2>1. Min(I) \in 1 .. n /\ f[Min(I)] = Min(G)
    BY <1>5, <1>7
  <2>2. Min(I) # 0
    BY <2>1
  <2>3. Min(G) \in 1 .. Len(t)
    BY <1>2, <2>1, AtBounds
  <2>. QED
    BY <1>1, <2>1, <2>2, <2>3
<1>. QED
  BY <1>5, <1>6, <1>7

\* A vector that copies a text decides what the groups of the text say.
LEMMA VectorSays ==
    ASSUME NEW t \in Seq(Line), NEW H, NEW rules \in Seq(FirewallRule), NEW p, NEW q,
           Copied(t, H, rules)
    PROVE  check_permission(rules, p, q) =
               IF About(t, H, p) = {} THEN "None"
               ELSE GroupSays(t, Min(About(t, H, p)), q)
<1> DEFINE i == first_rule(rules, p)
           j == Min(About(t, H, p))
<1>1. CASE About(t, H, p) = {}
  <2>1. i = 0
    BY <1>1, FirstRule
  <2>. QED
    BY <1>1, <2>1 DEF check_permission
<1>2. CASE About(t, H, p) # {}
  <2>1. i \in 1 .. Len(rules) /\ i # 0 /\ j \in 1 .. Len(t) /\ RuleCopied(t, j, rules[i])
    BY <1>2, FirstRule
  <2>2. rules[i] \in FirewallRule
    BY <2>1
  <2>3. rule_check_permission(rules[i], q) = GroupSays(t, j, q)
    BY <2>1, <2>2, RuleSays
  <2>. QED
    BY <1>2, <2>1, <2>3 DEF check_permission
<1>. QED
  BY <1>1, <1>2

------------------------------------------------------------------------------
(* The steps of the parser.                                                 *)

LEMMA ReadLineCases ==
    ASSUME NEW l \in Line, ReadLine(l)
    PROVE  /\ status = "reading"
           /\ lines' = Append(lines, l)
           /\ \/ l.directive = "blank" /\ BlankLine
              \/ l.directive = "other" /\ Reject
              \/ l.directive = "policy" /\ PolicyLine(l)
              \/ l.directive = "allow" /\ AllowLine(l)
              \/ l.directive = "deny" /\ DenyLine(l)
              \/ l.directive \in Header /\ HeaderLine(l)
<1>1. CASE l.directive = "blank"
  BY <1>1 DEF ReadLine
<1>2. CASE l.directive = "other"
  BY <1>2 DEF ReadLine
<1>3. CASE l.directive = "policy"
  BY <1>3 DEF ReadLine
<1>4. CASE l.directive = "allow"
  BY <1>4 DEF ReadLine
<1>5. CASE l.directive = "deny"
  BY <1>5 DEF ReadLine
<1>6. CASE l.directive \in Header
  BY <1>6 DEF ReadLine, Header, SourceHeader, DestinationHeader
<1>. QED
  BY <1>1, <1>2, <1>3, <1>4, <1>5, <1>6, LineParts DEF Subrule

\* What a line does: it is rejected, or it changes the rules as its directive
\* says, or the process is gone.
LEMMA Outcomes ==
    ASSUME NEW l \in Line, ReadLine(l)
    PROVE  \/ Reject
           \/ NullDereference
           \/ l.directive = "blank" /\ BlankLine
           \/ l.directive = "policy" /\ PolicyLine(l)
           \/ l.directive \in Header /\ ~l.indented /\ HeaderLine(l)
           \/ l.directive \in Subrule /\ l.indented /\ last_rule # <<>> /\ AddSecondParty(l)
<1>1. CASE l.directive = "allow" /\ AllowLine(l)
  BY <1>1 DEF AllowLine, Subrule
<1>2. CASE l.directive = "deny" /\ DenyLine(l)
  BY <1>2 DEF DenyLine, Subrule
<1>3. CASE l.directive \in Header /\ HeaderLine(l)
  BY <1>3 DEF HeaderLine
<1>. QED
  BY <1>1, <1>2, <1>3, ReadLineCases

LEMMA HeaderOutcome ==
    ASSUME NEW l \in Line, ~l.indented, l.directive \in Header, HeaderLine(l)
    PROVE  /\ UNCHANGED <<status, default_policy>>
           /\ \/ /\ l.directive \in SourceHeader
                 /\ src_rules' = Append(src_rules, NewRule(l))
                 /\ last_rule' = <<"source", Len(src_rules) + 1>>
                 /\ dst_rules' = dst_rules
              \/ /\ l.directive \in DestinationHeader
                 /\ l.directive \notin SourceHeader
                 /\ dst_rules' = Append(dst_rules, NewRule(l))
                 /\ last_rule' = <<"destination", Len(dst_rules) + 1>>
                 /\ src_rules' = src_rules
<1>1. CASE l.directive \in SourceHeader
  BY <1>1 DEF HeaderLine, NewRule
<1>2. CASE l.directive \notin SourceHeader
  BY <1>2 DEF HeaderLine, NewRule, Header
<1>. QED
  BY <1>1, <1>2

LEMMA NewParts ==
    ASSUME NEW l \in Line
    PROVE  /\ l.directive \in Header => NewRule(l) \in FirewallRule
           /\ l.directive \in Subrule => SubruleOf(l) \in SecondParty
<1>1. PolicyOf(l) \in {"Allow", "Deny"}
  BY DEF PolicyOf
<1>2. ASSUME l.directive \in Header \cup Subrule PROVE l.argument \in Path \cup {EmptyPath}
  BY <1>2, LineParts, TextAssumption
<1>. QED
  BY <1>1, <1>2 DEF NewRule, SubruleOf, FirewallRule, SecondParty

\* The rule of a vector that a line adds a subrule to keeps the vector's type.
LEMMA RuleExtended ==
    ASSUME NEW rules \in Seq(FirewallRule), NEW n \in DOMAIN rules, NEW sp \in SecondParty
    PROVE  /\ [rules EXCEPT ![n].second_parties = Append(@, sp)] \in Seq(FirewallRule)
           /\ DOMAIN [rules EXCEPT ![n].second_parties = Append(@, sp)] = DOMAIN rules
<1>1. rules[n] \in FirewallRule
  OBVIOUS
<1>2. [rules[n] EXCEPT !.second_parties = Append(@, sp)] \in FirewallRule
  <2> DEFINE more == Append(rules[n].second_parties, sp)
  <2>1. rules[n].second_parties \in Seq(SecondParty)
    BY <1>1 DEF FirewallRule
  <2>2. more \in Seq(SecondParty)
    BY <2>1
  <2> HIDE DEF more
  <2>3. [rules[n] EXCEPT !.second_parties = more] \in FirewallRule
    BY <1>1, <2>2 DEF FirewallRule
  <2>. QED
    BY <2>3 DEF more
<1>. QED
  BY <1>2

------------------------------------------------------------------------------
(* Type correctness.                                                        *)

LEMMA TypeParts ==
    TypeOK <=>
        /\ lines \in Seq(Line)
        /\ status \in {"reading", "parsed", "rejected", "undefined"}
        /\ src_rules \in Seq(FirewallRule)
        /\ dst_rules \in Seq(FirewallRule)
        /\ default_policy \in {"Allow", "Deny"}
        /\ last_rule \in {<<>>} \cup ({"source"} \X DOMAIN src_rules)
                                \cup ({"destination"} \X DOMAIN dst_rules)
BY DEF TypeOK, config, FirewallConfiguration

LEMMA InitType ==
    ASSUME Init
    PROVE  TypeOK
BY TypeParts DEF Init

LEMMA NextType ==
    ASSUME TypeOK, [Next]_vars
    PROVE  TypeOK'
<1> DEFINE Pointers(s, d) == {<<>>} \cup ({"source"} \X DOMAIN s)
                                    \cup ({"destination"} \X DOMAIN d)
<1>0. /\ lines \in Seq(Line)
      /\ status \in {"reading", "parsed", "rejected", "undefined"}
      /\ src_rules \in Seq(FirewallRule)
      /\ dst_rules \in Seq(FirewallRule)
      /\ default_policy \in {"Allow", "Deny"}
      /\ last_rule \in Pointers(src_rules, dst_rules)
  BY TypeParts
<1>1. SUFFICES /\ lines' \in Seq(Line)
               /\ status' \in {"reading", "parsed", "rejected", "undefined"}
               /\ src_rules' \in Seq(FirewallRule)
               /\ dst_rules' \in Seq(FirewallRule)
               /\ default_policy' \in {"Allow", "Deny"}
               /\ last_rule' \in Pointers(src_rules', dst_rules')
  BY DEF TypeOK, config, FirewallConfiguration
<1>2. CASE UNCHANGED vars
  BY <1>0, <1>2 DEF vars
<1>3. CASE EndOfText
  BY <1>0, <1>3 DEF EndOfText
<1>4. ASSUME NEW l \in Line, ReadLine(l)
      PROVE  /\ lines' \in Seq(Line)
             /\ status' \in {"reading", "parsed", "rejected", "undefined"}
             /\ src_rules' \in Seq(FirewallRule)
             /\ dst_rules' \in Seq(FirewallRule)
             /\ default_policy' \in {"Allow", "Deny"}
             /\ last_rule' \in Pointers(src_rules', dst_rules')
  <2>1. lines' \in Seq(Line)
    <3>1. lines' = Append(lines, l)
      BY <1>4, ReadLineCases
    <3>. QED
      BY <1>0, <3>1
  <2>2. CASE Reject \/ NullDereference \/ BlankLine
    BY <1>0, <2>1, <2>2 DEF Reject, NullDereference, BlankLine
  <2>3. CASE l.directive = "policy" /\ PolicyLine(l)
    BY <1>0, <2>1, <2>3, LineParts DEF PolicyLine
  <2>4. CASE l.directive \in Header /\ ~l.indented /\ HeaderLine(l)
    <3>1. NewRule(l) \in FirewallRule
      BY <2>4, NewParts
    <3>2. /\ Append(src_rules, NewRule(l)) \in Seq(FirewallRule)
          /\ DOMAIN src_rules \subseteq DOMAIN Append(src_rules, NewRule(l))
          /\ Len(src_rules) + 1 \in DOMAIN Append(src_rules, NewRule(l))
      BY <1>0, <3>1
    <3>3. /\ Append(dst_rules, NewRule(l)) \in Seq(FirewallRule)
          /\ DOMAIN dst_rules \subseteq DOMAIN Append(dst_rules, NewRule(l))
          /\ Len(dst_rules) + 1 \in DOMAIN Append(dst_rules, NewRule(l))
      BY <1>0, <3>1
    <3>4. UNCHANGED <<status, default_policy>>
      BY <2>4 DEF HeaderLine
    <3>5. CASE /\ src_rules' = Append(src_rules, NewRule(l))
               /\ last_rule' = <<"source", Len(src_rules) + 1>>
               /\ dst_rules' = dst_rules
      BY <1>0, <2>1, <3>2, <3>4, <3>5
    <3>6. CASE /\ dst_rules' = Append(dst_rules, NewRule(l))
               /\ last_rule' = <<"destination", Len(dst_rules) + 1>>
               /\ src_rules' = src_rules
      BY <1>0, <2>1, <3>3, <3>4, <3>6
    <3>. QED
      BY <2>4, <3>5, <3>6, HeaderOutcome
  <2>5. CASE l.directive \in Subrule /\ last_rule # <<>> /\ AddSecondParty(l)
    <3>1. SubruleOf(l) \in SecondParty
      BY <2>5, NewParts
    <3>2. /\ UNCHANGED <<status, default_policy, last_rule>>
          /\ \/ /\ last_rule[1] = "source"
                /\ src_rules' = [src_rules EXCEPT ![last_rule[2]].second_parties =
                                    Append(@, SubruleOf(l))]
                /\ dst_rules' = dst_rules
             \/ /\ last_rule[1] = "destination"
                /\ dst_rules' = [dst_rules EXCEPT ![last_rule[2]].second_parties =
                                    Append(@, SubruleOf(l))]
                /\ src_rules' = src_rules
      BY <2>5 DEF AddSecondParty, SubruleOf
    <3>3. CASE last_rule[1] = "source" /\ dst_rules' = dst_rules
               /\ src_rules' = [src_rules EXCEPT ![last_rule[2]].second_parties =
                                   Append(@, SubruleOf(l))]
      <4>1. last_rule[2] \in DOMAIN src_rules
        BY <1>0, <2>5, <3>3
      <4>2. src_rules' \in Seq(FirewallRule) /\ DOMAIN src_rules' = DOMAIN src_rules
        BY <1>0, <3>1, <3>3, <4>1, RuleExtended
      <4>. QED
        BY <1>0, <2>1, <3>2, <3>3, <4>2
    <3>4. CASE last_rule[1] = "destination" /\ src_rules' = src_rules
               /\ dst_rules' = [dst_rules EXCEPT ![last_rule[2]].second_parties =
                                   Append(@, SubruleOf(l))]
      <4>1. last_rule[2] \in DOMAIN dst_rules
        BY <1>0, <2>5, <3>4
      <4>2. dst_rules' \in Seq(FirewallRule) /\ DOMAIN dst_rules' = DOMAIN dst_rules
        BY <1>0, <3>1, <3>4, <4>1, RuleExtended
      <4>. QED
        BY <1>0, <2>1, <3>2, <3>4, <4>2
    <3>. QED
      BY <3>2, <3>3, <3>4
  <2>. QED
    BY <1>4, <2>2, <2>3, <2>4, <2>5, Outcomes
<1>. QED
  BY <1>2, <1>3, <1>4 DEF Next

\* The state of the parser is well formed in every reachable state, whatever
\* the text and however long: last_rule, in particular, never points outside the
\* vectors of rules (the locals of parse_config_string).
THEOREM TypeCorrect == Spec => []TypeOK
<1>1. Init => TypeOK
  BY InitType
<1>2. TypeOK /\ [Next]_vars => TypeOK'
  BY NextType
<1>. QED
  BY <1>1, <1>2, PTL DEF Spec

------------------------------------------------------------------------------
(* The inductive invariant: what the parser has is what the text says so far.  *)

GrammarOf(t) ==
    /\ At(t, {"other"}) = {}
    /\ \A i \in At(t, Header) : ~t[i].indented
    /\ \A i \in At(t, Subrule) : t[i].indented /\ \E j \in At(t, Header) : j < i

DefaultOf(t, policy) ==
    \/ At(t, {"policy"}) = {} /\ policy = "Allow"
    \/ \E j \in At(t, {"policy"}) : /\ \A i \in At(t, {"policy"}) : i <= j
                                    /\ policy = t[j].argument

\* last_rule points to the rule of the last header.
LastOf(t, s, d, last) ==
    \/ At(t, Header) = {} /\ last = <<>>
    \/ \E j \in At(t, Header) :
        /\ \A h \in At(t, Header) : h <= j
        /\ \/ j \in At(t, SourceHeader) /\ last = <<"source", Len(s)>>
           \/ j \in At(t, DestinationHeader) /\ last = <<"destination", Len(d)>>

Means(t, s, d, last, policy) ==
    /\ GrammarOf(t)
    /\ DefaultOf(t, policy)
    /\ LastOf(t, s, d, last)
    /\ Copied(t, SourceHeader, s)
    /\ Copied(t, DestinationHeader, d)

TextInv ==
    status \in {"reading", "parsed"} =>
        Means(lines, src_rules, dst_rules, last_rule, default_policy)

LEMMA GrammarNeutral ==
    ASSUME NEW t \in Seq(Line), NEW l \in Line, l.directive \in {"blank", "policy"},
           GrammarOf(t)
    PROVE  GrammarOf(Append(t, l))
<1>1. l.directive \notin Header \cup Subrule \cup {"other"}
  BY DEF Header, SourceHeader, DestinationHeader, Subrule
<1>2. /\ At(Append(t, l), Header) = At(t, Header)
      /\ At(Append(t, l), Subrule) = At(t, Subrule)
      /\ At(Append(t, l), {"other"}) = At(t, {"other"})
  BY <1>1, AtWithout
<1>3. \A D : \A i \in At(t, D) : Append(t, l)[i] = t[i]
  BY AppendedLines DEF At
<1>. QED
  BY <1>2, <1>3 DEF GrammarOf

LEMMA GrammarHeader ==
    ASSUME NEW t \in Seq(Line), NEW l \in Line, l.directive \in Header, ~l.indented,
           GrammarOf(t)
    PROVE  GrammarOf(Append(t, l))
<1>1. l.directive \notin Subrule \cup {"other"}
  BY DEF Header, SourceHeader, DestinationHeader, Subrule
<1>2. /\ At(Append(t, l), Header) = At(t, Header) \cup {Len(t) + 1}
      /\ At(Append(t, l), Subrule) = At(t, Subrule)
      /\ At(Append(t, l), {"other"}) = At(t, {"other"})
  BY <1>1, AtWithout, AtWith
<1>3. \A D : \A i \in At(t, D) : Append(t, l)[i] = t[i]
  BY AppendedLines DEF At
<1>4. Append(t, l)[Len(t) + 1] = l
  BY AppendedLines
<1>. QED
  BY <1>2, <1>3, <1>4 DEF GrammarOf

LEMMA GrammarSubrule ==
    ASSUME NEW t \in Seq(Line), NEW l \in Line, l.directive \in Subrule, l.indented,
           At(t, Header) # {}, GrammarOf(t)
    PROVE  GrammarOf(Append(t, l))
<1>1. l.directive \notin Header \cup {"other"}
  BY DEF Header, SourceHeader, DestinationHeader, Subrule
<1>2. /\ At(Append(t, l), Header) = At(t, Header)
      /\ At(Append(t, l), Subrule) = At(t, Subrule) \cup {Len(t) + 1}
      /\ At(Append(t, l), {"other"}) = At(t, {"other"})
  BY <1>1, AtWithout, AtWith
<1>3. \A D : \A i \in At(t, D) : Append(t, l)[i] = t[i]
  BY AppendedLines DEF At
<1>4. Append(t, l)[Len(t) + 1] = l
  BY AppendedLines
<1>5. \E j \in At(t, Header) : j < Len(t) + 1
  BY AtBounds, AppendedLines
<1>. QED
  BY <1>2, <1>3, <1>4, <1>5 DEF GrammarOf

LEMMA DefaultKept ==
    ASSUME NEW t \in Seq(Line), NEW l \in Line, l.directive # "policy", NEW policy,
           DefaultOf(t, policy)
    PROVE  DefaultOf(Append(t, l), policy)
<1>1. At(Append(t, l), {"policy"}) = At(t, {"policy"})
  BY AtWithout
<1>2. \A i \in At(t, {"policy"}) : Append(t, l)[i] = t[i]
  BY AppendedLines DEF At
<1>. QED
  BY <1>1, <1>2 DEF DefaultOf

LEMMA DefaultSet ==
    ASSUME NEW t \in Seq(Line), NEW l \in Line, l.directive = "policy"
    PROVE  DefaultOf(Append(t, l), l.argument)
<1>1. At(Append(t, l), {"policy"}) = At(t, {"policy"}) \cup {Len(t) + 1}
  BY AtWith
<1>2. \A i \in At(t, {"policy"}) : i <= Len(t) + 1
  BY AtBounds, AppendedLines
<1>. QED
  BY <1>1, <1>2, AppendedLines DEF DefaultOf

LEMMA LastKept ==
    ASSUME NEW t \in Seq(Line), NEW l \in Line, l.directive \notin Header, NEW last,
           NEW s, NEW d, NEW ss, NEW dd, Len(ss) = Len(s), Len(dd) = Len(d),
           LastOf(t, s, d, last)
    PROVE  LastOf(Append(t, l), ss, dd, last)
<1>1. /\ At(Append(t, l), Header) = At(t, Header)
      /\ At(Append(t, l), SourceHeader) = At(t, SourceHeader)
      /\ At(Append(t, l), DestinationHeader) = At(t, DestinationHeader)
  BY AtWithout DEF Header
<1>. QED
  BY <1>1 DEF LastOf

LEMMA LastSet ==
    ASSUME NEW t \in Seq(Line), NEW l \in Line, NEW s, NEW d, NEW last,
           \/ l.directive \in SourceHeader /\ last = <<"source", Len(s)>>
           \/ l.directive \in DestinationHeader /\ last = <<"destination", Len(d)>>
    PROVE  LastOf(Append(t, l), s, d, last)
<1> DEFINE j == Len(t) + 1
<1>1. At(Append(t, l), Header) = At(t, Header) \cup {j}
  BY AtWith DEF Header
<1>2. \A h \in At(t, Header) \cup {j} : h <= j
  BY AtBounds, AppendedLines
<1>3. \/ j \in At(Append(t, l), SourceHeader) /\ last = <<"source", Len(s)>>
      \/ j \in At(Append(t, l), DestinationHeader) /\ last = <<"destination", Len(d)>>
  BY AtWith
<1>4. j \in At(Append(t, l), Header)
  BY <1>1
<1> HIDE DEF j
<1>. QED
  BY <1>1, <1>2, <1>3, <1>4 DEF LastOf

LEMMA Disjointness ==
    /\ SourceHeader \cap DestinationHeader = {}
    /\ SourceHeader \subseteq Header /\ DestinationHeader \subseteq Header
    /\ Header \cap (Subrule \cup {"policy", "blank", "other"}) = {}
    /\ Subrule \cap {"policy", "blank", "other"} = {}
BY DEF Header, SourceHeader, DestinationHeader, Subrule

LEMMA MeansNeutral ==
    ASSUME NEW t \in Seq(Line), NEW l \in Line, l.directive \in {"blank", "policy"},
           NEW s, NEW d, NEW last, NEW policy, NEW new,
           Means(t, s, d, last, policy),
           new = IF l.directive = "policy" THEN l.argument ELSE policy
    PROVE  Means(Append(t, l), s, d, last, new)
<1>1. /\ l.directive \notin Header /\ l.directive \notin Subrule
      /\ l.directive \notin SourceHeader /\ l.directive \notin DestinationHeader
  BY Disjointness
<1>2. GrammarOf(Append(t, l))
  BY GrammarNeutral DEF Means
<1>3. DefaultOf(Append(t, l), new)
  BY DefaultKept, DefaultSet DEF Means
<1>4. LastOf(Append(t, l), s, d, last)
  BY <1>1, LastKept DEF Means
<1>5. ASSUME NEW H, NEW rules, Copied(t, H, rules), l.directive \notin H
      PROVE  Copied(Append(t, l), H, rules)
  <2>1. \A j \in At(t, H) : Members(Append(t, l), j) = Members(t, j)
    BY <1>1, AtBounds, MembersWithout
  <2>. QED
    BY <1>5, <2>1, CopyKept
<1>. QED
  BY <1>1, <1>2, <1>3, <1>4, <1>5 DEF Means

\* A header of one kind adds a rule to its vector and leaves the other.
LEMMA MeansHeader ==
    ASSUME NEW t \in Seq(Line), NEW l \in Line, l.directive \in Header, ~l.indented,
           NEW s \in Seq(FirewallRule), NEW d \in Seq(FirewallRule), NEW last, NEW policy,
           Means(t, s, d, last, policy)
    PROVE  /\ l.directive \in SourceHeader =>
                Means(Append(t, l), Append(s, NewRule(l)), d,
                      <<"source", Len(s) + 1>>, policy)
           /\ l.directive \in DestinationHeader =>
                Means(Append(t, l), s, Append(d, NewRule(l)),
                      <<"destination", Len(d) + 1>>, policy)
<1>1. l.directive \notin Subrule /\ l.directive # "policy"
  BY Disjointness
<1>2. GrammarOf(Append(t, l))
  BY GrammarHeader DEF Means
<1>3. DefaultOf(Append(t, l), policy)
  BY <1>1, DefaultKept DEF Means
<1>4. Len(Append(s, NewRule(l))) = Len(s) + 1 /\ Len(Append(d, NewRule(l))) = Len(d) + 1
  OBVIOUS
<1>5. ASSUME NEW H, NEW rules, Copied(t, H, rules), l.directive \notin H
      PROVE  Copied(Append(t, l), H, rules)
  <2>1. \A j \in At(t, H) : Members(Append(t, l), j) = Members(t, j)
    BY <1>1, AtBounds, MembersWithout
  <2>. QED
    BY <1>5, <2>1, CopyKept
<1>6. ASSUME l.directive \in SourceHeader
      PROVE  Means(Append(t, l), Append(s, NewRule(l)), d, <<"source", Len(s) + 1>>, policy)
  <2>1. Copied(Append(t, l), SourceHeader, Append(s, NewRule(l)))
    BY <1>6, Disjointness, CopyHeader DEF Means
  <2>2. Copied(Append(t, l), DestinationHeader, d)
    BY <1>5, <1>6, Disjointness DEF Means
  <2>3. LastOf(Append(t, l), Append(s, NewRule(l)), d, <<"source", Len(s) + 1>>)
    BY <1>4, <1>6, LastSet
  <2>. QED
    BY <1>2, <1>3, <2>1, <2>2, <2>3 DEF Means
<1>7. ASSUME l.directive \in DestinationHeader
      PROVE  Means(Append(t, l), s, Append(d, NewRule(l)),
                   <<"destination", Len(d) + 1>>, policy)
  <2>1. Copied(Append(t, l), DestinationHeader, Append(d, NewRule(l)))
    BY <1>7, Disjointness, CopyHeader DEF Means
  <2>2. Copied(Append(t, l), SourceHeader, s)
    BY <1>5, <1>7, Disjointness DEF Means
  <2>3. LastOf(Append(t, l), s, Append(d, NewRule(l)), <<"destination", Len(d) + 1>>)
    BY <1>4, <1>7, LastSet
  <2>. QED
    BY <1>2, <1>3, <2>1, <2>2, <2>3 DEF Means
<1>. QED
  BY <1>6, <1>7

\* A subrule after some header: last_rule points to the last rule of its kind,
\* and the subrule goes there.
LEMMA MeansSubrule ==
    ASSUME NEW t \in Seq(Line), NEW l \in Line, l.directive \in Subrule, l.indented,
           NEW s \in Seq(FirewallRule), NEW d \in Seq(FirewallRule), NEW last, NEW policy,
           Means(t, s, d, last, policy), last # <<>>
    PROVE  \/ /\ last = <<"source", Len(s)>>
              /\ Len(s) \in DOMAIN s
              /\ Means(Append(t, l), Extended(s, l), d, last, policy)
           \/ /\ last = <<"destination", Len(d)>>
              /\ Len(d) \in DOMAIN d
              /\ Means(Append(t, l), s, Extended(d, l), last, policy)
<1>1. /\ l.directive \notin Header /\ l.directive # "policy"
      /\ l.directive \notin SourceHeader /\ l.directive \notin DestinationHeader
  BY Disjointness
<1>2. PICK j \in At(t, Header) :
        /\ \A h \in At(t, Header) : h <= j
        /\ \/ j \in At(t, SourceHeader) /\ last = <<"source", Len(s)>>
           \/ j \in At(t, DestinationHeader) /\ last = <<"destination", Len(d)>>
  BY DEF Means, LastOf
<1>3. GrammarOf(Append(t, l))
  BY <1>2, GrammarSubrule DEF Means
<1>4. DefaultOf(Append(t, l), policy)
  BY <1>1, DefaultKept DEF Means
<1>5. \A r \in Seq(FirewallRule) : Len(Extended(r, l)) = Len(r)
  BY DEF Extended
<1>6. At(t, SourceHeader) \cap At(t, DestinationHeader) = {}
      /\ At(t, SourceHeader) \subseteq At(t, Header)
      /\ At(t, DestinationHeader) \subseteq At(t, Header)
  BY Disjointness DEF At
<1>7. ASSUME NEW H \in SUBSET Header, NEW rules, Copied(t, H, rules), j \notin At(t, H),
             l.directive \notin H
      PROVE  Copied(Append(t, l), H, rules)
  <2>1. At(t, H) \subseteq At(t, Header)
    BY DEF At
  <2>2. \A h \in At(t, H) : Members(Append(t, l), h) = Members(t, h)
    BY <1>2, <1>7, <2>1, MembersOfLast
  <2>. QED
    BY <1>7, <2>2, CopyKept
<1>8. CASE j \in At(t, SourceHeader) /\ last = <<"source", Len(s)>>
  <2>1. Len(s) \in DOMAIN s /\ Copied(Append(t, l), SourceHeader, Extended(s, l))
    BY <1>2, <1>8, Disjointness, CopySubrule DEF Means
  <2>2. Copied(Append(t, l), DestinationHeader, d)
    BY <1>1, <1>6, <1>7, <1>8, Disjointness DEF Means
  <2>3. LastOf(Append(t, l), Extended(s, l), d, last)
    BY <1>1, <1>5, LastKept DEF Means
  <2>. QED
    BY <1>3, <1>4, <1>8, <2>1, <2>2, <2>3 DEF Means
<1>9. CASE j \in At(t, DestinationHeader) /\ last = <<"destination", Len(d)>>
  <2>1. Len(d) \in DOMAIN d /\ Copied(Append(t, l), DestinationHeader, Extended(d, l))
    BY <1>2, <1>9, Disjointness, CopySubrule DEF Means
  <2>2. Copied(Append(t, l), SourceHeader, s)
    BY <1>1, <1>6, <1>7, <1>9, Disjointness DEF Means
  <2>3. LastOf(Append(t, l), s, Extended(d, l), last)
    BY <1>1, <1>5, LastKept DEF Means
  <2>. QED
    BY <1>3, <1>4, <1>9, <2>1, <2>2, <2>3 DEF Means
<1>. QED
  BY <1>2, <1>8, <1>9

LEMMA InitText ==
    ASSUME Init
    PROVE  TextInv
<1>1. lines = <<>> /\ src_rules = <<>> /\ dst_rules = <<>> /\ last_rule = <<>>
      /\ default_policy = "Allow"
  BY DEF Init
<1>2. \A D : At(<<>>, D) = {}
  BY DEF At
<1>3. \A H : Copied(<<>>, H, <<>>)
  <2> TAKE H
  <2>1. Enumerates(<<>>, Len(<<>>), At(<<>>, H))
    BY <1>2, EnumerateNothing
  <2>. QED
    BY <2>1 DEF Copied
<1>4. GrammarOf(<<>>) /\ DefaultOf(<<>>, "Allow") /\ LastOf(<<>>, <<>>, <<>>, <<>>)
  BY <1>2 DEF GrammarOf, DefaultOf, LastOf
<1>. QED
  BY <1>1, <1>3, <1>4 DEF TextInv, Means

LEMMA NextText ==
    ASSUME TypeOK, TextInv, [Next]_vars
    PROVE  TextInv'
<1>0. /\ lines \in Seq(Line)
      /\ src_rules \in Seq(FirewallRule)
      /\ dst_rules \in Seq(FirewallRule)
  BY TypeParts
<1>1. CASE UNCHANGED vars
  BY <1>1 DEF TextInv, vars
<1>2. CASE EndOfText
  BY <1>2 DEF TextInv, EndOfText
<1>3. ASSUME NEW l \in Line, ReadLine(l)
      PROVE  TextInv'
  <2>1. lines' = Append(lines, l) /\ status = "reading"
    BY <1>3, ReadLineCases
  <2>2. Means(lines, src_rules, dst_rules, last_rule, default_policy)
    BY <2>1 DEF TextInv
  <2>3. CASE Reject \/ NullDereference
    BY <2>3 DEF Reject, NullDereference, TextInv
  <2>4. SUFFICES ASSUME ~Reject, ~NullDereference
                 PROVE  Means(Append(lines, l), src_rules', dst_rules', last_rule',
                              default_policy')
    BY <2>1, <2>3 DEF TextInv
  <2>5. CASE l.directive = "blank" /\ BlankLine
    <3>1. UNCHANGED <<default_policy, src_rules, dst_rules, last_rule>>
      BY <2>5 DEF BlankLine
    <3>2. l.directive \in {"blank", "policy"} /\ l.directive # "policy"
      BY <2>5
    <3>. QED
      BY <1>0, <2>2, <3>1, <3>2, MeansNeutral
  <2>6. CASE l.directive = "policy" /\ PolicyLine(l)
    <3>1. UNCHANGED <<src_rules, dst_rules, last_rule>> /\ default_policy' = l.argument
      BY <2>6 DEF PolicyLine
    <3>2. l.directive \in {"blank", "policy"}
      BY <2>6
    <3>. QED
      BY <1>0, <2>2, <2>6, <3>1, <3>2, MeansNeutral
  <2>7. CASE l.directive \in Header /\ ~l.indented /\ HeaderLine(l)
    <3>1. CASE /\ l.directive \in SourceHeader
               /\ src_rules' = Append(src_rules, NewRule(l))
               /\ last_rule' = <<"source", Len(src_rules) + 1>>
               /\ dst_rules' = dst_rules
               /\ default_policy' = default_policy
      BY <1>0, <2>2, <2>7, <3>1, MeansHeader
    <3>2. CASE /\ l.directive \in DestinationHeader
               /\ dst_rules' = Append(dst_rules, NewRule(l))
               /\ last_rule' = <<"destination", Len(dst_rules) + 1>>
               /\ src_rules' = src_rules
               /\ default_policy' = default_policy
      BY <1>0, <2>2, <2>7, <3>2, MeansHeader
    <3>. QED
      BY <2>7, <3>1, <3>2, HeaderOutcome
  <2>8. CASE l.directive \in Subrule /\ l.indented /\ last_rule # <<>> /\ AddSecondParty(l)
    <3>1. UNCHANGED <<default_policy, last_rule>>
      BY <2>8 DEF AddSecondParty
    <3>2. CASE last_rule[1] = "source" /\ dst_rules' = dst_rules
               /\ src_rules' = [src_rules EXCEPT ![last_rule[2]].second_parties =
                                   Append(@, SubruleOf(l))]
      <4>1. /\ last_rule = <<"source", Len(src_rules)>>
            /\ Means(Append(lines, l), Extended(src_rules, l), dst_rules, last_rule,
                     default_policy)
        BY <1>0, <2>2, <2>8, <3>2, MeansSubrule
      <4>2. src_rules' = Extended(src_rules, l)
        BY <3>2, <4>1 DEF Extended
      <4>. QED
        BY <3>1, <3>2, <4>1, <4>2
    <3>3. CASE last_rule[1] = "destination" /\ src_rules' = src_rules
               /\ dst_rules' = [dst_rules EXCEPT ![last_rule[2]].second_parties =
                                   Append(@, SubruleOf(l))]
      <4>1. /\ last_rule = <<"destination", Len(dst_rules)>>
            /\ Means(Append(lines, l), src_rules, Extended(dst_rules, l), last_rule,
                     default_policy)
        BY <1>0, <2>2, <2>8, <3>3, MeansSubrule
      <4>2. dst_rules' = Extended(dst_rules, l)
        BY <3>3, <4>1 DEF Extended
      <4>. QED
        BY <3>1, <3>3, <4>1, <4>2
    <3>. QED
      BY <2>8, <3>2, <3>3 DEF AddSecondParty, SubruleOf
  <2>. QED
    BY <1>3, <2>4, <2>5, <2>6, <2>7, <2>8, Outcomes
<1>. QED
  BY <1>1, <1>2, <1>3 DEF Next

\* A line at which the parser stops after the text t.
Misplaced(t, l) ==
    \/ l.directive = "other"
    \/ l.directive \in Header /\ l.indented
    \/ l.directive \in Subrule /\ (~l.indented \/ At(t, Header) = {})

\* A text that the parser stopped in is one it was reading, and that line.
StoppedInv ==
    status \in {"rejected", "undefined"} =>
        \E t \in Seq(Line), l \in Line :
            lines = Append(t, l) /\ GrammarOf(t) /\ Misplaced(t, l)

LEMMA StopsAtMisplaced ==
    ASSUME NEW l \in Line, ReadLine(l), status' # "reading",
           NEW t, NEW s, NEW d, LastOf(t, s, d, last_rule)
    PROVE  Misplaced(t, l)
<1>1. last_rule = <<>> => At(t, Header) = {}
  BY DEF LastOf
<1>2. status = "reading"
  BY ReadLineCases
<1>3. CASE l.directive \in Subrule
  BY <1>1, <1>2, <1>3, ReadLineCases, Disjointness
     DEF AllowLine, DenyLine, AddSecondParty, Misplaced
<1>4. CASE l.directive \in Header /\ HeaderLine(l)
  BY <1>2, <1>4, HeaderOutcome DEF Misplaced
<1>5. CASE (l.directive = "blank" /\ BlankLine) \/ (l.directive = "policy" /\ PolicyLine(l))
  BY <1>2, <1>5 DEF BlankLine, PolicyLine
<1>6. CASE l.directive = "other"
  BY <1>6 DEF Misplaced
<1>. QED
  BY <1>3, <1>4, <1>5, <1>6, ReadLineCases DEF Subrule

LEMMA NextStopped ==
    ASSUME TypeOK, TextInv, StoppedInv, [Next]_vars
    PROVE  StoppedInv'
<1>1. CASE UNCHANGED vars
  BY <1>1 DEF StoppedInv, vars
<1>2. CASE EndOfText
  BY <1>2 DEF StoppedInv, EndOfText
<1>3. ASSUME NEW l \in Line, ReadLine(l), status' \in {"rejected", "undefined"}
      PROVE  \E t \in Seq(Line), k \in Line :
                 lines' = Append(t, k) /\ GrammarOf(t) /\ Misplaced(t, k)
  <2>1. lines \in Seq(Line) /\ lines' = Append(lines, l) /\ status = "reading"
    BY <1>3, ReadLineCases, TypeParts
  <2>2. GrammarOf(lines) /\ LastOf(lines, src_rules, dst_rules, last_rule)
    BY <2>1 DEF TextInv, Means
  <2>3. Misplaced(lines, l)
    BY <1>3, <2>2, StopsAtMisplaced
  <2>. QED
    BY <2>1, <2>2, <2>3
<1>. QED
  BY <1>1, <1>2, <1>3 DEF Next, StoppedInv

LEMMA Invariance == Spec => [](TypeOK /\ TextInv)
<1>1. Init => TypeOK /\ TextInv
  BY InitType, InitText
<1>2. TypeOK /\ TextInv /\ [Next]_vars => (TypeOK /\ TextInv)'
  BY NextType, NextText
<1>. QED
  BY <1>1, <1>2, PTL DEF Spec

\* The parser stops at the first line that is not well placed and at no other: an
\* unknown directive, an indented main directive, a subrule that is not indented
\* or has no main directive above it (the throws of parse_config_string, and the
\* null last_rule).  A policy or a directive without a path never stops it.
THEOREM AcceptedTextsCorrect == Spec => []OnlyWellPlacedTextsAreParsed
<1>1. Init => StoppedInv
  BY DEF Init, StoppedInv
<1>2. TypeOK /\ TextInv /\ StoppedInv /\ [Next]_vars => StoppedInv'
  BY NextStopped
<1>3. ASSUME TypeOK, TextInv, status \in {"reading", "parsed"}, NEW i \in DOMAIN lines
      PROVE  WellPlaced(i)
  BY <1>3 DEF TextInv, Means, GrammarOf, At, Positions, WellPlaced
<1>4. ASSUME TypeOK, StoppedInv, status \in {"rejected", "undefined"},
             NEW i \in DOMAIN lines
      PROVE  WellPlaced(i) <=> i # Len(lines)
  <2>1. PICK t \in Seq(Line), l \in Line :
            lines = Append(t, l) /\ GrammarOf(t) /\ Misplaced(t, l)
    BY <1>4 DEF StoppedInv
  <2>2. /\ Len(lines) = Len(t) + 1
        /\ lines[Len(t) + 1] = l
        /\ i \in DOMAIN t \/ i = Len(t) + 1
        /\ \A k \in DOMAIN t : lines[k] = t[k] /\ k \in Nat /\ k < Len(t) + 1
    BY <2>1, AppendedLines
  <2>3. At(t, Header) = {j \in Positions(Header) : j < Len(t) + 1}
    <3>1. DOMAIN lines = DOMAIN t \cup {Len(t) + 1} /\ Len(t) \in Nat
      BY <2>1, AppendedLines
    <3>. QED
      BY <2>2, <3>1 DEF At, Positions
  <2>4. CASE i \in DOMAIN t
    <3>1. i # Len(lines) /\ lines[i] = t[i]
      BY <2>2, <2>4
    <3>2. /\ t[i].directive # "other"
          /\ t[i].directive \in Header => ~t[i].indented
          /\ t[i].directive \in Subrule =>
                t[i].indented /\ \E j \in At(t, Header) : j < i
      BY <2>1, <2>4 DEF GrammarOf, At
    <3>. QED
      BY <2>3, <3>1, <3>2 DEF WellPlaced
  <2>5. CASE i = Len(t) + 1
    <3>1. ~WellPlaced(i)
      BY <2>1, <2>2, <2>3, <2>5 DEF Misplaced, WellPlaced
    <3>. QED
      BY <2>2, <2>5, <3>1
  <2>. QED
    BY <2>2, <2>4, <2>5
<1>5. TypeOK /\ TextInv /\ StoppedInv => OnlyWellPlacedTextsAreParsed
  BY <1>3, <1>4 DEF OnlyWellPlacedTextsAreParsed
<1>. QED
  BY <1>1, <1>2, <1>5, Invariance, PTL DEF Spec

------------------------------------------------------------------------------
(* The decision is the one that the text expresses.                          *)

\* The nearest header above i is j exactly when none stands between them.
LEMMA NearestHeader ==
    ASSUME lines \in Seq(Line), NEW i \in Positions(Subrule), NEW j \in Positions(Header),
           j < i
    PROVE  GroupOf(i) = j <=> \A h \in Positions(Header) : h < i => h <= j
<1> DEFINE S == {h \in Positions(Header) : h < i}
<1>1. S \subseteq 1 .. Len(lines) /\ S \subseteq Nat /\ Len(lines) \in Nat
  BY AtBounds DEF At, Positions
<1>2. j \in S
  OBVIOUS
<1>3. PICK m \in S : \A h \in S : h <= m
  BY <1>1, <1>2, GreatestExists, Zenon
<1>4. Max(S) = m
  BY <1>1, <1>3, MaxIs
<1>5. GroupOf(i) = m
  BY <1>4 DEF GroupOf
<1>6. (\A h \in S : h <= j) <=> m = j
  BY <1>1, <1>2, <1>3
<1>7. (\A h \in S : h <= j) <=> \A h \in Positions(Header) : h < i => h <= j
  OBVIOUS
<1>. QED
  BY <1>5, <1>6, <1>7

\* Both readings of a group name the same subrules.
LEMMA SameExceptions ==
    ASSUME lines \in Seq(Line), NEW j \in Positions(Header), NEW q
    PROVE  Exceptions(j, q) =
               {i \in Members(lines, j) : paths_are_equivalent(q, lines[i].argument)}
<1>1. \A D : Positions(D) = At(lines, D)
  BY DEF Positions, At
<1>2. ASSUME NEW i \in Positions(Subrule), j < i
      PROVE  GroupOf(i) = j <=> \A h \in At(lines, Header) : h < i => h <= j
  BY <1>1, <1>2, NearestHeader
<1>. QED
  BY <1>1, <1>2 DEF Exceptions, Members

LEMMA TextSaysGroups ==
    ASSUME lines \in Seq(Line), NEW H \in SUBSET Header, NEW p, NEW q
    PROVE  TextSays(H, p, q) = IF About(lines, H, p) = {} THEN "None"
                               ELSE GroupSays(lines, Min(About(lines, H, p)), q)
<1> DEFINE G == About(lines, H, p)
           E == Exceptions(Min(G), q)
<1>1. G = {j \in Positions(H) : paths_are_equivalent(p, lines[j].argument)}
  BY DEF About, Positions, At
<1>2. CASE G = {}
  BY <1>1, <1>2 DEF TextSays
<1>3. CASE G # {}
  <2>1. G \subseteq Nat
    BY AtBounds DEF About
  <2>2. Min(G) \in G
    BY <1>3, <2>1, MinOfNat
  <2>3. Min(G) \in Positions(Header)
    BY <1>1, <2>2 DEF Positions
  <2>4. E = {i \in Members(lines, Min(G)) : paths_are_equivalent(q, lines[i].argument)}
    BY <2>3, SameExceptions
  <2>5. GroupSays(lines, Min(G), q) = IF E = {} THEN PolicyOf(lines[Min(G)])
                                      ELSE PolicyOf(lines[Min(E)])
    BY <2>4 DEF GroupSays
  <2>6. TextSays(H, p, q) = IF E = {} THEN PolicyOf(lines[Min(G)])
                            ELSE PolicyOf(lines[Min(E)])
    <3> HIDE DEF G, E
    <3>1. CASE E = {}
      BY <1>1, <1>3, <3>1 DEF TextSays, E
    <3>2. CASE E # {}
      BY <1>1, <1>3, <3>2 DEF TextSays, E
    <3>. QED
      BY <3>1, <3>2
  <2>. QED
    BY <1>3, <2>5, <2>6
<1>. QED
  BY <1>2, <1>3

\* The opinion of a vector of rules is that of the text.
LEMMA SameOpinion ==
    ASSUME lines \in Seq(Line), NEW H \in SUBSET Header, NEW rules \in Seq(FirewallRule),
           Copied(lines, H, rules), NEW p, NEW q
    PROVE  /\ check_permission(rules, p, q) = TextSays(H, p, q)
           /\ TextSays(H, p, q) \in FirewallPolicy
<1>1. check_permission(rules, p, q) = TextSays(H, p, q)
  <2> DEFINE says == IF About(lines, H, p) = {} THEN "None"
                     ELSE GroupSays(lines, Min(About(lines, H, p)), q)
  <2>1. check_permission(rules, p, q) = says
    BY VectorSays
  <2>2. TextSays(H, p, q) = says
    BY TextSaysGroups
  <2>. QED
    BY <2>1, <2>2
<1>2. TextSays(H, p, q) \in FirewallPolicy
  BY TextSaysGroups DEF GroupSays, PolicyOf, FirewallPolicy
<1>. QED
  BY <1>1, <1>2

LEMMA SameDefault ==
    ASSUME lines \in Seq(Line), DefaultOf(lines, default_policy)
    PROVE  default_policy = TextDefault
<1>1. Positions({"policy"}) = At(lines, {"policy"})
  BY DEF Positions, At
<1>2. CASE At(lines, {"policy"}) = {}
  BY <1>1, <1>2 DEF DefaultOf, TextDefault
<1>3. CASE At(lines, {"policy"}) # {}
  <2>1. PICK j \in At(lines, {"policy"}) : /\ \A i \in At(lines, {"policy"}) : i <= j
                                           /\ default_policy = lines[j].argument
    BY <1>3 DEF DefaultOf
  <2>2. Max(At(lines, {"policy"})) = j
    BY <2>1, AtBounds, MaxIs
  <2>. QED
    BY <1>1, <1>3, <2>1, <2>2 DEF TextDefault
<1>. QED
  BY <1>2, <1>3

\* For every accepted text, of any length, and any two executables, the decision
\* taken over the parsed rules is the one the text expresses: subrules are in the
\* group they were written under, the first matching group and subrule win,
\* denial prevails, and the default policy comes last.
THEOREM VerdictsCorrect == Spec => []VerdictMatchesText
<1>1. ASSUME TypeOK, TextInv, status = "parsed", NEW s \in Path, NEW d \in Path, s # d
      PROVE  Verdict(s, d) = TextVerdict(s, d)
  <2> DEFINE a == TextSays(SourceHeader, s, d)
             b == TextSays(DestinationHeader, d, s)
  <2>1. /\ lines \in Seq(Line)
        /\ src_rules \in Seq(FirewallRule)
        /\ dst_rules \in Seq(FirewallRule)
    BY <1>1, TypeParts
  <2>2. /\ DefaultOf(lines, default_policy)
        /\ Copied(lines, SourceHeader, src_rules)
        /\ Copied(lines, DestinationHeader, dst_rules)
    BY <1>1 DEF TextInv, Means
  <2>3. a \in FirewallPolicy /\ check_permission_source(config, s, d) = a
    BY <2>1, <2>2, Disjointness, SameOpinion DEF check_permission_source, config
  <2>4. b \in FirewallPolicy /\ check_permission_destination(config, s, d) = b
    BY <2>1, <2>2, Disjointness, SameOpinion DEF check_permission_destination, config
  <2>5. config.default_policy = TextDefault
    BY <2>1, <2>2, SameDefault DEF config
  <2>6. s # EmptyPath /\ d # EmptyPath
    BY PathAssumption
  <2>7. Verdict(s, d) = check_combined_permissions(config, s, d)
    BY <1>1, <2>6 DEF Verdict, run_permissions_logic
  <2>8. check_combined_permissions(config, s, d) =
            IF a = "Deny" THEN "Deny"
            ELSE IF max(a, b) = "None" THEN TextDefault ELSE max(a, b)
    BY <2>3, <2>4, <2>5 DEF check_combined_permissions
  <2>9. TextVerdict(s, d) = IF a = "Deny" \/ b = "Deny" THEN "Deny"
                            ELSE IF a = "Allow" \/ b = "Allow" THEN "Allow"
                            ELSE TextDefault
    <3> HIDE DEF a, b
    <3>1. TextVerdict(s, d) =
              CASE "Deny" \in {a, b}                        -> "Deny"
                [] "Deny" \notin {a, b} /\ "Allow" \in {a, b} -> "Allow"
                [] OTHER                                    -> TextDefault
      BY DEF TextVerdict, a, b
    <3>. QED
      BY <3>1
  <2> HIDE DEF a, b
  <2>10. max(a, b) = IF a = "Deny" \/ b = "Deny" THEN "Deny"
                     ELSE IF a = "Allow" \/ b = "Allow" THEN "Allow" ELSE "None"
    BY <2>3, <2>4 DEF max, Rank, FirewallPolicy
  <2>. QED
    BY <2>7, <2>8, <2>9, <2>10
<1>2. TypeOK /\ TextInv => VerdictMatchesText
  BY <1>1 DEF VerdictMatchesText
<1>. QED
  BY <1>2, Invariance, PTL

\* With no known writer, for every accepted text: a paste is denied exactly when
\* the first destination group about the reader is a deny group.
THEOREM UnknownSourcesCorrect == Spec => []UnknownSourceMatchesText
<1>1. ASSUME TypeOK, TextInv, status = "parsed", NEW d \in Path
      PROVE  LET G == {j \in Positions(DestinationHeader) :
                          paths_are_equivalent(d, lines[j].argument)}
             IN  (Verdict(EmptyPath, d) = "Deny") <=>
                     (G # {} /\ lines[Min(G)].directive = "destination-deny")
  <2> DEFINE G == About(lines, DestinationHeader, d)
             i == first_rule(dst_rules, d)
  <2>1. /\ lines \in Seq(Line)
        /\ dst_rules \in Seq(FirewallRule)
        /\ Copied(lines, DestinationHeader, dst_rules)
    BY <1>1, TypeParts DEF TextInv, Means
  <2>2. G = {j \in Positions(DestinationHeader) :
                paths_are_equivalent(d, lines[j].argument)}
    BY DEF About, Positions, At
  <2>3. (Verdict(EmptyPath, d) = "Deny") <=>
            (check_permission_unknown_source(config, d) = "Deny")
    <3>1. d # EmptyPath
      BY PathAssumption
    <3>. QED
      BY <3>1 DEF Verdict, run_permissions_logic, on_previously_unknown_state
  <2>4. check_permission_unknown_source(config, d) =
            IF i = 0 THEN "None" ELSE dst_rules[i].default_policy
    BY DEF check_permission_unknown_source, config
  <2>5. CASE G = {}
    <3>1. i = 0
      BY <2>1, <2>5, FirstRule
    <3>. QED
      BY <2>2, <2>3, <2>4, <2>5, <3>1
  <2>6. CASE G # {}
    <3>1. i # 0 /\ dst_rules[i].default_policy = PolicyOf(lines[Min(G)])
      BY <2>1, <2>6, FirstRule DEF RuleCopied
    <3>2. Min(G) \in At(lines, DestinationHeader)
      <4>1. G \subseteq Nat /\ G \subseteq At(lines, DestinationHeader)
        BY <2>1, AtBounds DEF About
      <4>. QED
        BY <2>6, <4>1, MinOfNat
    <3>3. lines[Min(G)].directive \in DestinationHeader
      BY <3>2 DEF At
    <3>4. (PolicyOf(lines[Min(G)]) = "Deny") <=>
              (lines[Min(G)].directive = "destination-deny")
      BY <3>3 DEF PolicyOf, AllowDirective, DestinationHeader
    <3>. QED
      BY <2>2, <2>3, <2>4, <2>6, <3>1, <3>4
  <2>. QED
    BY <2>5, <2>6
<1>2. TypeOK /\ TextInv => UnknownSourceMatchesText
  BY <1>1 DEF UnknownSourceMatchesText
<1>. QED
  BY <1>2, Invariance, PTL

------------------------------------------------------------------------------
(* One more line.                                                           *)

\* A rule with no subrules, added at the end, only speaks for a party about
\* which nothing was said, and then as its directive does.
LEMMA OpinionWithOneMore ==
    ASSUME NEW rules \in Seq(FirewallRule), NEW l \in Line, NEW p, NEW q
    PROVE  \/ check_permission(Append(rules, NewRule(l)), p, q) = check_permission(rules, p, q)
           \/ /\ check_permission(rules, p, q) = "None"
              /\ check_permission(Append(rules, NewRule(l)), p, q) = PolicyOf(l)
<1> DEFINE more == Append(rules, NewRule(l))
           n == Len(rules)
           I == {k \in 1 .. n : paths_are_equivalent(p, rules[k].executable)}
           J == {k \in 1 .. Len(more) : paths_are_equivalent(p, more[k].executable)}
<1>1. /\ n \in Nat /\ Len(more) = n + 1 /\ more[n + 1] = NewRule(l)
      /\ \A k \in 1 .. n : more[k] = rules[k]
  OBVIOUS
<1>2. first_rule(rules, p) = IF I # {} THEN Min(I) ELSE 0
  BY DEF first_rule, SelectInSeq
<1>3. first_rule(more, p) = IF J # {} THEN Min(J) ELSE 0
  BY DEF first_rule, SelectInSeq
<1>4. I = J \cap 1 .. n /\ J \subseteq 1 .. n + 1 /\ I \subseteq Nat /\ J \subseteq Nat
  BY <1>1
<1> HIDE DEF I, J, more, n
<1>8. \A k \in J : k \in I \/ k = n + 1
  <2>1. \A k \in 1 .. n + 1 : k \in 1 .. n \/ k = n + 1
    BY <1>1
  <2>. QED
    BY <1>4, <2>1
<1>5. CASE I # {}
  <2>1. Min(I) \in I /\ \A k \in I : Min(I) <= k
    BY <1>4, <1>5, MinOfNat
  <2>0. Min(I) \in 1 .. n
    BY <1>4, <2>1
  <2>2. Min(I) \in J /\ \A k \in J : Min(I) <= k
    <3>1. Min(I) <= n + 1
      BY <1>1, <2>0
    <3>. QED
      BY <1>4, <1>8, <2>1, <3>1
  <2>3. Min(J) = Min(I)
    BY <1>4, <2>2, MinIs
  <2>4. Min(I) \in 1 .. n /\ Min(I) # 0
    BY <1>4, <2>1
  <2>5. more[Min(I)] = rules[Min(I)]
    BY <1>1, <2>4
  <2>6. first_rule(more, p) = Min(I) /\ first_rule(rules, p) = Min(I)
    BY <1>2, <1>3, <1>5, <2>2, <2>3
  <2>7. check_permission(more, p, q) = check_permission(rules, p, q)
    BY <2>4, <2>5, <2>6 DEF check_permission
  <2>. QED
    BY <2>7 DEF more
<1>6. CASE I = {} /\ J # {}
  <2>1. J = {n + 1}
    BY <1>6, <1>8
  <2>2. Min(J) = n + 1
    <3>1. n + 1 \in J /\ \A k \in J : n + 1 <= k
      BY <1>1, <2>1
    <3>. QED
      BY <1>4, <3>1, MinIs
  <2>3. rule_check_permission(NewRule(l), q) = PolicyOf(l)
    BY DEF rule_check_permission, SelectInSeq, NewRule
  <2>4. first_rule(more, p) = n + 1 /\ n + 1 # 0
    BY <1>1, <1>3, <1>6, <2>2
  <2>5. check_permission(more, p, q) = PolicyOf(l)
    BY <1>1, <2>3, <2>4 DEF check_permission
  <2>6. check_permission(rules, p, q) = "None"
    BY <1>2, <1>6 DEF check_permission
  <2>. QED
    BY <2>5, <2>6 DEF more
<1>7. CASE I = {} /\ J = {}
  BY <1>2, <1>3, <1>7 DEF check_permission, more
<1>. QED
  BY <1>5, <1>6, <1>7

\* A subrule added at the end of a rule either changes nothing of what the rule
\* says of a party, or makes it say what the subrule says.
LEMMA RuleWithOneMore ==
    ASSUME NEW rule \in FirewallRule, NEW sp \in SecondParty, NEW more,
           more.second_parties = Append(rule.second_parties, sp),
           more.default_policy = rule.default_policy, NEW q
    PROVE  \/ rule_check_permission(more, q) = rule_check_permission(rule, q)
           \/ rule_check_permission(more, q) = sp.policy
<1> DEFINE sps == rule.second_parties
           many == Append(sps, sp)
           n == Len(sps)
           I == {k \in 1 .. n : paths_are_equivalent(q, sps[k].path)}
           J == {k \in 1 .. Len(many) : paths_are_equivalent(q, many[k].path)}
<1>1. /\ n \in Nat /\ Len(many) = n + 1 /\ many[n + 1] = sp
      /\ \A k \in 1 .. n : many[k] = sps[k]
  <2>1. sps \in Seq(SecondParty)
    BY DEF FirewallRule
  <2>. QED
    BY <2>1
<1>2. rule_check_permission(rule, q) =
          IF I = {} THEN rule.default_policy
          ELSE IF Min(I) = 0 THEN rule.default_policy ELSE sps[Min(I)].policy
  BY DEF rule_check_permission, SelectInSeq
<1>3. rule_check_permission(more, q) =
          IF J = {} THEN rule.default_policy
          ELSE IF Min(J) = 0 THEN rule.default_policy ELSE many[Min(J)].policy
  BY DEF rule_check_permission, SelectInSeq
<1>4. I = J \cap 1 .. n /\ J \subseteq 1 .. n + 1 /\ I \subseteq Nat /\ J \subseteq Nat
  BY <1>1
<1> HIDE DEF I, J, many, n
<1>5. \A k \in J : k \in I \/ k = n + 1
  <2>1. \A k \in 1 .. n + 1 : k \in 1 .. n \/ k = n + 1
    BY <1>1
  <2>. QED
    BY <1>4, <2>1
<1>6. CASE I # {}
  <2>1. Min(I) \in I /\ \A k \in I : Min(I) <= k
    BY <1>4, <1>6, MinOfNat
  <2>2. Min(I) \in 1 .. n
    BY <1>4, <2>1
  <2>3. Min(I) \in J /\ \A k \in J : Min(I) <= k
    <3>1. Min(I) <= n + 1
      BY <1>1, <2>2
    <3>. QED
      BY <1>4, <1>5, <2>1, <3>1
  <2>4. Min(J) = Min(I)
    BY <1>4, <2>3, MinIs
  <2>5. many[Min(I)] = sps[Min(I)]
    BY <1>1, <2>2
  <2>6. J # {}
    BY <2>3
  <2>. QED
    BY <1>2, <1>3, <1>6, <2>4, <2>5, <2>6
<1>7. CASE I = {} /\ J # {}
  <2>1. n + 1 \in J /\ \A k \in J : n + 1 <= k
    BY <1>1, <1>5, <1>7
  <2>2. Min(J) = n + 1
    BY <1>4, <2>1, MinIs
  <2>3. n + 1 # 0
    BY <1>1
  <2>. QED
    BY <1>1, <1>3, <1>7, <2>2, <2>3
<1>8. CASE I = {} /\ J = {}
  BY <1>2, <1>3, <1>8
<1>. QED
  BY <1>6, <1>7, <1>8

\* add_second_party on the n-th rule of the vector.
Longer(rules, n, sp) == [rules EXCEPT ![n].second_parties = Append(@, sp)]

LEMMA OpinionWithSubrule ==
    ASSUME NEW rules \in Seq(FirewallRule), NEW n \in DOMAIN rules,
           NEW sp \in SecondParty, NEW p, NEW q,
           NEW more, more = Longer(rules, n, sp)
    PROVE  \/ check_permission(more, p, q) = check_permission(rules, p, q)
           \/ check_permission(more, p, q) = sp.policy
<1> DEFINE i == first_rule(rules, p)
<1>1. /\ DOMAIN rules = 1 .. Len(rules) /\ Len(rules) \in Nat
      /\ \A k \in DOMAIN rules : rules[k] \in FirewallRule
  OBVIOUS
<1>2. /\ Len(more) = Len(rules)
      /\ \A k \in 1 .. Len(rules) : more[k].executable = rules[k].executable
      /\ \A k \in 1 .. Len(rules) \ {n} : more[k] = rules[k]
      /\ more[n].second_parties = Append(rules[n].second_parties, sp)
      /\ more[n].default_policy = rules[n].default_policy
  BY <1>1 DEF FirewallRule, Longer
<1>3. first_rule(more, p) = i
  <2> DEFINE I == {k \in 1 .. Len(rules) : paths_are_equivalent(p, rules[k].executable)}
             J == {k \in 1 .. Len(more) : paths_are_equivalent(p, more[k].executable)}
  <2>1. I = J
    BY <1>2
  <2>2. i = IF I # {} THEN Min(I) ELSE 0
    BY DEF first_rule, SelectInSeq
  <2>3. first_rule(more, p) = IF J # {} THEN Min(J) ELSE 0
    BY DEF first_rule, SelectInSeq
  <2> HIDE DEF I, J
  <2>. QED
    BY <2>1, <2>2, <2>3
<1>4. i = 0 \/ i \in 1 .. Len(rules)
  <2> DEFINE I == {k \in 1 .. Len(rules) : paths_are_equivalent(p, rules[k].executable)}
  <2>1. i = IF I # {} THEN Min(I) ELSE 0
    BY DEF first_rule, SelectInSeq
  <2>2. I \subseteq Nat /\ I \subseteq 1 .. Len(rules)
    OBVIOUS
  <2> HIDE DEF I
  <2>3. I # {} => Min(I) \in I
    BY <2>2, MinOfNat
  <2>. QED
    BY <2>1, <2>2, <2>3
<1> HIDE DEF i
<1>5. check_permission(rules, p, q) =
          IF i = 0 THEN "None" ELSE rule_check_permission(rules[i], q)
  BY DEF check_permission, i
<1>6. check_permission(more, p, q) =
          IF i = 0 THEN "None" ELSE rule_check_permission(more[i], q)
  BY <1>3 DEF check_permission
<1>7. CASE i = 0
  BY <1>5, <1>6, <1>7
<1>8. CASE i \in 1 .. Len(rules) \ {n}
  BY <1>2, <1>5, <1>6, <1>8
<1>9. CASE i = n
  <2>1. \/ rule_check_permission(more[n], q) = rule_check_permission(rules[n], q)
        \/ rule_check_permission(more[n], q) = sp.policy
    <3>1. rules[n] \in FirewallRule
      BY <1>1
    <3> DEFINE r == rules[n]
               m == more[n]
    <3>2. r \in FirewallRule /\ m.second_parties = Append(r.second_parties, sp)
          /\ m.default_policy = r.default_policy
      BY <1>2, <3>1
    <3> HIDE DEF r, m
    <3>3. \/ rule_check_permission(m, q) = rule_check_permission(r, q)
          \/ rule_check_permission(m, q) = sp.policy
      BY <3>2, RuleWithOneMore
    <3>. QED
      BY <3>3 DEF r, m
  <2>2. n # 0
    BY <1>1
  <2>. QED
    BY <1>5, <1>6, <1>9, <2>1, <2>2
<1>. QED
  BY <1>4, <1>7, <1>8, <1>9

Opposite(policy) == IF policy = "Allow" THEN "Deny" ELSE "Allow"

\* Combining is monotone: opinions that stay as they are or become g do not turn
\* the outcome to the opposite of g.
Combination(a, b, policy) ==
    IF a = "Deny" THEN "Deny"
    ELSE IF max(a, b) = "None" THEN policy ELSE max(a, b)

LEMMA CombinationMonotone ==
    ASSUME NEW g \in {"Allow", "Deny"}, NEW a, NEW b, NEW policy,
           NEW a2, NEW b2, a2 \in {a, g}, b2 \in {b, g},
           a \in FirewallPolicy, b \in FirewallPolicy,
           Combination(a2, b2, policy) = Opposite(g)
    PROVE  Combination(a, b, policy) = Opposite(g)
<1>1. \A x, y \in FirewallPolicy :
        max(x, y) = IF x = "Deny" \/ y = "Deny" THEN "Deny"
                    ELSE IF x = "Allow" \/ y = "Allow" THEN "Allow" ELSE "None"
  BY DEF max, Rank, FirewallPolicy
<1>2. a2 \in FirewallPolicy /\ b2 \in FirewallPolicy
  BY DEF FirewallPolicy
<1>. QED
  BY <1>1, <1>2 DEF Combination, Opposite, FirewallPolicy

LEMMA DirectionStep ==
    ASSUME TypeOK, TextInv, NEW l \in Line, l.directive \in Header \cup Subrule,
           ReadLine(l), NEW s \in Path, NEW d \in Path,
           Verdict(s, d)' = Opposite(PolicyOf(l))
    PROVE  Verdict(s, d) = Opposite(PolicyOf(l))
<1>1. Verdict(s, d) = IF s = d THEN "Allow"
                      ELSE Combination(check_permission(src_rules, s, d),
                                       check_permission(dst_rules, d, s), default_policy)
  BY PathAssumption DEF Verdict, run_permissions_logic, check_combined_permissions,
       Combination, check_permission_source, check_permission_destination, config
<1>2. Verdict(s, d)' = IF s = d THEN "Allow"
                       ELSE Combination(check_permission(src_rules', s, d),
                                        check_permission(dst_rules', d, s), default_policy')
  BY PathAssumption DEF Verdict, run_permissions_logic, check_combined_permissions,
       Combination, check_permission_source, check_permission_destination, config
<1>3. CASE UNCHANGED <<src_rules, dst_rules, default_policy>>
  BY <1>1, <1>2, <1>3
<1>4. ASSUME /\ check_permission(src_rules', s, d) \in
                     {check_permission(src_rules, s, d), PolicyOf(l)}
             /\ check_permission(dst_rules', d, s) \in
                     {check_permission(dst_rules, d, s), PolicyOf(l)}
             /\ default_policy' = default_policy
      PROVE  Verdict(s, d) = Opposite(PolicyOf(l))
  <2> DEFINE a == check_permission(src_rules, s, d)
             b == check_permission(dst_rules, d, s)
             a2 == check_permission(src_rules', s, d)
             b2 == check_permission(dst_rules', d, s)
             g == PolicyOf(l)
  <2>1. src_rules \in Seq(FirewallRule) /\ dst_rules \in Seq(FirewallRule)
        /\ lines \in Seq(Line)
    BY TypeParts
  <2>2. status = "reading"
    BY ReadLineCases
  <2>3. a \in FirewallPolicy /\ b \in FirewallPolicy
    <3>1. /\ Copied(lines, SourceHeader, src_rules)
          /\ Copied(lines, DestinationHeader, dst_rules)
      BY <2>2 DEF TextInv, Means
    <3>2. SourceHeader \in SUBSET Header /\ DestinationHeader \in SUBSET Header
      BY Disjointness
    <3>3. a = TextSays(SourceHeader, s, d) /\ TextSays(SourceHeader, s, d) \in FirewallPolicy
      BY <2>1, <3>1, <3>2, SameOpinion
    <3>4. b = TextSays(DestinationHeader, d, s)
          /\ TextSays(DestinationHeader, d, s) \in FirewallPolicy
      BY <2>1, <3>1, <3>2, SameOpinion
    <3>. QED
      BY <3>3, <3>4
  <2>4. g \in {"Allow", "Deny"}
    BY DEF PolicyOf
  <2>5. a2 \in {a, g} /\ b2 \in {b, g}
    BY <1>4
  <2>6. default_policy' = default_policy
    BY <1>4
  <2> HIDE DEF a, b, a2, b2, g
  <2>7. CASE s = d
    BY <1>1, <1>2, <2>7
  <2>8. CASE s # d
    <3>1. Combination(a2, b2, default_policy) = Opposite(g)
      BY <1>2, <2>6, <2>8 DEF a2, b2, g
    <3>2. Combination(a, b, default_policy) = Opposite(g)
      BY <2>3, <2>4, <2>5, <3>1, CombinationMonotone
    <3>. QED
      BY <1>1, <2>8, <3>2 DEF a, b, g
  <2>. QED
    BY <2>7, <2>8
<1>5. src_rules \in Seq(FirewallRule) /\ dst_rules \in Seq(FirewallRule)
  BY TypeParts
<1>6. CASE l.directive \in Header /\ ~l.indented /\ HeaderLine(l)
  <2>1. UNCHANGED default_policy
    BY <1>6, HeaderOutcome
  <2>2. CASE src_rules' = Append(src_rules, NewRule(l)) /\ dst_rules' = dst_rules
    BY <1>4, <1>5, <2>1, <2>2, OpinionWithOneMore
  <2>3. CASE dst_rules' = Append(dst_rules, NewRule(l)) /\ src_rules' = src_rules
    BY <1>4, <1>5, <2>1, <2>3, OpinionWithOneMore
  <2>. QED
    BY <1>6, <2>2, <2>3, HeaderOutcome
<1>7. CASE l.directive \in Subrule /\ last_rule # <<>> /\ AddSecondParty(l)
  <2>1. UNCHANGED default_policy
    BY <1>7 DEF AddSecondParty
  <2>2. SubruleOf(l) \in SecondParty /\ SubruleOf(l).policy = PolicyOf(l)
    BY <1>7, NewParts DEF SubruleOf
  <2>3. last_rule \in ({"source"} \X DOMAIN src_rules) \cup ({"destination"} \X DOMAIN dst_rules)
    BY <1>7, TypeParts
  <2>4. CASE last_rule[1] = "source" /\ dst_rules' = dst_rules
             /\ src_rules' = [src_rules EXCEPT ![last_rule[2]].second_parties =
                                 Append(@, SubruleOf(l))]
    <3>1. last_rule[2] \in DOMAIN src_rules
      BY <2>3, <2>4
    <3>2. \/ check_permission(src_rules', s, d) = check_permission(src_rules, s, d)
          \/ check_permission(src_rules', s, d) = SubruleOf(l).policy
      <4> DEFINE n == last_rule[2]
                 sp == SubruleOf(l)
                 more == src_rules'
      <4>1. n \in DOMAIN src_rules /\ sp \in SecondParty
            /\ more = Longer(src_rules, n, sp)
        BY <2>2, <2>4, <3>1 DEF Longer
      <4> HIDE DEF n, sp, more
      <4>2. \/ check_permission(more, s, d) = check_permission(src_rules, s, d)
            \/ check_permission(more, s, d) = sp.policy
        BY <1>5, <4>1, OpinionWithSubrule
      <4>. QED
        BY <4>2 DEF more, sp
    <3>. QED
      BY <1>4, <2>1, <2>2, <2>4, <3>2
  <2>5. CASE last_rule[1] = "destination" /\ src_rules' = src_rules
             /\ dst_rules' = [dst_rules EXCEPT ![last_rule[2]].second_parties =
                                 Append(@, SubruleOf(l))]
    <3>1. last_rule[2] \in DOMAIN dst_rules
      BY <2>3, <2>5
    <3>2. \/ check_permission(dst_rules', d, s) = check_permission(dst_rules, d, s)
          \/ check_permission(dst_rules', d, s) = SubruleOf(l).policy
      <4> DEFINE n == last_rule[2]
                 sp == SubruleOf(l)
                 more == dst_rules'
      <4>1. n \in DOMAIN dst_rules /\ sp \in SecondParty
            /\ more = Longer(dst_rules, n, sp)
        BY <2>2, <2>5, <3>1 DEF Longer
      <4> HIDE DEF n, sp, more
      <4>2. \/ check_permission(more, d, s) = check_permission(dst_rules, d, s)
            \/ check_permission(more, d, s) = sp.policy
        BY <1>5, <4>1, OpinionWithSubrule
      <4>. QED
        BY <4>2 DEF more, sp
    <3>. QED
      BY <1>4, <2>1, <2>2, <2>5, <3>2
  <2>. QED
    BY <1>7, <2>4, <2>5 DEF AddSecondParty, SubruleOf
<1>. QED
  BY <1>3, <1>6, <1>7, Outcomes, Disjointness DEF Reject, NullDereference

\* In every text, one more line about a party, a main directive or a subrule, acts
\* in its own direction only, whatever precedes it: a deny line allows nothing that
\* was denied, an allow line denies nothing that was allowed.
THEOREM DirectionCorrect == Spec => RuleLinesActInTheirDirection
<1> DEFINE Step == (config' # config /\ Last(lines').directive \in Header \cup Subrule) =>
                       LET opposite == IF PolicyOf(Last(lines')) = "Allow" THEN "Deny"
                                       ELSE "Allow"
                       IN  \A s, d \in Path :
                               s # d /\ Verdict(s, d)' = opposite =>
                                   Verdict(s, d) = opposite
<1>1. TypeOK /\ TextInv /\ [Next]_vars => [Step]_vars
  <2> SUFFICES ASSUME TypeOK, TextInv, Next,
                      config' # config, Last(lines').directive \in Header \cup Subrule,
                      NEW s \in Path, NEW d \in Path,
                      Verdict(s, d)' = Opposite(PolicyOf(Last(lines')))
               PROVE  Verdict(s, d) = Opposite(PolicyOf(Last(lines')))
    BY DEF Opposite
  <2>1. PICK l \in Line : ReadLine(l)
    BY DEF Next, EndOfText, config
  <2>2. Last(lines') = l
    <3>1. lines' = Append(lines, l) /\ lines \in Seq(Line)
      BY <2>1, ReadLineCases, TypeParts
    <3>. QED
      BY <3>1, AppendedLines DEF Last
  <2>. QED
    BY <2>1, <2>2, DirectionStep
<1>2. Spec => [][Step]_vars
  BY <1>1, Invariance, PTL DEF Spec
<1>. QED
  BY <1>2 DEF RuleLinesActInTheirDirection
==============================================================================
