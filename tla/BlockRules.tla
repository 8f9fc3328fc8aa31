----------------------------- MODULE BlockRules -----------------------------
(***************************************************************************)
(* BlockRules (src/block_rules.cpp) as operators on the value of a rule    *)
(* set.  Names and rules are values of any kind here; how a rule is        *)
(* compared with a name is in ServerName.tla.                              *)
(***************************************************************************)
EXTENDS SequencesExt

CONSTANTS
    RuleMatches(_, _),  \* matchesRule(hostname, rule)
    NoName              \* the empty string

NoRules == [blocked_ips |-> {}, blocked_ports |-> {}, blocked_domains |-> <<>>]

addBlockedIp(rules, ip) == [rules EXCEPT !.blocked_ips = @ \cup {ip}]

addBlockedDomain(rules, domain) == [rules EXCEPT !.blocked_domains = Append(@, domain)]

\* Only TCP and UDP have ports; portKey keeps them apart.
addBlockedPort(rules, protocol, port) ==
    IF protocol \in {"TCP", "UDP"}
    THEN [rules EXCEPT !.blocked_ports = @ \cup {<<protocol, port>>}] ELSE rules

isBlockedIp(rules, ip) == ip \in rules.blocked_ips
isBlockedPort(rules, protocol, port) == <<protocol, port>> \in rules.blocked_ports

\* The rules that match, in the order they were added.
MatchingRules(rules, hostname) ==
    FoldLeft(LAMBDA hits, rule : IF RuleMatches(hostname, rule) THEN Append(hits, rule) ELSE hits,
             <<>>, rules.blocked_domains)

\* Mutant: the last rule that matches.
matchBlockedDomain_Last(rules, hostname) ==
    LET hits == MatchingRules(rules, hostname)
    IN  IF hits = <<>> THEN NoName ELSE hits[Len(hits)]

\* The first rule that matches, the empty string if none does.
matchBlockedDomain(rules, hostname) ==
    LET hits == MatchingRules(rules, hostname)
    IN  IF hits = <<>> THEN NoName ELSE Head(hits)
=============================================================================
