------------------------------ MODULE AdRules ------------------------------
(***************************************************************************)
(* What adkill makes of a configuration line and what it asks of a rule:   *)
(* advconfparse.c, advhash.c and the string searches of strcmd.c.  A text  *)
(* is a member of a small set; a URL, and the whole of a request, is the   *)
(* sequence of the words in it that some rule may search for, a referer    *)
(* the set of them.  A destination replaces as many words as it has.       *)
(***************************************************************************)
EXTENDS Integers, Sequences, SequencesExt

CONSTANTS
    Hash,      \* the bucket of a host: host_bkdr_hash
    Extending, \* pairs <<h, g>> of hosts where h begins with g
    Starred,   \* hosts with a date in the first label |-> the host with "*"
    None       \* an absent field: NULL, or no exception character

Hosts == DOMAIN Hash
Buckets == {Hash[h] : h \in Hosts}

Occurs(word, words) == \E i \in DOMAIN words : words[i] = word

-----------------------------------------------------------------------------
\* The kind of rule an operation character stands for; R when unknown.
OperFlag(op) == IF op \in {"D", "M", "G", "F"} THEN op ELSE "R"

\* Mutant: the lists of the two URLs are paired the other way round.
UrlMapBackwards(line) ==
    [i \in DOMAIN line.surls |->
        LET j == Len(line.surls) + 1 - i IN
        [surl |-> line.surls[i],
         durl |-> IF j \in DOMAIN line.durls THEN line.durls[j] ELSE None]]

\* The comma-separated lists of fields 4 and 6 side by side: as many pairs as
\* there are source URLs, and no destination when the second list is shorter.
UrlMap(line) ==
    [i \in DOMAIN line.surls |->
        [surl |-> line.surls[i],
         durl |-> IF i \in DOMAIN line.durls THEN line.durls[i] ELSE None]]

\* A line becomes a node: host and exception come in field 3 as host!referer,
\* an exception in a destination as text!url.  F lines are not split.
Rule(line) ==
    [type |-> OperFlag(line.op), host |-> line.host, except |-> line.except,
     dhost |-> line.dhost,
     map |-> IF line.op = "F"
             THEN <<[surl |-> line.surls[1], durl |-> line.durls[1]]>>
             ELSE UrlMap(line)]

-----------------------------------------------------------------------------
\* Mutant: a new rule goes behind the older ones of its bucket.
AddLast(table, rule) ==
    [table EXCEPT ![Hash[rule.host]] = Append(@, rule)]

\* advconf_hashnode_add: at the head of the bucket of the host without its
\* exception.
Add(table, rule) ==
    [table EXCEPT ![Hash[rule.host]] = <<rule>> \o @]

\* The comparison of a rule with a host.  A rule with an exception matches
\* every host that begins with its own, if there is a referer and the
\* exception does not occur in it.
HostMatches(rule, host, referer) ==
    IF rule.except = None
    THEN rule.host = host
    ELSE /\ host = rule.host \/ <<host, rule.host>> \in Extending
         /\ referer # None
         /\ rule.except \notin referer

\* The first element that satisfies Test, as a sequence of at most one.
FirstOf(seq, Test(_)) ==
    LET found == {i \in DOMAIN seq : Test(seq[i])}
    IN IF found = {} THEN <<>> ELSE <<seq[Min(found)]>>

\* advconf_hashnode_find_by_host, <<>> for NULL.
FindByHost(table, host, referer) ==
    IF host \notin Hosts THEN <<>>
    ELSE LET Test(rule) == HostMatches(rule, host, referer)
         IN FirstOf(table[Hash[host]], Test)

\* advconf_hostmap_find_by_url
FindByUrl(rule, url) ==
    LET Test(pair) == Occurs(pair.surl, url) IN FirstOf(rule.map, Test)

\* Mutant: only the pair that was found is asked for its exception.
ExceptUrlFirst(rule, url) ==
    \E pair \in {rule.map[1]} :
        /\ pair.durl.except # None /\ Occurs(pair.durl.except, url)

\* is_contain_except_url: an exception of any pair of the rule.  The code
\* does not ask whether a destination is there, and neither does Rewrite: a
\* line has one for each source URL, unless it redirects.
ExceptUrl(rule, url) ==
    \E pair \in ToSet(rule.map) :
        /\ pair.durl.except # None /\ Occurs(pair.durl.except, url)

\* A destination as the rule keeps it: its exception is part of the text.
Raw(durl) ==
    IF durl.except = None THEN <<durl.text>> ELSE <<durl.text, durl.except>>

\* Behind the source URL of a pair, if it is found from the place acc.pos on,
\* its destination is written, whether there is room for it or not: what goes
\* beyond the words falls on memory of others.
WritePair(acc, pair) ==
    LET at == {i \in acc.pos .. Len(acc.words) : acc.words[i] = pair.surl}
        i == Min(at)
        raw == Raw(pair.durl)
    IN IF at = {} THEN acc
       ELSE [pos |-> i + 1,
             words |-> [j \in DOMAIN acc.words |->
                          IF j - i \in DOMAIN raw THEN raw[j - i]
                          ELSE acc.words[j]],
             beyond |-> acc.beyond \/ i + Len(raw) > Len(acc.words)]

\* The rewriting of a request, pair by pair; httpcontent moves on to the place
\* of the last change.
Rewrite(rule, words) ==
    LET Written[n \in 0 .. Len(rule.map)] ==
          IF n = 0 THEN [pos |-> 1, words |-> words, beyond |-> FALSE]
          ELSE WritePair(Written[n - 1], rule.map[n])
    IN  Written[Len(rule.map)]

\* domain_contain_digits and domain_regroup_match_mode: the name looked up.
Regroup(host) == IF host \in DOMAIN Starred THEN Starred[host] ELSE host
=============================================================================
