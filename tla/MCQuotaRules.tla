--------------------------- MODULE MCQuotaRules ---------------------------
\* QuotaRules with configurations that pair every kind of quota with others.
EXTENDS QuotaRules

Quota(id, who, ips, limited, most, slows) ==
    [id |-> id, who |-> who, ips |-> ips, enabled |-> TRUE,
     limit |-> [t \in limited |-> most], slows |-> slows]

Named == Quota("a", "LISTED", <<{"h1"}>>, {"egress"}, 1, FALSE)
NamedSlow == Quota("a", "LISTED", <<{"h1"}>>, {"egress"}, 1, TRUE)
NamedTwo == Quota("a", "LISTED", <<{"h1"}, {"h2"}>>, {"combined"}, 0, TRUE)
Everyone == Quota("b", "ALL", <<>>, {"ingress"}, 0, FALSE)
OthersTogether == Quota("b", "COMBINED", <<>>, {"combined"}, 0, FALSE)
OthersEach == Quota("b", "INDIVIDUAL", <<>>, {"ingress"}, 0, FALSE)
OthersSlow == Quota("b", "INDIVIDUAL", <<>>, {"ingress"}, 1, TRUE)
OthersLocal == Quota("b", "INDIVIDUAL", <<>>, {"combined"}, 0, TRUE)
Disabled(q) == [q EXCEPT !.enabled = FALSE]

MCConfigs ==
    {<<OthersTogether, Named>>, <<NamedTwo, Everyone>>,
     <<OthersSlow, Disabled(Named)>>, <<OthersEach, NamedSlow>>,
     <<OthersLocal>>}
=============================================================================
