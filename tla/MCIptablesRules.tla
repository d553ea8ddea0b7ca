-------------------------- MODULE MCIptablesRules --------------------------
\* IptablesRules with sections that mix single tests, lists and negated lists.
EXTENDS IptablesRules

MCTruncated == [url_contains_1 |-> "url_contains",
                url_contains_2 |-> "url_contains"]

Opt(name, value) == [name |-> name, list |-> FALSE, value |-> value]
Items(name, values) == [name |-> name, list |-> TRUE, value |-> values]

Ip(text) == [kind |-> "ip", text |-> text]
IpRange(text) == [kind |-> "range", text |-> text]
Mac(text) == [kind |-> "mac", text |-> text]
Bad == [kind |-> "bad", text |-> "x"]
Masked(v) == [value |-> v, masked |-> TRUE]

\* What packets hold: the texts of the tests that hold for them.
Packet(proto, src, dst, sport, dport) ==
    [proto |-> proto, http |-> FALSE, src |-> src, dst |-> dst,
     sport |-> sport, dport |-> dport, mark |-> {}, other |-> {},
     size |-> {}, url |-> {}]
Request(urls) ==
    [Packet("tcp", {"a"}, {"web"}, {}, {"80"})
        EXCEPT !.http = TRUE, !.url = urls]
Marked(p, marks) == [p EXCEPT !.mark = marks]
At(p, others) == [p EXCEPT !.other = others]
Sized(p) == [p EXCEPT !.size = {<<"1", "9">>}]

A == Packet("tcp", {"a"}, {"web"}, {"1"}, {"80"})
InRange == Packet("udp", {"b", "r"}, {"web", "far"}, {"2"}, {"53"})
Card == Packet("tcp", {"c", "m"}, {"far"}, {"1"}, {"22"})
Ping == Packet("icmp", {"a"}, {"web"}, {}, {})
Hosts == {A, InRange, Card}

One(urls) == {<<1, <<u>>>> : u \in urls}
Requests == {Request(One({"news"})), Request(One({"games"})),
             Request({}), Request({<<3, <<"home">>>>}), A}

Case(options, target, target_options, low, packets) ==
    [options |-> options, target |-> target,
     target_options |-> target_options, ingress |-> FALSE, low |-> low,
     packets |-> packets]

MCCases ==
    {\* single tests only
     Case(<<Opt("local_addr", <<Ip("a"), Bad>>), Opt("proto", "tcp")>>,
          "REJECT", "", 0, Hosts),
     Case(<<Opt("remote_port", <<"80">>), Opt("active_hours", "day")>>,
          "REJECT", "", 0, {At(A, {"day"}), A, At(InRange, {"day"})}),
     \* lists of addresses, hours and a port
     Case(<<Opt("local_addr", <<Ip("a"), IpRange("r"), Mac("m")>>),
            Opt("not_remote_port", <<"22">>), Opt("active_hours", "day"),
            Opt("active_weekdays", "all")>>,
          "REJECT", "", 0,
          {A, At(A, {"day"}), At(InRange, {"day"}), At(Card, {"day"})}),
     \* negated lists
     Case(<<Opt("not_local_addr", <<Ip("a"), Mac("m")>>),
            Opt("proto", "udp")>>, "REJECT", "", 0, Hosts \cup {Ping}),
     Case(<<Opt("not_local_addr", <<Ip("a"), IpRange("r")>>),
            Opt("remote_addr", <<Ip("web"), IpRange("far"), Mac("m")>>),
            Opt("proto", "any")>>, "REJECT", "", 0, Hosts),
     \* marks
     Case(<<Opt("not_mark", <<"1">>), Opt("connmark", <<Masked(5)>>),
            Opt("local_port", <<"1", "2">>)>>, "ACCEPT", "", 5,
          {A, Marked(A, {"1"}), Card}),
     Case(<<Opt("not_connmark", <<Masked(5), Masked(6)>>),
            Opt("mark", <<"1", "2">>), Opt("layer7", "http"),
            Opt("ipp2p", "edk")>>, "ACCEPT", "", 4,
          {At(Marked(A, {"2"}), {"http", "edk"}), At(A, {"http", "edk"}),
           At(Marked(A, {"1"}), {"edk"})}),
     \* URLs
     Case(<<Opt("url_contains_1", <<Quote, "news", Quote>>),
            Opt("url_contains_2", <<Quote, "mail", Quote, "x", Quote>>),
            Opt("url_exact", <<"home">>)>>, "REJECT", "", 0, Requests),
     Case(<<Opt("not_url_contains_1", <<"news">>)>>, "ACCEPT", "", 0,
          Requests),
     Case(<<Items("not_url_contains", <<<<Quote, "news", Quote>>,
                                        <<Quote, "games", Quote>>>>),
            Opt("not_local_addr", <<Ip("c"), Ip("d")>>),
            Opt("max_pkt_size", "9"), Opt("min_pkt_size", "1")>>,
          "ACCEPT", "", 0,
          Requests \cup {Sized(p) : p \in Requests}),
     Case(<<Opt("url_contains", <<"news">>)>>, "ACCEPT", "", 0, Requests),
     \* all eight bits
     Case(<<Opt("url_contains", <<Quote, "news", Quote, Quote, "games",
                                  Quote>>),
            Opt("mark", <<"1", "2">>),
            Opt("connmark", <<Masked(5), Masked(6)>>),
            Opt("local_addr", <<Ip("a"), Ip("b")>>),
            Opt("not_remote_addr", <<Ip("far"), Ip("d")>>),
            Opt("not_local_port", <<"1", "2">>),
            Opt("remote_port", <<"80", "8080">>),
            Opt("active_weekly_ranges", "work"), Opt("active_hours", "day")>>,
          "REJECT", "", 5,
          {At(Marked(p, {"2"}), {"work"}) : p \in Requests}
          \cup {Marked(Request(One({"news"})), {"2"})})}

\* No, one or two values of an option, or of its negation.
Forms(name, not_name, value) ==
    {<<>>} \cup {<<Opt(n, SubSeq(value, 1, k))>> :
                    n \in {name, not_name}, k \in 1 .. 2}

\* Every such mixture of addresses, ports and marks, with and without hours
\* and a protocol.
Mixed ==
    {Case(local \o port \o mk \o more, "ACCEPT", "", 0,
          {A, At(Marked(A, {"1"}), {"day"}),
           At(Marked(InRange, {"2"}), {"day"}),
           At(Marked(Card, {"1"}), {"day"})}) :
        local \in Forms("local_addr", "not_local_addr",
                         <<Ip("a"), IpRange("r")>>),
        port \in Forms("remote_port", "not_remote_port", <<"80", "53">>),
        mk \in Forms("mark", "not_mark", <<"1", "2">>),
        more \in {<<>>, <<Opt("active_hours", "day")>>,
                  <<Opt("proto", "udp")>>}}

\* And of URLs, addresses and hours, for both targets.
TwoUrls == <<Quote, "news", Quote, Quote, "games", Quote>>
MixedUrls ==
    {Case(url \o local \o more, target, "", 0,
          {At(p, {"day"}) : p \in Requests} \cup Requests) :
        url \in {<<Opt(n, value)>> :
                    n \in {"url_contains", "not_url_contains"},
                    value \in {<<"news">>, TwoUrls}},
        local \in Forms("local_addr", "not_local_addr",
                        <<Ip("a"), IpRange("r")>>),
        more \in {<<>>, <<Opt("active_hours", "day")>>},
        target \in {"ACCEPT", "REJECT"}}

MCAll == MCCases \cup Mixed \cup MixedUrls
=============================================================================
