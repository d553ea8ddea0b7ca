----------------------------- MODULE MCAdKill -----------------------------
\* AdKill with hosts that begin with another one, in the same bucket and in
\* another one, and a host with a date.
EXTENDS AdKill

MCHash == [a |-> 1, ac |-> 1, ab |-> 2, any |-> 2]
MCExtending == {<<"ab", "a">>, <<"ac", "a">>}
MCStarred == [dated |-> "any"]

Line(op, host, except, surls, durls) ==
    [op |-> op, host |-> host, except |-> except, surls |-> surls,
     dhost |-> "player", durls |-> durls]
To(t) == [text |-> t, except |-> None]
Unless(t, word) == [text |-> t, except |-> word]

NotFound == Line("D", "a", "r", <<"u">>, <<To("x")>>)
BadGateway == Line("G", "a", None, <<"u", "v">>, <<To("x"), Unless("y", "v")>>)
Player == Line("R", "any", None, <<"v", "u">>, <<Unless("x", "r")>>)
Changed == Line("M", "ac", None, <<"h", "u">>, <<Unless("x", "y"), To("z")>>)
Faked == Line("F", "ac", None, <<"v">>, <<To("x")>>)

Packet(host, url, referer, src, dst) ==
    [content |-> TRUE, host |-> host, url |-> url, referer |-> referer,
     before |-> <<>>, behind |-> <<"h", "w", "w">>,
     src |-> src, dst |-> dst, seq |-> 3, ack |-> 1, len |-> 2]

NotFiltered == Packet("a", <<"u", "w">>, {"r"}, "c1", "s1")
Banner == Packet("a", <<"u", "v">>, None, "c1", "s1")
Script == Packet("ac", <<"u", "v">>, {}, "c1", "s2")
Plain == [Script EXCEPT !.behind = <<"u">>]
Short == [Script EXCEPT !.before = <<"w">>, !.behind = <<"h">>]
Video == Packet("dated", <<"u", "v">>, {}, "c2", "s3")
Other == Packet("ab", <<"u">>, {}, "c2", "s3")
Unknown == Packet("a", <<"w">>, {}, "c1", "s1")
Silent == [Packet("a", None, None, "c1", "s1") EXCEPT !.content = FALSE]

Case(first, second, packets) ==
    [script |-> [w1 |-> first, w2 |-> second], traffic |-> packets]

\* Two packets while a host gets a second rule, while another host gets its
\* first one, two writers and one packet, writes of several lines into a text
\* that takes one line too many and one that begins anew, requests that are
\* rewritten in a header, in the URL and beyond their end, and a host that
\* begins with that of the rule.
MCCases ==
    {Case(<<<<BadGateway>>, <<NotFound>>>>, <<>>, {NotFiltered, Banner}),
     Case(<<<<Player>>>>, <<>>, {Video, Other}),
     Case(<<<<Changed>>>>, <<<<Faked>>>>, {Script, Silent}),
     Case(<<<<Changed>>>>, <<>>, {Plain, Short}),
     Case(<<<<NotFound>>, <<Changed, Player>>, <<Faked>>>>, <<>>, {Unknown}),
     Case(<<<<NotFound, Changed>>, <<Player, Faked>>>>, <<>>, {}),
     Case(<<<<NotFound>>, <<Changed>>>>, <<>>, {Script})}
=============================================================================
