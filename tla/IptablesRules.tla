--------------------------- MODULE IptablesRules ---------------------------
(***************************************************************************)
(* make_iptables_rules: a section of the configuration becomes iptables    *)
(* rules, run one after the other (make_iptables_rules.c), while packets   *)
(* of a connection pass through the chain.  A single test of a kind goes   *)
(* into every rule; several tests of a kind become rules of their own that *)
(* keep a bit in the high byte of the connection mark, and the rule with   *)
(* the target asks for the whole byte.                                     *)
(***************************************************************************)
EXTENDS Integers, Sequences, FiniteSets, SequencesExt

CONSTANTS
    Cases,      \* the section and its command line, and a connection
    Truncated,  \* option names with a suffix |-> the name they begin with
    Quote,      \* an unescaped quote in the value of an option
    None        \* NULL

VARIABLES
    case,       \* the case at hand
    definition, \* the options read so far, by name
    read,       \* how many options of the section have been read
    rules,      \* the rules computed, None before that
    installed,  \* how many of them have been run
    mark,       \* the connection mark: the bits of its high byte, the rest
    packet,     \* the packet in the chain, None if there is none
    place,      \* the rule it has come to
    size,       \* how many rules there were when it came in
    taken,      \* the target it was taken by, None if it got through
    clean       \* history: it came with a clean byte, to all the rules

iptVars == <<case, definition, read, rules, installed, mark, packet, place,
            size, taken, clean>>
install == <<definition, read, rules, installed>>
chain == <<mark, packet, place, size, taken, clean>>

-----------------------------------------------------------------------------
\* Reading the section.

Plain == {"proto", "layer7", "ipp2p", "max_pkt_size", "min_pkt_size"}
Periods == {"active_hours", "active_weekly_ranges", "active_weekdays"}
Marks == {"mark", "connmark", "not_mark", "not_connmark"}
Addresses == {"remote_addr", "local_addr", "not_remote_addr",
              "not_local_addr"}
Ports == {"remote_port", "local_port", "not_remote_port", "not_local_port"}

UrlNames == <<"url_contains", "url_regex", "url_exact",
              "url_domain_contains", "url_domain_regex", "url_domain_exact">>
NotUrlNames ==
    <<"not_url_contains", "not_url_regex", "not_url_exact",
      "not_url_domain_contains", "not_url_domain_regex",
      "not_url_domain_exact">>

Value(def, name) == IF name \in DOMAIN def THEN def[name] ELSE None
Put(def, name, value) ==
    [n \in DOMAIN def \cup {name} |-> IF n = name THEN value ELSE def[n]]

\* A list of values is one value for this program.
OptionValue(option) ==
    IF option.list THEN FlattenSeq(option.value) ELSE option.value

\* truncate_if_starts_with: url_contains_3 is another url_contains.
OptionName(option) ==
    IF option.name \in DOMAIN Truncated THEN Truncated[option.name]
    ELSE option.name

\* What is neither an address, a range nor a MAC is left out.
ParseAddresses(pieces) ==
    LET Of(kind) ==
            FlattenSeq([i \in DOMAIN pieces |->
                IF pieces[i].kind = kind THEN <<pieces[i].text>> ELSE <<>>])
        lists == <<Of("ip"), Of("range"), Of("mac")>>
    IN IF FlattenSeq(lists) = <<>> THEN None ELSE lists

\* The mask of a mark stays as it is, for max_mask is always 0xFFFFFFFF.
ParseMarks(pieces) == IF pieces = <<>> THEN None ELSE pieces

\* The words between the first and the second quote, the third and the
\* fourth and so on; without a pair of quotes the value itself.
ParseQuotedList(tokens) ==
    LET quotes == {i \in DOMAIN tokens : tokens[i] = Quote}
        opening == {i \in quotes :
                        /\ Cardinality({j \in quotes : j < i}) % 2 = 0
                        /\ \E j \in quotes : j > i}
        From(i) == SubSeq(tokens, i + 1, Min({j \in quotes : j > i}) - 1)
    IN IF opening = {} THEN <<tokens>>
       ELSE FlattenSeq([i \in DOMAIN tokens |->
                IF i \in opening THEN <<From(i)>> ELSE <<>>])

\* More URLs of the same kind.
AddUrls(def, name, value) ==
    LET old == IF name \in DOMAIN def THEN def[name] ELSE <<>>
    IN Put(def, name, old \o ParseQuotedList(value))

ParseOption(def, name, value) ==
    CASE name \in Plain -> Put(def, name, value)
      [] name \in Periods ->
            IF value = "all" THEN def ELSE Put(def, name, value)
      [] name \in Marks -> Put(def, name, ParseMarks(value))
      [] name \in Addresses ->
            LET lists == ParseAddresses(value)
                local == name \in {"local_addr", "not_local_addr"}
            IN IF lists = None THEN def
               ELSE Put(def, name, IF local THEN lists
                                   ELSE [lists EXCEPT ![3] = <<>>])
      [] name \in Ports -> Put(def, name, value)
      [] name \in ToSet(UrlNames) \cup ToSet(NotUrlNames) ->
            AddUrls(def, name, value)
      [] OTHER -> def

\* The options whose values are lists, of pieces or of words.
ListNames ==
    Marks \cup Addresses \cup Ports \cup ToSet(UrlNames) \cup ToSet(NotUrlNames)

IsSequence(s) == Len(s) \in Nat /\ s = [i \in 1 .. Len(s) |-> s[i]]

\* A section is a sequence of options, and these values are sequences.
ASSUME SectionAssumption ==
    \A c \in Cases :
        /\ IsSequence(c.options)
        /\ \A i \in DOMAIN c.options :
              LET o == c.options[i]
              IN  OptionName(o) \in ListNames =>
                    /\ IsSequence(o.value)
                    /\ o.list => \A j \in DOMAIN o.value : IsSequence(o.value[j])

-----------------------------------------------------------------------------
\* Tests and rules.

Test(kind, what) == [kind |-> kind, what |-> what, neg |-> FALSE]
Tests(kind, texts) ==
    IF texts = None THEN None
    ELSE [i \in DOMAIN texts |-> Test(kind, texts[i])]
ByteIs(bits, neg) == [kind |-> "byte", what |-> bits, neg |-> neg]
HttpRequest == Test("http", TRUE)

HighByte == 0 .. 7

MakeRule(proto, tests, jump) == [proto |-> proto, tests |-> tests, jump |-> jump]
SetMark(bits, mask) ==
    [to |-> "CONNMARK", bits |-> bits, mask |-> mask, options |-> ""]
JumpTo(target, options) ==
    [to |-> target, bits |-> {}, mask |-> {}, options |-> options]

Reset == MakeRule("any", <<>>, SetMark({}, HighByte))

\* The rules for one test, or the copies for both protocols.
Protos(proto, requires) ==
    IF proto # "both" THEN <<proto>>
    ELSE IF requires THEN <<"tcp", "udp">> ELSE <<"any">>

\* What has been computed so far: the rules for tests of which there are
\* several, the single tests, the next bit, and for each bit whether its kind
\* is negated and whether it has rules.
Nothing == [multi |-> <<>>, single |-> <<>>, bit |-> 0, negs |-> <<>>,
            many |-> <<>>]

\* Mutant: the rules of a negated list set their bit, as the others do.
ComputeMultiRulesAlwaysSet(acc, tests, never_single, neg, proto, requires) ==
    IF tests = None THEN acc
    ELSE IF Len(tests) = 1 /\ ~never_single
    THEN [acc EXCEPT !.single = <<[tests[1] EXCEPT !.neg = neg]>> \o @]
    ELSE LET protos == Protos(proto, requires)
             Copies(test) ==
                [j \in DOMAIN protos |->
                    MakeRule(protos[j], <<test>>, SetMark({acc.bit}, {acc.bit}))]
         IN [acc EXCEPT !.multi =
                @ \o FlattenSeq([i \in DOMAIN tests |-> Copies(tests[i])])]

\* A single test goes with the others, unless never_single; several tests
\* set their bit, or take it away if they are negated.
ComputeMultiRules(acc, tests, never_single, neg, proto, requires) ==
    IF tests = None THEN acc
    ELSE IF Len(tests) = 1 /\ ~never_single
    THEN [acc EXCEPT !.single = <<[tests[1] EXCEPT !.neg = neg]>> \o @]
    ELSE LET protos == Protos(proto, requires)
             bits == IF neg THEN {} ELSE {acc.bit}
             Copies(test) ==
                [j \in DOMAIN protos |->
                    MakeRule(protos[j], <<test>>, SetMark(bits, {acc.bit}))]
         IN [acc EXCEPT !.multi =
                @ \o FlattenSeq([i \in DOMAIN tests |-> Copies(tests[i])])]

\* The bit is used up, with or without rules.
NextBit(acc, neg, many) ==
    [acc EXCEPT !.bit = @ + 1, !.negs = Append(@, neg),
                !.many = Append(@, many)]

\* Options of one kind: the positive ones, and the negated ones only if there
\* are no positive ones.
ListOf(def, name, not_name) ==
    IF Value(def, name) # None THEN def[name] ELSE Value(def, not_name)
Negated(def, name, not_name) ==
    Value(def, name) = None /\ Value(def, not_name) # None

-----------------------------------------------------------------------------
\* The kinds of tests, in the order of their bits.

\* A weekly range replaces hours and weekdays; the size of a packet is asked
\* for if both limits are there.
SingleTests(def) ==
    LET times == IF Value(def, "active_weekly_ranges") # None
                 THEN <<"active_weekly_ranges">>
                 ELSE <<"active_hours", "active_weekdays">>
        given == SelectSeq(times \o <<"layer7", "ipp2p">>,
                           LAMBDA name : Value(def, name) # None)
        sizes == <<Value(def, "min_pkt_size"), Value(def, "max_pkt_size")>>
    IN [i \in DOMAIN given |-> Test("other", def[given[i]])] \o
       (IF None \in ToSet(sizes) THEN <<>> ELSE <<Test("size", sizes)>>)

ProtoOf(def) ==
    IF Value(def, "proto") \in {"tcp", "udp"} THEN def["proto"] ELSE "both"

UrlsAt(def, names) ==
    [i \in DOMAIN names |->
        LET urls == Value(def, names[i]) IN
        IF urls = None THEN <<>>
        ELSE [j \in DOMAIN urls |-> Test("url", <<i, urls[j]>>)]]

UrlTests(def) ==
    LET urls == UrlsAt(def, UrlNames) IN
    IF FlattenSeq(urls) # <<>> THEN urls ELSE UrlsAt(def, NotUrlNames)

UrlNegated(def) == FlattenSeq(UrlsAt(def, UrlNames)) = <<>>
UrlCount(def) == Len(FlattenSeq(UrlTests(def)))

UrlRules(acc, def, proto, include_proto) ==
    LET many == UrlCount(def) > 1
    IN NextBit(ComputeMultiRules(acc, FlattenSeq(UrlTests(def)), many,
                                 UrlNegated(def), proto, include_proto),
               UrlNegated(def), many)

\* Marks, connection marks and ports: one list of tests.
ListRules(acc, kind, texts, neg, never_single, proto, requires) ==
    NextBit(ComputeMultiRules(acc, Tests(kind, texts), never_single, neg,
                              proto, requires),
            neg, texts # None /\ (Len(texts) # 1 \/ never_single))

MarkRules(acc, def, proto, include_proto) ==
    LET neg == Negated(def, "mark", "not_mark")
    IN ListRules(acc, "mark", ListOf(def, "mark", "not_mark"), neg, neg,
                 proto, include_proto)

ConnmarkRules(acc, def, proto, include_proto) ==
    ListRules(acc, "connmark", ListOf(def, "connmark", "not_connmark"),
              Negated(def, "connmark", "not_connmark"), FALSE, proto,
              include_proto)

\* Addresses are of three kinds, which share a bit; without an address option
\* there is no bit.  The MAC of the destination is not asked for.
AddressRules(acc, kind, lists, neg, proto, include_proto) ==
    IF lists = None THEN acc
    ELSE LET texts == FlattenSeq(IF kind = "src" THEN lists
                                 ELSE SubSeq(lists, 1, 2))
             many == Len(texts) > 1
         IN NextBit(ComputeMultiRules(acc, Tests(kind, texts), many, neg,
                                      proto, include_proto), neg, many)

\* On the way in the remote side is the source.
Side(ingress, source) == IF ingress = source THEN "remote" ELSE "local"
Option(not, ingress, source, what) ==
    LET remote == Side(ingress, source) = "remote" IN
    CASE what = "addr" /\ remote ->
            IF not THEN "not_remote_addr" ELSE "remote_addr"
      [] what = "addr" /\ ~remote ->
            IF not THEN "not_local_addr" ELSE "local_addr"
      [] what = "port" /\ remote ->
            IF not THEN "not_remote_port" ELSE "remote_port"
      [] OTHER -> IF not THEN "not_local_port" ELSE "local_port"

SideRules(acc, def, kind, ingress, what, proto, include_proto) ==
    LET source == kind \in {"src", "sport"}
        name == Option(FALSE, ingress, source, what)
        not_name == Option(TRUE, ingress, source, what)
        values == ListOf(def, name, not_name)
        neg == Negated(def, name, not_name)
    IN IF what = "addr"
       THEN AddressRules(acc, kind, values, neg, proto, include_proto)
       ELSE ListRules(acc, kind, values, neg, FALSE, proto, TRUE)

PortsGiven(def) == \E name \in Ports : Value(def, name) # None

\* The single tests have the last bit if there are others.
SingleRule(acc, def, proto) ==
    IF acc.multi = <<>> \/ acc.single = <<>> THEN acc
    ELSE LET protos == Protos(proto, proto # "both" \/ PortsGiven(def)) IN
         [acc EXCEPT
            !.multi = @ \o [j \in DOMAIN protos |->
                MakeRule(protos[j], acc.single, SetMark({acc.bit}, {acc.bit}))],
            !.bit = @ + 1, !.many = Append(@, TRUE),
            !.negs = Append(@, FALSE)]

Computed(def, ingress) ==
    LET include_proto == ProtoOf(def) # "both"
        proto == IF UrlCount(def) > 0 THEN "tcp" ELSE ProtoOf(def)
        single == [Nothing EXCEPT !.single = SingleTests(def)]
        urls == UrlRules(single, def, proto, include_proto)
        marks == MarkRules(urls, def, proto, include_proto)
        connmarks == ConnmarkRules(marks, def, proto, include_proto)
        src == SideRules(connmarks, def, "src", ingress, "addr", proto,
                         include_proto)
        dst == SideRules(src, def, "dst", ingress, "addr", proto,
                         include_proto)
        sport == SideRules(dst, def, "sport", ingress, "port", proto, TRUE)
        dport == SideRules(sport, def, "dport", ingress, "port", proto, TRUE)
    IN SingleRule(dport, def, proto)

-----------------------------------------------------------------------------
\* The rules with the bits.

Bits(acc, Chosen(_)) == {i - 1 : i \in {j \in 1 .. acc.bit : Chosen(j)}}
FinalMatch(acc) == Bits(acc, LAMBDA j : acc.many[j])
InitialMark(acc) ==
    Bits(acc, LAMBDA j : acc.many[j] /\ acc.negs[j] /\ j # 1)

\* The bits of negated lists are set first; that of the URLs only on a
\* request.
InitialRules(acc) ==
    (IF InitialMark(acc) = {} THEN <<>>
     ELSE <<MakeRule("any", <<>>, SetMark(InitialMark(acc), HighByte))>>) \o
    (IF ~(acc.many[1] /\ acc.negs[1]) THEN <<>>
     ELSE <<MakeRule("tcp", <<HttpRequest>>, SetMark({0}, {0}))>>)

\* Options of a target that are given by default.
TargetOptions(target, options, proto) ==
    IF options = "" /\ target = "REJECT" /\ proto = "tcp"
    THEN "tcp-reset" ELSE options

\* Mutant: the byte is left to the next packet.
BitRulesNoReset(acc, target, options, proto) ==
    LET found == ByteIs(FinalMatch(acc), FALSE)
    IN InitialRules(acc) \o acc.multi \o
       <<MakeRule("any", <<found>>, JumpTo(target, options))>>

\* The whole byte must match; if it does not, it is reset.
BitRules(acc, target, options, proto) ==
    LET found == ByteIs(FinalMatch(acc), FALSE)
    IN InitialRules(acc) \o acc.multi \o
       (IF target = "REJECT" /\ options = "" /\ proto # "both"
        THEN <<MakeRule("tcp", <<found>>, JumpTo("REJECT", "tcp-reset")),
               MakeRule("any", <<found>>, JumpTo("REJECT", ""))>>
        ELSE <<MakeRule(IF options = "tcp-reset" THEN "tcp" ELSE "any", <<found>>,
                    JumpTo(target, options))>>)
       \o <<Reset>>

\* Nothing but single tests: one rule, or one for each protocol.
SingleRules(acc, def, target, options, proto) ==
    LET plain == target = "REJECT" /\ options = ""
        reset == <<MakeRule("tcp", acc.single, JumpTo("REJECT", "tcp-reset"))>>
        For(p) == <<MakeRule(p, acc.single, JumpTo(target, options))>>
    IN IF proto # "both" THEN For(proto)
       ELSE IF ~PortsGiven(def)
       THEN (IF plain THEN reset ELSE <<>>) \o For("any")
       ELSE (IF plain THEN reset ELSE For("tcp")) \o For("udp")

\* Who may open certain URLs keeps the other packets of his connections.
FollowUpRules(def, target, ingress) ==
    IF UrlCount(def) = 0 \/ target # "ACCEPT" \/ ingress THEN <<>>
    ELSE <<MakeRule("tcp", <<HttpRequest>>, SetMark(HighByte, HighByte)),
           MakeRule("tcp", <<Test("dport", "80"), ByteIs(HighByte, TRUE)>>,
                JumpTo("ACCEPT", "")),
           Reset>>

ComputeRules(def, ingress, target, options) ==
    LET acc == Computed(def, ingress)
        proto == IF UrlCount(def) > 0 THEN "tcp" ELSE ProtoOf(def)
        opts == TargetOptions(target, options, proto)
    IN (IF acc.multi # <<>> THEN BitRules(acc, target, opts, proto)
        ELSE SingleRules(acc, def, target, opts, proto))
       \o FollowUpRules(def, target, ingress)

-----------------------------------------------------------------------------
IptInit ==
    /\ case \in Cases
    /\ definition = <<>> /\ read = 0
    /\ rules = None /\ installed = 0
    /\ mark = [byte |-> {}, low |-> case.low]
    /\ packet = None /\ place = 0 /\ size = 0
    /\ taken = None /\ clean = FALSE

\* get_rule_definition, one option after the other.
ReadOption ==
    /\ rules = None /\ read < Len(case.options)
    /\ LET option == case.options[read + 1] IN
        definition' = ParseOption(definition, OptionName(option),
                                  OptionValue(option))
    /\ read' = read + 1
    /\ UNCHANGED <<case, rules, installed, chain>>

\* main passes 0 for is_ingress, whatever the command line says.
Compute ==
    /\ rules = None /\ read = Len(case.options)
    /\ rules' = ComputeRules(definition, FALSE, case.target,
                             case.target_options)
    /\ UNCHANGED <<case, definition, read, installed, chain>>

\* One call of iptables.
RunCommand ==
    /\ rules # None /\ installed < Len(rules)
    /\ installed' = installed + 1
    /\ UNCHANGED <<case, definition, read, rules, chain>>

-----------------------------------------------------------------------------
\* A packet in the chain; the tables it is judged by are those it met.

Complete == rules # None /\ size = Len(rules)

Enter ==
    /\ packet = None
    /\ \E p \in case.packets : packet' = p
    /\ place' = 1 /\ size' = installed
    /\ clean' = (mark.byte = {} /\ rules # None /\ installed = Len(rules))
    /\ UNCHANGED <<case, install, mark, taken>>

\* A test on the URL fails on all but requests, also when it is negated; a
\* mark without a mask is compared as a whole.
TestHolds(test, p) ==
    CASE test.kind = "byte" -> (mark.byte = test.what) # test.neg
      [] test.kind = "connmark" ->
            (/\ test.what.value = mark.low
             /\ test.what.masked \/ mark.byte = {}) # test.neg
      [] test.kind = "url" ->
            p.http /\ (test.what \in p.url) # test.neg
      [] test.kind = "http" -> p.http
      [] OTHER -> (test.what \in p[test.kind]) # test.neg

Matches(rule, p) ==
    /\ rule.proto \in {"any", p.proto}
    /\ \A i \in DOMAIN rule.tests : TestHolds(rule.tests[i], p)

InChain == packet # None /\ taken = None /\ place <= size

PassRule ==
    /\ InChain /\ ~Matches(rules[place], packet)
    /\ place' = place + 1
    /\ UNCHANGED <<case, install, mark, packet, size, taken, clean>>

MarkConnection ==
    /\ InChain /\ Matches(rules[place], packet)
    /\ rules[place].jump.to = "CONNMARK"
    /\ LET jump == rules[place].jump IN
        mark' = [mark EXCEPT !.byte = (@ \ jump.mask) \cup jump.bits]
    /\ place' = place + 1
    /\ UNCHANGED <<case, install, packet, size, taken, clean>>

TakePacket ==
    /\ InChain /\ Matches(rules[place], packet)
    /\ rules[place].jump.to # "CONNMARK"
    /\ taken' = rules[place].jump
    /\ UNCHANGED <<case, install, mark, packet, place, size, clean>>

Done == packet # None /\ ~InChain

Leave ==
    /\ Done
    /\ packet' = None /\ taken' = None /\ place' = 0 /\ size' = 0
    /\ clean' = FALSE
    /\ UNCHANGED <<case, install, mark>>

IptNext ==
    \/ ReadOption \/ Compute \/ RunCommand
    \/ Enter \/ PassRule \/ MarkConnection \/ TakePacket \/ Leave

IptSpec == IptInit /\ [][IptNext]_iptVars

-----------------------------------------------------------------------------
\* What the section asks for, read off its options.

UrlOptions == ToSet(UrlNames)
NotUrlOptions == ToSet(NotUrlNames)

\* The values of an option; those of a URL option with the place of its name.
Texts(name, value) ==
    CASE name \in Addresses ->
            {piece.text : piece \in
                {q \in ToSet(value) :
                    \/ q.kind \in {"ip", "range"}
                    \/ q.kind = "mac"
                       /\ name \in {"local_addr", "not_local_addr"}}}
      [] name \in UrlOptions \cup NotUrlOptions ->
            LET places == {i \in DOMAIN UrlNames :
                                name \in {UrlNames[i], NotUrlNames[i]}}
            IN places \X ToSet(ParseQuotedList(value))
      [] OTHER -> ToSet(value)

Given(names) ==
    UNION {Texts(OptionName(o), OptionValue(o)) :
            o \in {q \in ToSet(case.options) : OptionName(q) \in names}}

\* One of the values if there are any, and else none of the negated ones.
Fits(name, not_name, held) ==
    IF Given({name}) # {} THEN Given({name}) \cap held # {}
    ELSE Given({not_name}) \cap held = {}

UrlFits(p) ==
    LET urls == Given(UrlOptions)
        not_urls == Given(NotUrlOptions)
    IN IF urls # {} THEN p.http /\ urls \cap p.url # {}
       ELSE not_urls # {} => p.http /\ not_urls \cap p.url = {}

\* A section with nothing but negated lists is a case of its own: its tests
\* ask for the protocol and the rule with the target does not, so that all
\* packets of the other protocols are taken.
OnlyNegatedLists ==
    \A o \in ToSet(case.options) :
        \/ OptionName(o) = "proto"
        \/ OptionName(o) = "not_mark"
        \/ /\ OptionName(o) \in {"not_connmark", "not_local_addr",
                                "not_remote_addr", "not_local_port",
                                "not_remote_port"}
           /\ Cardinality(Given({OptionName(o)})) > 1

Proto == IF Given(UrlOptions \cup NotUrlOptions) # {} THEN "tcp"
         ELSE ProtoOf(definition)
ProtoFits(p) == Proto \in {"both", p.proto}

\* The section describes packet p, where ingress says on which side of the
\* router the source is.
Describes(p, ingress) ==
    LET here == IF ingress THEN p.dst ELSE p.src
        there == IF ingress THEN p.src ELSE p.dst
        port == IF ingress THEN p.dport ELSE p.sport
        other == IF ingress THEN p.sport ELSE p.dport
        singles == SingleTests(definition)
    IN /\ \A i \in DOMAIN singles : singles[i].what \in p[singles[i].kind]
       /\ UrlFits(p) /\ ProtoFits(p)
       /\ Fits("mark", "not_mark", p.mark)
       /\ Fits("connmark", "not_connmark",
               {[value |-> mark.low, masked |-> m] : m \in BOOLEAN})
       /\ Fits("local_addr", "not_local_addr", here)
       /\ Fits("remote_addr", "not_remote_addr", there)
       /\ Fits("local_port", "not_local_port", port)
       /\ Fits("remote_port", "not_remote_port", other)

FollowsUp(p) ==
    /\ case.target = "ACCEPT" /\ Given(UrlOptions \cup NotUrlOptions) # {}
    /\ p.proto = "tcp" /\ "80" \in p.dport /\ ~p.http

\* A packet that comes when all the rules are there, on a connection whose byte
\* is clean, is taken by the target exactly if the section describes it, or if
\* it is no request and goes to a web server while certain URLs are accepted:
\* however the section is spread over single tests, lists, negated lists and
\* bits.  Of a section with nothing but negated lists this is said only for
\* packets of its protocol, and connmarks are meant to come with a mask: one
\* without is compared with the bits as well.
RightFate ==
    Done /\ clean /\ (OnlyNegatedLists => ProtoFits(packet)) =>
        (taken # None) = (Describes(packet, FALSE) \/ FollowsUp(packet))

\* A packet that came when all the rules were there and is not taken leaves a
\* clean byte, whatever byte it came with.  Nothing is said of one that is
\* taken, or that came when the last rules were missing.
LeavesClean == Done /\ Complete /\ taken = None => mark.byte = {}
=============================================================================
