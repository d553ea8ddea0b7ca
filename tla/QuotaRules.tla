---------------------------- MODULE QuotaRules ----------------------------
(***************************************************************************)
(* The packet filter of the quotas: the rules restore_quotas gives to      *)
(* iptables, one command after the other while packets pass, and what      *)
(* becomes of a packet that meets them.                                    *)
(*                                                                         *)
(* A connection carries the marks that the rules keep in its connmark:     *)
(* "dead" is the death mark, "explicit" (0xF0000000) says that a quota     *)
(* names the host, "tmp" (0x0F000000) is what several rules of one quota   *)
(* share.  The kernel's matches and targets are modelled from the options  *)
(* they are given: a packet counts 1, the bandwidth match counts it and    *)
(* holds when the counter is greater than the limit, with --bcheck it only *)
(* looks.  Times of day, resets and the numbers of the speed marks are     *)
(* left out.                                                               *)
(***************************************************************************)
EXTENDS Integers, Sequences, FiniteSets, SequencesExt

CONSTANTS
    Hosts,    \* the hosts of the local subnet
    Router,   \* the router itself
    Wan,      \* the other end
    Ids,      \* the base ids of the quotas
    Configs,  \* the lists of quotas a user may have configured
    MaxUsed,  \* above every limit
    MaxBuilds \* bound: how often the rules are made anew

Ends == Hosts \cup {Router, Wan}
Types == {"egress", "ingress", "combined"}
All == "all"
Counters == Ids \X Types \X (Hosts \cup {All})

\* A quota of the firewall configuration.  Who it is for: "ALL", the "COMBINED"
\* or "INDIVIDUAL" others, or the "LISTED" addresses, one entry of ips for each
\* address or range.
Quotas ==
    [id : Ids, who : {"ALL", "COMBINED", "INDIVIDUAL", "LISTED"},
     ips : Seq(SUBSET Hosts), enabled : BOOLEAN,
     limit : UNION {[T -> 0 .. MaxUsed - 1] : T \in SUBSET Types}, slows : BOOLEAN]

ASSUME QuotaAssumption ==
    /\ Router \notin Hosts /\ Wan \notin Hosts \cup {Router} /\ All \notin Hosts
    /\ MaxUsed \in Nat /\ MaxBuilds \in Nat
    /\ Configs \subseteq Seq(Quotas)

VARIABLES
    config,  \* the quotas configured
    builds,  \* how often the rules have been made
    before,  \* the quotas of the rules that are being replaced
    todo,    \* the commands restore_quotas has still to run
    chains,  \* the rules in each chain
    marks,   \* the marks of each host's connection
    used,    \* the counters
    saved    \* the counters in the backup files

vars == <<config, builds, before, todo, chains, marks, used, saved>>

QuotaChains == {"egress_quotas", "ingress_quotas", "combined_quotas"}
OwnChains == QuotaChains \cup {"forward_quotas", "quota_redirects"}
Hooks == {"INPUT", "OUTPUT", "FORWARD", "zone_lan_prerouting"}

-----------------------------------------------------------------------------
(* Rules and the packets that meet them.                                    *)

NoMeter == [counts |-> FALSE, id |-> "", type |-> "", by |-> "", limit |-> 0]

\* A rule that every packet matches and that does nothing to it.
Rule == [way |-> {"in", "out"}, src |-> Ends, dst |-> Ends,
         with |-> {}, without |-> {}, meter |-> NoMeter, to |-> "",
         set |-> {}, clear |-> {}, slows |-> FALSE, redirects |-> FALSE]

\* The entry of a counter that a packet belongs to.
Entry(m, p) ==
    CASE m.by = "src" -> p.src
      [] m.by = "dst" -> p.dst
      [] m.by = "local" -> IF p.src \in Hosts THEN p.src ELSE p.dst
      [] OTHER -> All
Counter(m, p) == <<m.id, m.type, Entry(m, p)>>

Counted(u, k) == [u EXCEPT ![k] = @ + 1]

\* How a packet p stands in the filter: s is its state, the marks of its
\* connection, the counters, whether it is slowed down, whether redirected.
Matches(r, p, s) ==
    /\ p.way \in r.way /\ p.src \in r.src /\ p.dst \in r.dst
    /\ r.with \subseteq s.marks /\ r.without \cap s.marks = {}
    /\ r.meter = NoMeter \/ Counter(r.meter, p) \in Counters

Targeted(r, s) ==
    [s EXCEPT !.marks = (@ \ r.clear) \cup r.set,
              !.slowed = @ \/ r.slows, !.redirected = @ \/ r.redirects]

Metered(r, p, s) ==
    LET k == Counter(r.meter, p)
        t == [s EXCEPT !.used = IF r.meter.counts THEN Counted(@, k) ELSE @]
    IN  IF t.used[k] > r.meter.limit THEN Targeted(r, t) ELSE t

\* One rule; nothing follows a redirection.
Met(r, p, s) ==
    IF s.redirected \/ ~Matches(r, p, s) THEN s
    ELSE IF r.meter = NoMeter THEN Targeted(r, s) ELSE Metered(r, p, s)

Passed(rules, p, s) == FoldLeft(LAMBDA t, r : Met(r, p, t), s, rules)

\* A chain that jumps to other ones, which jump no further.
Jumped(rules, p, s) ==
    FoldLeft(LAMBDA t, r : IF r.to = "" \/ ~Matches(r, p, t) THEN Met(r, p, t)
                           ELSE Passed(chains[r.to], p, t), s, rules)

Packet(h, way) ==
    [way |-> way, src |-> IF way = "out" THEN h ELSE Wan,
     dst |-> IF way = "out" THEN Wan ELSE h]

Arriving(m) == [marks |-> m, used |-> used, slowed |-> FALSE, redirected |-> FALSE]

\* The packet of host h through the mangle table.
Filtered(h, way) ==
    LET p == Packet(h, way)
        s == Arriving(marks[h])
    IN  CASE h = Router /\ way = "in" -> Jumped(chains["INPUT"], p, s)
          [] h = Router /\ way = "out" -> Jumped(chains["OUTPUT"], p, s)
          [] OTHER ->
               FoldLeft(LAMBDA t, r : Jumped(chains[r.to], p, t), s, chains["FORWARD"])

\* Whether a new web connection of host h is sent to the router's own page.
Redirected(h) == Jumped(chains["zone_lan_prerouting"], Packet(h, "out"), Arriving({})).redirected

-----------------------------------------------------------------------------
(* The commands of restore_quotas.                                          *)

Put(chain, rule) == [op |-> "append", chain |-> chain, rule |-> rule]
PutAt(chain, line, rule) ==
    [op |-> "insert", chain |-> chain, line |-> line, rule |-> rule]
DeleteChain(chain) == [op |-> "delete", chain |-> chain]
Unlink(chain, line) == [op |-> "unlink", chain |-> chain, line |-> line]
Flush(chain) == [op |-> "flush", chain |-> chain]
RestoreUsage(q, t) ==
    [op |-> "restore", id |-> q.id, type |-> t, individual |-> q.who = "INDIVIDUAL"]

PutAll(chain, rules) == [j \in DOMAIN rules |-> Put(chain, rules[j])]
When(condition, sequence) == IF condition THEN sequence ELSE <<>>

ChainOf == [egress |-> "egress_quotas", ingress |-> "ingress_quotas",
            combined |-> "combined_quotas"]
Other(t) == IF t = "egress" THEN "ingress" ELSE "egress"

Jump(to) == [Rule EXCEPT !.to = to]
Alive(rule, way) == [rule EXCEPT !.way = {way}, !.without = {"dead"}]
SetTmp == [Rule EXCEPT !.set = {"tmp"}]
ClearTmp == [Rule EXCEPT !.clear = {"tmp"}]
ClearByte == [Rule EXCEPT !.clear = {"tmp", "explicit"}]
ClearDeath == [Rule EXCEPT !.clear = {"dead"}]
ToEach(rule) ==
    [j \in 1 .. 3 |-> Put(ChainOf[<<"egress", "ingress", "combined">>[j]], rule)]

\* The old rules go first, whatever comes then.
Deletions ==
    <<DeleteChain("egress_quotas"), DeleteChain("ingress_quotas"),
      DeleteChain("combined_quotas"), DeleteChain("forward_quotas"),
      DeleteChain("quota_redirects")>>

\* The chains are hooked in, and every chain forgets the marks of the one before.
Frame ==
    <<Put("quota_redirects", ClearByte),
      PutAt("zone_lan_prerouting", 1, Jump("quota_redirects")),
      PutAt("INPUT", 1, Alive(Jump("ingress_quotas"), "in")),
      PutAt("INPUT", 2, Alive(Jump("combined_quotas"), "in")),
      PutAt("OUTPUT", 1, Alive(Jump("egress_quotas"), "out")),
      PutAt("OUTPUT", 2, Alive(Jump("combined_quotas"), "out")),
      PutAt("FORWARD", 1, Jump("forward_quotas")),
      Put("forward_quotas", Alive(Jump("egress_quotas"), "out")),
      Put("forward_quotas", Alive(Jump("ingress_quotas"), "in")),
      Put("forward_quotas", Alive(SetTmp, "in")),
      Put("forward_quotas", Alive(SetTmp, "out")),
      Put("forward_quotas", [Jump("combined_quotas") EXCEPT !.with = {"tmp"}]),
      Put("forward_quotas", ClearTmp)>>
    \o ToEach(ClearDeath) \o ToEach(ClearByte)

\* The addresses of a packet are compared on the side of the local host.
OnSide(rule, t, hosts) ==
    IF t = "egress" THEN [rule EXCEPT !.src = hosts] ELSE [rule EXCEPT !.dst = hosts]

\* Several rules share the mark tmp for one address of a quota.
Share(t, hosts) ==
    IF t = "combined"
    THEN <<[OnSide(SetTmp, "ingress", hosts) EXCEPT !.way = {"in"}],
           [OnSide(SetTmp, "egress", hosts) EXCEPT !.way = {"out"}]>>
    ELSE <<OnSide(SetTmp, t, hosts)>>

Shares(q, t) == q.who = "LISTED" /\ (t = "combined" \/ Len(q.ips) > 1)

\* Mutant: only the first address.
SharedRulesFirst(q, t) == Share(t, q.ips[1])
SharedRules(q, t) == FlattenSeq([j \in DOMAIN q.ips |-> Share(t, q.ips[j])])

\* The test for the hosts of a quota, ip_test.
Test(q, t) ==
    CASE q.who = "ALL" -> Rule
      [] q.who = "LISTED" -> IF Shares(q, t) THEN [Rule EXCEPT !.with = {"tmp"}]
                             ELSE OnSide(Rule, t, q.ips[1])
      [] q.who = "INDIVIDUAL" /\ t # "combined" ->
           OnSide([Rule EXCEPT !.without = {"explicit"}], t, Hosts)
      [] OTHER -> [Rule EXCEPT !.without = {"explicit"}]

\* Mutant: counts individual others by the source in both directions.
BySource(q, t, swap) ==
    CASE q.who # "INDIVIDUAL" -> All
      [] t = "combined" -> "local"
      [] OTHER -> IF swap THEN "dst" ELSE "src"

\* Which end of a packet its entry belongs to; swapped with src and dst.
By(q, t, swap) ==
    CASE q.who # "INDIVIDUAL" -> All
      [] t = "combined" -> "local"
      [] OTHER -> IF (t = "egress") # swap THEN "src" ELSE "dst"

Counts(q, t) == [counts |-> TRUE, id |-> q.id, type |-> t,
                 by |-> By(q, t, FALSE), limit |-> q.limit[t]]
\* Mutant: --bcheck where the source and the destination are swapped.
ChecksStraight(q, t, swap) == [Counts(q, t) EXCEPT !.counts = FALSE]
Checks(q, t, swap) == [Counts(q, t) EXCEPT !.counts = FALSE, !.by = By(q, t, swap)]

\* Mutant: looks up the wrong end.
SlowedByOtherUnswapped(q, t) ==
    When(q.slows /\ t # "combined" /\ Other(t) \in DOMAIN q.limit,
         <<[Test(q, t) EXCEPT !.meter = Checks(q, Other(t), FALSE), !.slows = TRUE]>>)

\* A host over its limit in one direction is slowed down in the other one too.
SlowedByOther(q, t) ==
    When(q.slows /\ t # "combined" /\ Other(t) \in DOMAIN q.limit,
         <<[Test(q, t) EXCEPT !.meter = Checks(q, Other(t), TRUE), !.slows = TRUE]>>)

\* The rules that count, and slow down or cut off.
LimitRules(q, t) ==
    LET counting == [Test(q, t) EXCEPT !.meter = Counts(q, t)]
        checking == [Test(q, t) EXCEPT !.meter = Checks(q, t, FALSE), !.slows = TRUE]
    IN  IF ~q.slows THEN <<[counting EXCEPT !.set = {"dead"}]>>
        ELSE IF t # "combined" THEN <<[counting EXCEPT !.slows = TRUE]>>
        ELSE <<counting, [checking EXCEPT !.way = {"out"}],
               [checking EXCEPT !.way = {"in"}, !.meter = Checks(q, t, TRUE)]>>

\* The rules that send the web connections of who is cut off to the router.
RedirectRules(q, t) ==
    LET redirect == [Rule EXCEPT !.meter = Checks(q, t, FALSE), !.redirects = TRUE]
    IN  CASE q.who \in {"ALL", "INDIVIDUAL"} ->
               <<[redirect EXCEPT !.meter = Checks(q, t, t = "ingress")]>>
          [] q.who = "COMBINED" -> <<[redirect EXCEPT !.without = {"explicit"}]>>
          [] q.who = "LISTED" ->
               [j \in DOMAIN q.ips |-> OnSide(SetTmp, "egress", q.ips[j])] \o
               <<[redirect EXCEPT !.with = {"tmp"}],
                 [Rule EXCEPT !.with = {"tmp"}, !.clear = {"explicit"},
                              !.set = {"explicit"}], ClearTmp>>

\* What is done for one limit of a quota.
TypeCommands(q, t) ==
    PutAll(ChainOf[t],
           When(Shares(q, t), SharedRules(q, t)) \o
           When(q.who = "LISTED", <<[Test(q, t) EXCEPT !.set = {"explicit"}]>>) \o
           SlowedByOther(q, t) \o
           When(t \in DOMAIN q.limit, LimitRules(q, t))) \o
    When(t \in DOMAIN q.limit /\ ~q.slows, PutAll("quota_redirects", RedirectRules(q, t))) \o
    When(t \in DOMAIN q.limit, <<RestoreUsage(q, t)>>) \o
    When(Shares(q, t) \/ q.who \in {"COMBINED", "INDIVIDUAL"},
         <<Put(ChainOf[t], ClearTmp)>>)

QuotaCommands(q) ==
    TypeCommands(q, "ingress") \o TypeCommands(q, "egress") \o
    TypeCommands(q, "combined")

OfOthers(q) == q.who \in {"COMBINED", "INDIVIDUAL"}

\* Mutant: in the order of the configuration.
InOrderAsListed(c) == SelectSeq(c, LAMBDA q : q.enabled)

\* The quotas of the others wait until all that name a host are done.
InOrder(c) ==
    SelectSeq(c, LAMBDA q : q.enabled /\ ~OfOthers(q)) \o
    SelectSeq(c, LAMBDA q : q.enabled /\ OfOthers(q))

\* Mutant: the marks are not taken off at the end of the chains.
CommandsKeepingMarks(c) ==
    Deletions \o
    When(c # <<>>,
         Frame \o
         FlattenSeq([j \in DOMAIN InOrder(c) |-> QuotaCommands(InOrder(c)[j])]))

\* restore_quotas for a configuration
Commands(c) ==
    Deletions \o
    When(c # <<>>,
         Frame \o
         FlattenSeq([j \in DOMAIN InOrder(c) |-> QuotaCommands(InOrder(c)[j])]) \o
         <<Put("quota_redirects", ClearByte)>> \o ToEach(ClearByte))

Explicit(c) ==
    UNION {UNION ToSet(q.ips) : q \in {x \in ToSet(c) : x.enabled /\ x.who = "LISTED"}}

-----------------------------------------------------------------------------
(* Running the commands.                                                    *)

Then == todo' = Tail(todo) /\ before' = IF Len(todo) = 1 THEN config ELSE before

\* iptables -A and -I
AddRule ==
    /\ todo # <<>> /\ Head(todo).op \in {"append", "insert"}
    /\ LET c == Head(todo)
       IN  chains' = [chains EXCEPT ![c.chain] =
                        IF c.op = "append" THEN Append(@, c.rule)
                        ELSE InsertAt(@, c.line, c.rule)]
    /\ Then /\ UNCHANGED <<config, builds, marks, used, saved>>

Lines(chain, to) ==
    SelectSeq(Reverse([j \in DOMAIN chains[chain] |-> j]),
              LAMBDA j : chains[chain][j].to = to)

Names == <<"forward_quotas", "zone_lan_prerouting", "OUTPUT", "FORWARD", "INPUT">>

\* delete_chain_from_table: the jumps to the chain are looked up by their line
\* numbers, and removed from the last one on; then the chain is emptied.
StartDeletion ==
    /\ todo # <<>> /\ Head(todo).op = "delete"
    /\ LET to == Head(todo).chain
           Jumps(name) == [j \in DOMAIN Lines(name, to) |-> Unlink(name, Lines(name, to)[j])]
       IN  todo' = FlattenSeq([j \in DOMAIN Names |-> Jumps(Names[j])]) \o
                   <<Flush(to)>> \o Tail(todo)
    /\ UNCHANGED <<config, builds, before, chains, marks, used, saved>>

\* iptables -D
RemoveJump ==
    /\ todo # <<>> /\ Head(todo).op = "unlink"
    /\ chains' = [chains EXCEPT ![Head(todo).chain] = RemoveAt(@, Head(todo).line)]
    /\ Then /\ UNCHANGED <<config, builds, marks, used, saved>>

\* iptables -F; a counter dies with the rule that counts.
FlushChain ==
    /\ todo # <<>> /\ Head(todo).op = "flush"
    /\ LET chain == Head(todo).chain
           gone == {<<r.meter.id, r.meter.type>> :
                      r \in {x \in ToSet(chains[chain]) : x.meter.counts}}
       IN  /\ chains' = [chains EXCEPT ![chain] = <<>>]
           /\ used' = [k \in Counters |-> IF <<k[1], k[2]>> \in gone THEN 0 ELSE used[k]]
    /\ Then /\ UNCHANGED <<config, builds, marks, saved>>

\* Mutant: what the file says of a host that has a quota of its own is loaded.
LoadedUnfiltered(k, individual) == IF k \in DOMAIN saved THEN saved[k] ELSE 0

\* The entry the backup file has for k: for individual others without the
\* hosts that have a quota of their own now.
Loaded(k, individual) ==
    IF k \in DOMAIN saved /\ ~(individual /\ k[3] \in Explicit(config))
    THEN saved[k] ELSE 0

\* restore_backup_for_id
LoadBackup ==
    /\ todo # <<>> /\ Head(todo).op = "restore"
    /\ LET c == Head(todo)
           Own(k) == k[1] = c.id /\ k[2] = c.type
       IN  used' = IF \E k \in DOMAIN saved : Own(k)
                   THEN [k \in Counters |->
                           IF Own(k) THEN Loaded(k, c.individual) ELSE used[k]]
                   ELSE used
    /\ Then /\ UNCHANGED <<config, builds, chains, marks, saved>>

\* The rules are made anew, for the same or for another configuration.
Rebuild(c) ==
    /\ todo = <<>> /\ builds < MaxBuilds
    /\ todo' = Commands(c) /\ config' = c /\ builds' = builds + 1
    /\ UNCHANGED <<before, chains, marks, used, saved>>

\* backup_quotas, while nothing is being rebuilt (BwBackup has the rest) and a
\* restore may follow
Backup ==
    /\ todo = <<>> /\ builds < MaxBuilds
    /\ LET kept == {k \in Counters : \E q \in ToSet(config) :
                      q.enabled /\ q.id = k[1] /\ k[2] \in DOMAIN q.limit}
       IN  saved' = [k \in kept \cup DOMAIN saved |->
                       IF k \in kept THEN used[k] ELSE saved[k]]
    /\ UNCHANGED <<config, builds, before, todo, chains, marks, used>>

\* Bound: where the counters stop, above every limit for them.
Beyond(k) ==
    \A q \in ToSet(config) \cup ToSet(before) :
      q.id = k[1] /\ k[2] \in DOMAIN q.limit => used[k] > q.limit[k[2]]

\* A packet between host h and the other end.
Traffic(h, way) ==
    /\ \E s \in {Filtered(h, way)} :
         /\ marks' = [marks EXCEPT ![h] = s.marks]
         /\ used' = [k \in Counters |-> IF Beyond(k) THEN used[k] ELSE s.used[k]]
    /\ UNCHANGED <<config, builds, before, todo, chains, saved>>

\* The connection of h ends, the next one has no marks.
NewConnection(h) ==
    /\ marks[h] # {}
    /\ marks' = [marks EXCEPT ![h] = {}]
    /\ UNCHANGED <<config, builds, before, todo, chains, used, saved>>

Init ==
    /\ config = <<>> /\ builds = 0 /\ before = <<>> /\ todo = <<>>
    /\ chains = [c \in Hooks \cup OwnChains |-> <<>>]
    /\ marks = [h \in Hosts \cup {Router} |-> {}]
    /\ used = [k \in Counters |-> 0] /\ saved = <<>>

Next ==
    \/ \E c \in Configs : Rebuild(c)
    \/ AddRule \/ StartDeletion \/ RemoveJump \/ FlushChain \/ LoadBackup
    \/ Backup
    \/ \E h \in Hosts \cup {Router}, way \in {"in", "out"} : Traffic(h, way)
    \/ \E h \in Hosts \cup {Router} : NewConnection(h)

Spec == Init /\ [][Next]_vars

-----------------------------------------------------------------------------
(* What quotas mean, for packets whose connection is not cut off yet: those *)
(* of one that is meet no rules any more.                                   *)

Covers(c, q, h) ==
    /\ q.enabled
    /\ CASE q.who = "ALL" -> TRUE
         [] q.who = "LISTED" -> h \in UNION ToSet(q.ips)
         [] q.who = "COMBINED" -> h \notin Explicit(c)
         [] q.who = "INDIVIDUAL" -> h \in Hosts \ Explicit(c)

KeyOf(q, t, h) == <<q.id, t, IF q.who = "INDIVIDUAL" THEN h ELSE All>>

\* The limits of type t that hold for h, and those that h exceeds with extra
\* packets more than are counted.
LimitsOf(c, t, h) == {q \in ToSet(c) : t \in DOMAIN q.limit /\ Covers(c, q, h)}
Exceeded(c, t, h, extra) ==
    {q \in LimitsOf(c, t, h) :
       used[KeyOf(q, t, h)] + extra > q.limit[t]}
CutOff(c, t, h, extra) == \E q \in Exceeded(c, t, h, extra) : ~q.slows
Slowed(c, t, h, extra) == \E q \in Exceeded(c, t, h, extra) : q.slows

Way(t) == IF t = "egress" THEN "out" ELSE "in"
Built == todo = <<>>
LocalEnds == Hosts \cup {Router}

\* Once the rules are made, a packet of a live connection is counted once by
\* each limit that holds for its host and by no other one; the others' quotas
\* do not count a host that any enabled quota names.  A packet that cuts its
\* connection off for its direction is not counted by the combined limits.
CountedOnce ==
    Built => \A h \in LocalEnds, t \in {"egress", "ingress"} :
      "dead" \notin marks[h] =>
        LET through == ~CutOff(config, t, h, 1)
            due == {KeyOf(q, t, h) : q \in LimitsOf(config, t, h)} \cup
                   {KeyOf(q, "combined", h) :
                      q \in {x \in LimitsOf(config, "combined", h) : through}}
        IN  Filtered(h, Way(t)).used =
              [k \in Counters |-> used[k] + IF k \in due THEN 1 ELSE 0]

\* Once the rules are made, a packet cuts its live connection off exactly if it
\* exceeds a limit without speeds of its direction, or a combined one, that
\* holds for its host.
CutOffAtLimit ==
    Built => \A h \in LocalEnds, t \in {"egress", "ingress"} :
      "dead" \notin marks[h] =>
        ("dead" \in Filtered(h, Way(t)).marks) =
          \E x \in {t, "combined"} : CutOff(config, x, h, 1)

\* A packet that comes while the rules are being replaced, too, cuts its
\* connection off only if it exceeds a limit without speeds that the rules
\* before or the new ones have for its host.
NeverCutOffWrongly ==
    \A h \in LocalEnds, t \in {"egress", "ingress"} :
      ("dead" \in Filtered(h, Way(t)).marks \ marks[h]) =>
        \E x \in {t, "combined"}, c \in {config, before} : CutOff(c, x, h, 1)

\* Once the rules are made, a packet of a live connection is slowed down exactly
\* if it exceeds a limit with speeds of its direction, if its host has exceeded
\* one of the other direction, or if it exceeds a combined one and is not cut
\* off on the way to it.
SlowedAtLimit ==
    Built => \A h \in LocalEnds, t \in {"egress", "ingress"} :
      "dead" \notin marks[h] =>
        Filtered(h, Way(t)).slowed =
          \/ Slowed(config, t, h, 1)
          \/ \E q \in Exceeded(config, Other(t), h, 0) : q.slows
          \/ Slowed(config, "combined", h, 1) /\ ~CutOff(config, t, h, 1)

\* Once rules are made for some quota, a packet takes the marks that the chains
\* share off its live connection, where the rules of other packages would meet
\* them.
MarksLeave ==
    Built /\ config # <<>> => \A h \in LocalEnds, way \in {"in", "out"} :
      "dead" \notin marks[h] => Filtered(h, way).marks \subseteq {"dead"}

\* Once the rules are made, the new web connections of a host of the subnet
\* that has exceeded a limit without speeds are answered by the router.
RedirectedWhenCutOff ==
    Built => \A h \in Hosts :
      (\E t \in Types : CutOff(config, t, h, 0)) => Redirected(h)

\* Once the rules are made, the individual counters of the others' quotas hold
\* nothing of a host that an enabled quota names; what it used of a quota the
\* others share is not taken away.
OthersForgetNamed ==
    Built => \A q \in ToSet(config) : \A t \in Types, h \in Explicit(config) :
      q.enabled /\ q.who = "INDIVIDUAL" /\ t \in DOMAIN q.limit => used[<<q.id, t, h>>] = 0
=============================================================================
