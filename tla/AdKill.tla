------------------------------- MODULE AdKill -------------------------------
(***************************************************************************)
(* The advertisement filter of the kernel module adkill: the hook that     *)
(* judges forwarded packets on every CPU, the proc file through which      *)
(* rules are added, loading and unloading (advkill.c, advproc.c and        *)
(* pkgoper.c; the rules themselves are in AdRules).  The hook keeps what   *)
(* it has read from a packet in buffers shared by all CPUs; g_advconf_mutex *)
(* protects the table of rules only.                                       *)
(***************************************************************************)
EXTENDS AdRules, FiniteSets

CONSTANTS
    Cpus,     \* where the hook may run
    Writers,  \* processes that write to /proc/advkill/advconf
    Cases,    \* what each writer writes, the packets that are forwarded
    MaxText,  \* lines advkillconfdata holds
    Seq32     \* TCP sequence numbers are modulo this

ASSUME RulesAssumption ==
    /\ MaxText \in Nat \ {0} /\ Seq32 \in Nat \ {0}
    /\ Cpus \cap Writers = {} /\ None \notin Cpus \cup Writers

IsSequence(s) == s \in Seq(ToSet(s))

\* The lines a user may write and the packets that may come.  The list of
\* source URLs of an F line is one text, and only a redirection does without
\* a destination (see ExceptUrl).  A write is a sequence of whole lines.  What
\* lies before and behind the URL of a packet are the words in its buffer up
\* to the first zero, wherever the packet ends.
LineOK(line) ==
    /\ line # None /\ line.host \in Hosts
    /\ IsSequence(line.surls) /\ IsSequence(line.durls)
    /\ None \notin ToSet(line.durls)
    /\ OperFlag(line.op) # "R" => Len(line.surls) <= Len(line.durls)
    /\ line.op = "F" => Len(line.surls) = 1

ASSUME CasesAssumption ==
    /\ \A pair \in Extending : pair[1] \in Hosts
    /\ \A c \in Cases :
          /\ \A k \in c.traffic :
                k.url # None =>
                    \A part \in {k.before, k.url, k.behind} : IsSequence(part)
          /\ DOMAIN c.script = Writers
          /\ \A w \in Writers :
                /\ IsSequence(c.script[w])
                /\ \A lines \in ToSet(c.script[w]) :
                      /\ IsSequence(lines) /\ lines # <<>>
                      /\ \A line \in ToSet(lines) : LineOK(line)

VARIABLES
    module,   \* how far the module is loaded or unloaded
    mutex,    \* who holds g_advconf_mutex
    table,    \* g_advconf_hashtable, the bucket of a hash value as a sequence
    cell,     \* the shared buffers: what they hold and who wrote it last
    pc,       \* where a CPU stands in hook_func, a writer in the write call
    coming,   \* the packets still to be forwarded
    pkt,      \* the packet a CPU judges
    node,     \* tmphost and tmpmap: a rule found and its pair, or <<>>;
              \* of a writer the rule it has parsed, its line
    out,      \* the verdict on the packet and the answer sent
    script,   \* the writes a writer has yet to finish, each in lines
    text,     \* the lines at their places in advkillconfdata and behind it; a
              \* place that is not in it is zero
    index,    \* advkill_conf_index, in lines
    added,    \* history: the lines of the rules in the order they came
    seen,     \* history: how many there were when a CPU looked
    mixed,    \* history: a CPU has read a buffer another one wrote to
    unused,   \* history: lines whose copying or parsing failed
    further,  \* history: lines behind the first one of their write
    clash     \* history: two writers were in the write call at once

hook == <<cell, coming, pkt, node, out, seen, mixed>>
write == <<script, text, index, unused, further, clash>>
vars == <<module, mutex, table, pc, added, hook, write>>

Actors == Cpus \cup Writers

\* What is there after loading, and nothing of it after unloading.
NoFields == [c \in {"host", "url", "referer", "location"} |->
                [text |-> None, by |-> None]]
NoRules == [b \in Buckets |-> <<>>]
NoText == <<>>

Accept == [verdict |-> "ACCEPT", answer |-> <<>>, words |-> <<>>]

Init ==
    /\ module = "out" /\ mutex = None
    /\ table = NoRules
    /\ cell = NoFields
    /\ pc = [a \in Actors |-> "idle"]
    /\ pkt = [p \in Cpus |-> None]
    /\ node = [a \in Actors |-> <<>>]
    /\ out = [p \in Cpus |-> Accept]
    /\ \E c \in Cases : script = c.script /\ coming = c.traffic
    /\ text = NoText
    /\ index = 0
    /\ added = <<>> /\ seen = [p \in Cpus |-> 0]
    /\ mixed = [p \in Cpus |-> FALSE]
    /\ unused = {} /\ further = {} /\ clash = FALSE

Go(a, where) == pc' = [pc EXCEPT ![a] = where]

Lock(a) == mutex = None /\ mutex' = a
Unlock(a) == mutex' = None

-----------------------------------------------------------------------------
\* Loading and unloading.

\* advkill_prepare: the buffers and the proc file come before the table.
CreateProc ==
    /\ module = "out"
    /\ module' = "proc"
    /\ UNCHANGED <<mutex, table, pc, added, hook, write>>

\* The table, and then the hook.
Load ==
    /\ module = "proc"
    /\ module' = "loaded"
    /\ UNCHANGED <<mutex, table, pc, added, hook, write>>

\* nf_unregister_hook returns when no CPU is in the hook any more.
Unregister ==
    /\ module = "loaded" /\ \A p \in Cpus : pc[p] = "idle"
    /\ module' = "unhooked"
    /\ UNCHANGED <<mutex, table, pc, added, hook, write>>

FreeRules == table' = NoRules /\ added' = <<>>

\* Mutant: the rules are freed before the hook is unregistered.
UnloadHooked ==
    /\ module = "loaded" /\ \A w \in Writers : pc[w] = "idle"
    /\ module' = "gone"
    /\ text' = NoText /\ index' = 0
    /\ FreeRules
    /\ cell' = NoFields
    /\ UNCHANGED <<mutex, pc, coming, pkt, node, out, seen, mixed, script,
                   unused, further, clash>>

\* remove_proc_entry waits for those who write; then all rules are freed.
Unload ==
    /\ module = "unhooked" /\ \A w \in Writers : pc[w] = "idle"
    /\ module' = "gone"
    /\ text' = NoText /\ index' = 0
    /\ FreeRules
    /\ cell' = NoFields
    /\ UNCHANGED <<mutex, pc, coming, pkt, node, out, seen, mixed, script,
                   unused, further, clash>>

-----------------------------------------------------------------------------
\* The hook.

\* Buffer c is written, or read, by p.
Fill(p, c, value) == cell' = [cell EXCEPT ![c] = [text |-> value, by |-> p]]
Reads(p, buffers) ==
    mixed' = [mixed EXCEPT ![p] = @ \/ \E c \in buffers : cell[c].by # p]

\* A packet that is not TCP or has hardly any content is accepted at once.
Receive(p) ==
    /\ module = "loaded" /\ pc[p] = "idle"
    /\ \E k \in coming :
        /\ coming' = coming \ {k}
        /\ pkt' = [pkt EXCEPT ![p] = k]
        /\ Go(p, IF k.content THEN "host" ELSE "done")
    /\ UNCHANGED <<module, mutex, table, cell, node, out, seen, mixed, added,
                   write>>

\* Each field is copied into its buffer; a packet without host or URL is
\* accepted.  A missing referer is NULL, whatever the buffer holds.
Copy(p, c, value, next) ==
    /\ pc[p] = c /\ Fill(p, c, value)
    /\ Go(p, IF value = None /\ c # "referer" THEN "done" ELSE next)
    /\ UNCHANGED <<module, mutex, table, coming, pkt, node, out, seen, mixed,
                   added, write>>

CopyHost(p) == Copy(p, "host", pkt[p].host, "url")
CopyUrl(p) == Copy(p, "url", pkt[p].url, "referer")
CopyReferer(p) == Copy(p, "referer", pkt[p].referer, "regroup")

\* A host with a date has its first label replaced in the buffer.
RegroupHost(p) ==
    /\ pc[p] = "regroup" /\ Reads(p, {"host"})
    /\ Fill(p, "host", Regroup(cell["host"].text))
    /\ Go(p, "lock")
    /\ UNCHANGED <<module, mutex, table, coming, pkt, node, out, seen, added,
                   write>>

LockTable(p) ==
    /\ pc[p] = "lock" /\ Lock(p) /\ Go(p, "find")
    /\ UNCHANGED <<module, table, added, hook, write>>

\* The pointer to the referer is NULL for a packet that has none.
FindHost(p) ==
    /\ pc[p] = "find"
    /\ LET referer == IF pkt[p].referer = None THEN None
                      ELSE cell["referer"].text
       IN node' = [node EXCEPT ![p] =
                        FindByHost(table, cell["host"].text, referer)]
    /\ Reads(p, IF pkt[p].referer = None THEN {"host"}
                ELSE {"host", "referer"})
    /\ seen' = [seen EXCEPT ![p] = Len(added)]
    /\ Go(p, IF node'[p] = <<>> THEN "accept" ELSE "map")
    /\ UNCHANGED <<module, mutex, table, cell, coming, pkt, out, added,
                   write>>

\* Mutant: the early return of a URL that is not found keeps the mutex.
FindUrlKeepsMutex(p) ==
    /\ pc[p] = "map"
    /\ LET pair == FindByUrl(node[p][1], cell["url"].text) IN
        /\ node' = [node EXCEPT ![p] = @ \o pair]
        /\ Go(p, IF pair = <<>> THEN "done" ELSE
                 IF node[p][1].type = "R" THEN "locate" ELSE "unlock")
    /\ Reads(p, {"url"})
    /\ UNCHANGED <<module, mutex, table, cell, coming, pkt, out, seen, added,
                   write>>

FindUrl(p) ==
    /\ pc[p] = "map"
    /\ LET pair == FindByUrl(node[p][1], cell["url"].text) IN
        /\ node' = [node EXCEPT ![p] = @ \o pair]
        /\ Go(p, IF pair = <<>> THEN "accept" ELSE
                 IF node[p][1].type = "R" THEN "locate" ELSE "unlock")
    /\ Reads(p, {"url"})
    /\ UNCHANGED <<module, mutex, table, cell, coming, pkt, out, seen, added,
                   write>>

\* The way out of those that found nothing.
UnlockAccept(p) ==
    /\ pc[p] = "accept" /\ Unlock(p) /\ Go(p, "done")
    /\ UNCHANGED <<module, table, added, hook, write>>

\* http_location_generate leaves the buffer empty without a destination.
Locate(p) ==
    /\ pc[p] = "locate"
    /\ LET durl == node[p][2].durl IN
        Fill(p, "location", IF durl = None THEN None
                            ELSE <<node[p][1].dhost, durl>>)
    /\ Go(p, "unlock")
    /\ UNCHANGED <<module, mutex, table, coming, pkt, node, out, seen, mixed,
                   added, write>>

\* What is done with the rule is done after the mutex is given back.
UnlockTable(p) ==
    /\ pc[p] = "unlock" /\ Unlock(p)
    /\ Go(p, CASE node[p][1].type = "R" -> "send"
               [] node[p][1].type = "M" -> "modify"
               [] OTHER -> "except")
    /\ UNCHANGED <<module, table, added, hook, write>>

\* A URL with the exception of the rule passes.
AskException(p) ==
    /\ pc[p] = "except"
    /\ Go(p, IF ExceptUrl(node[p][1], cell["url"].text)
             THEN "done" ELSE "send")
    /\ Reads(p, {"url"})
    /\ UNCHANGED <<module, mutex, table, cell, coming, pkt, node, out, seen,
                   added, write>>

\* The request as it stands in the buffer of the packet.
Payload(k) == k.before \o k.url \o k.behind

\* The whole request is searched, not only its URL.
Modify(p) ==
    /\ pc[p] = "modify"
    /\ LET words == Rewrite(node[p][1], Payload(pkt[p])).words
       IN out' = [out EXCEPT ![p] = [Accept EXCEPT !.words = words]]
    /\ Go(p, "done")
    /\ UNCHANGED <<module, mutex, table, cell, coming, pkt, node, seen, mixed,
                   added, write>>

\* The CPU never leaves the hook: it has done what stops the kernel.  Others
\* may go on for a while.
Oops(p) ==
    /\ Go(p, "oops")
    /\ UNCHANGED <<module, mutex, table, added, hook, write>>

\* What is written beyond the request may stop the kernel.
Overrun(p) ==
    /\ pc[p] = "modify" /\ Rewrite(node[p][1], Payload(pkt[p])).beyond
    /\ Oops(p)

\* Mutant: the numbers are copied, not exchanged.
AnswerSameNumbers(k, data) ==
    [src |-> k.dst, dst |-> k.src, seq |-> k.seq, ack |-> k.ack,
     data |-> data]

\* pkg_skbuff_generate: the answer goes back where the packet came from and
\* acknowledges its content.
Answer(k, data) ==
    [src |-> k.dst, dst |-> k.src, seq |-> k.ack,
     ack |-> (k.seq + k.len) % Seq32, data |-> data]

\* What the client is told: another location, not found, a bad gateway, or
\* the content of the rule.
Data(p) ==
    CASE node[p][1].type = "R" -> cell["location"].text
      [] node[p][1].type = "D" -> "404"
      [] node[p][1].type = "G" -> "502"
      [] node[p][1].type = "F" -> <<node[p][1].dhost, node[p][1].map[1].durl>>

\* The answer is sent and the packet dropped.
Send(p) ==
    /\ pc[p] = "send"
    /\ out' = [out EXCEPT ![p] =
                    [verdict |-> "DROP", words |-> <<>>,
                     answer |-> <<Answer(pkt[p], Data(p))>>]]
    /\ IF node[p][1].type = "R" THEN Reads(p, {"location"})
       ELSE UNCHANGED mixed
    /\ Go(p, "done")
    /\ UNCHANGED <<module, mutex, table, cell, coming, pkt, node, seen, added,
                   write>>

\* There is no memory for the text of the answer or dev_queue_xmit fails: the
\* packet is accepted, but send_client_location does not look at the second
\* result.
SendFails(p) ==
    /\ pc[p] = "send"
    /\ \E verdict \in {"ACCEPT"} \cup
                       (IF node[p][1].type = "R" THEN {"DROP"} ELSE {}) :
            out' = [out EXCEPT ![p] = [Accept EXCEPT !.verdict = verdict]]
    /\ Go(p, "done")
    /\ UNCHANGED <<module, mutex, table, cell, coming, pkt, node, seen, mixed,
                   added, write>>

\* There is no device or no memory for the answer: pkg_skbuff_generate frees
\* the packet and returns NULL, which pkg_skbuff_dev_xmit dereferences.
NoAnswer(p) == pc[p] = "send" /\ Oops(p)

Return(p) ==
    /\ pc[p] = "done" /\ Go(p, "idle")
    /\ node' = [node EXCEPT ![p] = <<>>]
    /\ pkt' = [pkt EXCEPT ![p] = None]
    /\ out' = [out EXCEPT ![p] = Accept]
    /\ seen' = [seen EXCEPT ![p] = 0]
    /\ mixed' = [mixed EXCEPT ![p] = FALSE]
    /\ UNCHANGED <<module, mutex, table, cell, coming, added, write>>

-----------------------------------------------------------------------------
\* advkill_conf_write.

Writing(w) == Head(script[w])
Finish(w) == script' = [script EXCEPT ![w] = Tail(@)] /\ Go(w, "idle")

\* A text that is too full for the write begins anew; the rules stay.  The room
\* is taken to be one more than it is, and a negative one, compared with an
\* unsigned length, for enough.
BeginWrite(w) ==
    /\ pc[w] = "idle" /\ script[w] # <<>> /\ module \in {"proc", "loaded"}
    /\ Go(w, "copy")
    /\ clash' = (clash \/ \E v \in Writers : pc[v] # "idle")
    /\ LET space == MaxText - index + 1 IN
       IF space < 0 \/ Len(Writing(w)) <= space THEN UNCHANGED <<text, index>>
       ELSE /\ text' = Restrict(text, DOMAIN text \ (1 .. MaxText))
            /\ index' = 0
    /\ UNCHANGED <<module, mutex, table, added, hook, script, unused, further>>

\* The text with lines put where advkill_conf_index is now.
Put(lines) ==
    LET places == index + 1 .. index + Len(lines)
    IN  [i \in DOMAIN text \cup places |->
            IF i \in places THEN lines[i - index] ELSE text[i]]

CopyLines(w) ==
    /\ pc[w] = "copy"
    /\ text' = Put(Writing(w))
    /\ further' = further \cup ToSet(Tail(Writing(w)))
    /\ Go(w, "parse")
    /\ UNCHANGED <<module, mutex, table, index, added, script, unused, clash,
                   hook>>

\* copy_from_user fails: some of the lines, of which the last may be cut off,
\* are in the text, where a read can see them; the rest of their room has been
\* cleared or is as it was, and the index stays.
CopyFails(w) ==
    /\ pc[w] = "copy"
    /\ \E n \in 0 .. Len(Writing(w)) :
        LET put == Put(SubSeq(Writing(w), 1, n))
            rest == index + n + 1 .. index + Len(Writing(w))
        IN text' \in {put, Restrict(put, DOMAIN put \ rest)}
    /\ unused' = unused \cup ToSet(Writing(w))
    /\ Finish(w)
    /\ UNCHANGED <<module, mutex, table, index, added, further, clash, hook>>

\* The first line of the write, unless somebody else has moved the index.
LineThere == {text[i] : i \in DOMAIN text \cap {index + 1}}

\* Without a table, or without memory, the line stays in the text only.
ParseFails(w) ==
    /\ pc[w] = "parse"
    /\ unused' = unused \cup LineThere
    /\ Go(w, "advance")
    /\ UNCHANGED <<module, mutex, table, added, hook, script, text, index,
                   further, clash>>

\* Mutant: a line is parsed after the index has moved on: an empty line.
ParseLineMovedOn(w) ==
    /\ pc[w] = "parse" /\ module = "loaded"
    /\ node' = [node EXCEPT ![w] = <<>>]
    /\ Go(w, "add")
    /\ UNCHANGED <<module, mutex, table, cell, coming, pkt, out, seen, mixed,
                   added, write>>

\* The parser looks where the index is now, and at one line only.  Nothing is
\* found where the text is zero: a rule without a host, which no packet asks
\* for.
ParseLine(w) ==
    /\ pc[w] = "parse" /\ module = "loaded"
    /\ node' = [node EXCEPT ![w] =
                    IF LineThere = {} THEN <<>>
                    ELSE <<Rule(text[index + 1]), text[index + 1]>>]
    /\ Go(w, "add")
    /\ UNCHANGED <<module, mutex, table, cell, coming, pkt, out, seen, mixed,
                   added, write>>

LockToAdd(w) ==
    /\ pc[w] = "add" /\ Lock(w) /\ Go(w, "link")
    /\ UNCHANGED <<module, table, added, hook, write>>

AddRule(w) ==
    /\ pc[w] = "link" /\ Unlock(w) /\ Go(w, "advance")
    /\ IF node[w] = <<>> THEN UNCHANGED <<table, added>>
       ELSE /\ table' = Add(table, node[w][1])
            /\ added' = Append(added, node[w][2])
    /\ node' = [node EXCEPT ![w] = <<>>]
    /\ UNCHANGED <<module, cell, coming, pkt, out, seen, mixed, write>>

\* The index moves on by the whole write.
Advance(w) ==
    /\ pc[w] = "advance"
    /\ index' = index + Len(Writing(w))
    /\ Finish(w)
    /\ UNCHANGED <<module, mutex, table, added, hook, text, unused, further,
                   clash>>

-----------------------------------------------------------------------------
Module == CreateProc \/ Load \/ Unregister \/ Unload

Hook(p) ==
    \/ CopyHost(p) \/ CopyUrl(p) \/ CopyReferer(p) \/ RegroupHost(p)
    \/ LockTable(p) \/ FindHost(p) \/ FindUrl(p) \/ UnlockAccept(p)
    \/ Locate(p) \/ UnlockTable(p) \/ AskException(p) \/ Modify(p) \/ Overrun(p)
    \/ Send(p) \/ SendFails(p) \/ NoAnswer(p) \/ Return(p)

Write(w) ==
    \/ CopyLines(w) \/ CopyFails(w) \/ ParseFails(w) \/ ParseLine(w)
    \/ LockToAdd(w) \/ AddRule(w) \/ Advance(w)

Next ==
    \/ Module
    \/ \E p \in Cpus : Receive(p) \/ Hook(p)
    \/ \E w \in Writers : BeginWrite(w) \/ Write(w)

\* Nothing is promised to go on: the hook waits for the mutex in an interrupt,
\* and if the writer that holds it was interrupted there, neither goes on.
Spec == Init /\ [][Next]_vars

-----------------------------------------------------------------------------
\* What a packet is due by the lines in the order they were added, whatever
\* bucket their rules are in.

\* A line is for its host; one with an exception is also for the hosts that
\* begin with its own and happen to share its bucket.
Asks(k, line) ==
    LET host == Regroup(k.host) IN
    /\ \/ line.host = host
       \/ /\ line.except # None /\ <<host, line.host>> \in Extending
          /\ Hash[host] = Hash[line.host]
    /\ line.except = None
       \/ (k.referer # None /\ line.except \notin k.referer)

\* The lines a packet asks for, and the source URLs of a line found in it.
Asked(k, lines) ==
    IF ~k.content \/ None \in {k.host, k.url} THEN {}
    ELSE {j \in DOMAIN lines : Asks(k, lines[j])}
Newest(k, lines) == lines[Max(Asked(k, lines))]
FoundIn(k, line) == {i \in DOMAIN line.surls : Occurs(line.surls[i], k.url)}

\* The destination written for the source URL at place i.
Dest(line, i) == IF i \in DOMAIN line.durls THEN line.durls[i] ELSE None

Spared(k, line) ==
    \E i \in DOMAIN line.surls :
        /\ Dest(line, i) # None /\ Dest(line, i).except # None
        /\ Occurs(Dest(line, i).except, k.url)

\* The answer for a line whose source URL at place i is found in the URL.  Of a
\* destination nobody takes the exception away.
Told(k, line, i) ==
    [src |-> k.dst, dst |-> k.src, seq |-> k.ack,
     ack |-> (k.seq + k.len) % Seq32,
     data |->
        CASE OperFlag(line.op) = "R" -> IF Dest(line, i) = None THEN None
                                        ELSE <<line.dhost, Dest(line, i)>>
          [] line.op = "D" -> "404"
          [] line.op = "G" -> "502"
          [] line.op = "F" -> <<line.dhost, Dest(line, i)>>]

\* The source URLs that occur anywhere in the request.
InRequest(k, line) ==
    {i \in DOMAIN line.surls : Occurs(line.surls[i], Payload(k))}

\* A rewritten request differs only where a destination of the line reaches,
\* written behind its source URL; and behind the first place of the first
\* source URL of the list that occurs in the request its destination begins.
Rewritten(k, line, words) ==
    LET old == Payload(k)
        first == Min(InRequest(k, line))
        place == Min({i \in DOMAIN old : old[i] = line.surls[first]})
    IN  /\ Len(words) = Len(old)
        /\ \A i \in DOMAIN words :
              words[i] # old[i] =>
                  \E m \in 1 .. i - 1 : \E j \in DOMAIN line.surls :
                        /\ words[m] = line.surls[j]
                        /\ i - m \in DOMAIN Raw(Dest(line, j))
                        /\ words[i] = Raw(Dest(line, j))[i - m]
        /\ place < Len(old) => words[place + 1] = Dest(line, first).text

\* The newest line for the host decides, and only that one.
RightFor(k, lines, result) ==
    LET line == Newest(k, lines)
        kind == OperFlag(line.op)
    IN IF Asked(k, lines) = {} \/ FoundIn(k, line) = {} THEN result = Accept
       ELSE IF kind = "M"
            THEN /\ result = [Accept EXCEPT !.words = result.words]
                 /\ Rewritten(k, line, result.words)
       ELSE IF kind # "R" /\ Spared(k, line) THEN result = Accept
       ELSE \/ result = [verdict |-> "DROP", words |-> <<>>,
                         answer |-> <<Told(k, line, Min(FoundIn(k, line)))>>]
            \/ result = Accept
            \/ kind = "R" /\ result = [Accept EXCEPT !.verdict = "DROP"]

\* A packet whose buffers no other CPU has touched is treated as the newest
\* rule for its host says, by the rules that were in the table when it was
\* looked up: dropped with that rule's answer, rewritten, or accepted.
AloneRight ==
    \A p \in Cpus :
        pc[p] = "done" /\ ~mixed[p] =>
            RightFor(pkt[p], SubSeq(added, 1, seen[p]), out[p])

\* Where the mutex is held.
Holding == {"find", "map", "accept", "locate", "unlock", "link"}

\* The mutex is with the one actor that searches the table or adds to it, and
\* no way out of the hook or of the write call keeps it.
MutexHeld ==
    /\ mutex \in Actors \cup {None}
    /\ \A a \in Actors : mutex = a <=> pc[a] \in Holding

\* A rule a CPU has found is in the table until the CPU is done with it, long
\* after the CPU has given the mutex back, even when the module is unloaded.
RulesOutliveUse ==
    \A p \in Cpus :
        node[p] # <<>> => \E b \in Buckets : node[p][1] \in ToSet(table[b])

\* The table is safe to work with: one at a time under a mutex everybody gives
\* back, and no rule leaves it that somebody still holds.
TableSafe == MutexHeld /\ RulesOutliveUse

\* When nobody is in the write call, and until two writers have been in it at
\* once, what a read of the proc file can show are rules in force, lines that
\* could not be copied or parsed, and lines behind the first of their write.
TextInForce ==
    ~clash /\ (\A w \in Writers : pc[w] = "idle") =>
        \A i \in DOMAIN text : text[i] \in ToSet(added) \cup unused \cup further

=============================================================================
