------------------------- MODULE FirewallUtilProofs -------------------------
(***************************************************************************)
(* The programs of gargoyle-firewall-util.                                 *)
(*                                                                         *)
(* The counters of a quota rule through backups, restores and power        *)
(* losses, and what set_bandwidth_data sends, for any hosts, traffic,      *)
(* block lengths and buffers.  What is proved of the counters rests on     *)
(* three facts that hold in every state: the counters on their way from    *)
(* the kernel to the file and back are never more than the host has        *)
(* transferred (Honest), the file that is not being written holds the      *)
(* counters of the last backup (FileKept), and what has been sent of them  *)
(* is in the kernel (Restoring).                                           *)
(*                                                                         *)
(* The rules that make_iptables_rules computes for a section, for any      *)
(* sections, connections and packets: whatever lists a section has, the    *)
(* last of its rules takes away all the bits that the others may have set  *)
(* (Resetting), so that a packet that no rule takes leaves a clean mark.   *)
(***************************************************************************)
EXTENDS BwBackup, IptablesRules, NaturalSets, TLAPS

-----------------------------------------------------------------------------
(* What set_bandwidth_data sends.                                           *)

\* The entries sent, and those lost with their buffers, are a prefix that ends
\* where the next buffer starts; the buffer being filled holds the entries that
\* follow it.
SetInv ==
    /\ total \in Nat /\ length \in [0 .. total - 1 -> Lengths]
    /\ next_ip \in 0 .. total /\ ip_index \in 0 .. total
    /\ num \in 0 .. total /\ used \in 0 .. Capacity
    /\ spc \in {"open", "round", "fill", "send", "end"} /\ done \in BOOLEAN
    /\ sent \subseteq 0 .. total - 1 /\ lost \subseteq 0 .. total - 1
    /\ twice \in BOOLEAN /\ ~twice
    /\ spc = "open" => next_ip = 0
    /\ spc # "end" => /\ sent = (0 .. next_ip - 1) \ lost
                      /\ lost \subseteq 0 .. next_ip - 1
    /\ spc = "end" => sent = (0 .. total - 1) \ lost
    /\ spc \in {"fill", "send"} => ip_index = next_ip + num
    /\ spc = "fill" => ip_index < total
    /\ spc = "send" /\ done => ip_index = total

\* Every step keeps the invariant.
LEMMA SetNextInv == SetInv /\ [SetNext]_setVars => SetInv'
<1> SUFFICES ASSUME SetInv, [SetNext]_setVars PROVE SetInv'
  OBVIOUS
<1> USE SetAssumption DEF SetInv
<1>1. CASE Round
  <2>1. CASE next_ip >= total
    <3>1. done' = TRUE /\ spc' = "send"
      BY <1>1, <2>1 DEF Round
    <3> QED  BY <1>1, <2>1, <3>1 DEF Round
  <2>2. CASE next_ip < total
    <3>1. done' = FALSE
      BY <1>1, <2>2 DEF Round
    <3>2. spc' = "fill"
      BY <1>1, <3>1 DEF Round
    <3> QED  BY <1>1, <2>2, <3>1, <3>2 DEF Round
  <2> QED  BY <2>1, <2>2
<1>2. CASE AddBlock
  <2>1. length[ip_index] \in Nat
    <3>1. ip_index \in 0 .. total - 1
      BY <1>2 DEF AddBlock
    <3> QED  BY <3>1
  <2>2. used' \in 0 .. Capacity
    BY <1>2, <2>1 DEF AddBlock
  <2>3. CASE ip_index + 1 >= total
    <3>1. done' = TRUE
      BY <1>2, <2>3 DEF AddBlock
    <3>2. spc' = "send"
      BY <1>2, <3>1 DEF AddBlock
    <3> QED  BY <1>2, <2>2, <2>3, <3>1, <3>2 DEF AddBlock
  <2>4. CASE ip_index + 1 < total
    <3>1. done' = FALSE
      BY <1>2, <2>4 DEF AddBlock
    <3>2. spc' = "fill"
      BY <1>2, <3>1 DEF AddBlock
    <3> QED  BY <1>2, <2>2, <2>4, <3>1, <3>2 DEF AddBlock
  <2> QED  BY <2>3, <2>4
<1>3. CASE BufferFull
  <2>1. ~(ip_index >= total)
    BY <1>3 DEF BufferFull
  <2>2. done' = FALSE
    BY <1>3, <2>1 DEF BufferFull
  <2> QED  BY <1>3, <2>2 DEF BufferFull
<1>4. CASE Send
  <2>1. /\ (next_ip .. next_ip + num - 1) \cap sent = {}
        /\ sent' = (0 .. ip_index - 1) \ lost
        /\ lost \subseteq 0 .. ip_index - 1
    BY <1>4 DEF Send
  <2>2. twice' = FALSE
    BY <1>4, <2>1 DEF Send
  <2>3. CASE done
    <3>1. spc' = "end"
      BY <1>4, <2>3 DEF Send
    <3> QED  BY <1>4, <2>1, <2>2, <2>3, <3>1 DEF Send
  <2>4. CASE ~done
    <3>1. spc' = "round"
      BY <1>4, <2>4 DEF Send
    <3> QED  BY <1>4, <2>1, <2>2, <2>4, <3>1 DEF Send
  <2> QED  BY <2>3, <2>4
<1>5. CASE OpenSocket
  BY <1>5 DEF OpenSocket
<1>6. CASE NoSocket
  <2>1. sent = {} /\ lost' = 0 .. total - 1 /\ spc' = "end"
    BY <1>6 DEF NoSocket
  <2> QED  BY <1>6, <2>1 DEF NoSocket
<1>7. CASE SendFails
  <2>1. /\ next_ip' = ip_index /\ ip_index = next_ip + num
        /\ lost' = lost \cup (next_ip .. ip_index - 1)
        /\ UNCHANGED <<total, length, ip_index, num, used, done, sent, twice>>
    BY <1>7 DEF SendFails
  <2>2. sent = (0 .. ip_index - 1) \ lost' /\ lost' \subseteq 0 .. ip_index - 1
    BY <1>7, <2>1 DEF SendFails
  <2>3. CASE done
    <3>1. spc' = "end"
      BY <1>7, <2>3 DEF SendFails
    <3>2. ip_index = total
      BY <1>7, <2>3 DEF SendFails
    <3> QED  BY <2>1, <2>2, <2>3, <3>1, <3>2
  <2>4. CASE ~done
    <3>1. spc' = "round"
      BY <1>7, <2>4 DEF SendFails
    <3> QED  BY <2>1, <2>2, <2>4, <3>1
  <2> QED  BY <2>3, <2>4
<1>8. CASE UNCHANGED setVars
  BY <1>8 DEF setVars
<1> QED  BY <1>1, <1>2, <1>3, <1>4, <1>5, <1>6, <1>7, <1>8 DEF SetNext, SetEnded

\* The invariant holds of every call.
THEOREM SetInvariance == SetSpec => [](SetInv /\ total <= MaxIps)
<1>1. SetInit => SetInv /\ total <= MaxIps
  <2> SUFFICES ASSUME SetInit PROVE SetInv /\ total <= MaxIps
    OBVIOUS
  <2>1. total \in Nat /\ 0 \in 0 .. total /\ 0 .. 0 - 1 = {} /\ total <= MaxIps
    BY SetAssumption DEF SetInit
  <2>2. 0 \in 0 .. Capacity
    BY SetAssumption
  <2>3. /\ next_ip = 0 /\ ip_index = 0 /\ num = 0 /\ used = 0 /\ sent = {}
        /\ lost = {} /\ spc = "open" /\ done = FALSE /\ twice = FALSE
    BY DEF SetInit
  <2>4. length \in [0 .. total - 1 -> Lengths]
    BY DEF SetInit
  <2> QED  BY <2>1, <2>2, <2>3, <2>4 DEF SetInv
<1>2. total <= MaxIps /\ [SetNext]_setVars => (total <= MaxIps)'
  BY DEF SetNext, OpenSocket, NoSocket, Round, AddBlock, BufferFull, Send,
         SendFails, SetEnded, setVars
<1> QED  BY <1>1, <1>2, SetNextInv, PTL DEF SetSpec

\* A call that returns has given the kernel every entry but those of the buffers
\* that did not get to it.
THEOREM EverythingSent == SetSpec => []AllSent
<1>1. SetInv => AllSent
  BY DEF SetInv, AllSent
<1> QED  BY <1>1, SetInvariance, PTL

\* No entry is given to the kernel twice.
THEOREM NothingTwice == SetSpec => []SentOnce
<1>1. SetInv => SentOnce
  BY DEF SetInv, SentOnce
<1> QED  BY <1>1, SetInvariance, PTL

-----------------------------------------------------------------------------
(* The inductive invariant.                                                 *)

Tokens == [kind : {"time", "ip", "bw"}, val : Nat]
Entries == [ip : Hosts, bw : Nat]
Tables == Seq(Hosts)
Counts == [Hosts -> Nat]
Requests == [ip : Nat, index : Nat, id : {Rule, "", "number"}]
Replies == [error : 0 .. 2, total : Nat, start : Nat, ips : Tables]

TypeOK ==
    /\ backup \in {"idle", "get", "save"}
    /\ restore \in {"off", "load", "set", "idle"}
    /\ table \in Tables /\ usage \in Counts /\ real \in Counts
    /\ floor \in Counts /\ excused \in BOOLEAN
    /\ snap.table \in Tables /\ snap.usage \in Counts
    /\ file.exists \in BOOLEAN /\ file.tokens \in Seq(Tokens)
    /\ file = [exists |-> file.exists, tokens |-> file.tokens]
    /\ entries \in Seq(Entries)
    /\ request \in Requests /\ reply \in Replies
    /\ error = reply.error /\ data_index \in Nat

\* Where a query stands.  Its first request asks for all hosts; what is left
\* of it in the buffer after a reply asks for a rule that is not there.
Querying ==
    /\ data_index <= Len(data)
    /\ pc \in {"open", "ask", "reply", "done", "nosocket", "died"}
    /\ pc \in {"open", "ask"} =>
          \/ /\ request = [ip |-> 0, index |-> 0, id |-> Rule]
             /\ data_index = 0 /\ data = <<>> /\ num_ips = 0
          \/ pc = "ask" /\ request.id # Rule
    /\ pc = "nosocket" => data = <<>> /\ num_ips = 0
    /\ pc = "reply" /\ error = 0 =>
          /\ data_index = 0 /\ request.index = 0 /\ request.id # Rule
          /\ reply.total = Len(snap.table)
          /\ reply.ips = SubSeq(snap.table, 1,
                                IF PerReply < Len(snap.table) THEN PerReply
                                ELSE Len(snap.table))
    /\ pc = "done" /\ error = 0 => data = snap.table /\ num_ips = Len(data)

\* While a backup writes, the file holds the time and what has been written of
\* the counters.
Saving ==
    backup = "save" =>
        /\ pc \in {"done", "nosocket"} /\ (pc = "done" => error = 0)
        /\ (pc = "nosocket" => excused) /\ file.exists
        /\ Len(file.tokens) \in 1 .. 2 * num_ips + 1
        /\ file.tokens[1] = [kind |-> "time", val |-> 0]
        /\ \A k \in 2 .. Len(file.tokens) : file.tokens[k] = Token(k)

\* In a file an address is followed by a counter that is not too high.
HonestFile(f) ==
    \A i \in DOMAIN f : f[i].kind = "ip" =>
        /\ f[i].val \in Hosts
        /\ i < Len(f) => /\ f[i + 1].kind # "ip"
                         /\ f[i + 1].val <= real[f[i].val]

Honest ==
    /\ \A h \in Hosts : usage[h] <= real[h] /\ snap.usage[h] <= real[h]
    /\ HonestFile(file.tokens)
    /\ \A i \in DOMAIN entries : entries[i].bw <= real[entries[i].ip]

\* What has an address in f has the counter of the last backup, and every
\* host that was backed up is there.
Holds(f) ==
    /\ \A i \in DOMAIN f : f[i].kind = "ip" =>
          i < Len(f) /\ f[i + 1].val >= floor[f[i].val]
    /\ \A h \in Hosts : floor[h] > 0 =>
          \E i \in DOMAIN f : f[i].kind = "ip" /\ f[i].val = h

FileKept ==
    backup # "save" => Holds(file.tokens) /\ (~file.exists => file.tokens = <<>>)

\* Counters taken by a query are behind the kernel's unless these have been
\* made anew since.
Taken ==
    pc \in {"reply", "done"} /\ backup \in {"get", "save"}

Restoring ==
    /\ restore = "idle" => \A h \in Hosts \ Grouped : usage[h] >= floor[h]
    /\ restore = "idle" /\ Taken => \A h \in Hosts : usage[h] >= snap.usage[h]
    /\ restore \in {"off", "set"} => backup = "idle"
    /\ restore = "set" =>
          /\ \A i \in DOMAIN entries : entries[i].bw >= floor[entries[i].ip]
          /\ \A h \in Hosts \ Grouped : floor[h] > 0 =>
                \E i \in DOMAIN entries : entries[i].ip = h
          /\ \A k \in sent :
                usage[entries[k + 1].ip] >= floor[entries[k + 1].ip]

Kept == NumberLimit = 0 /\ ~excused => FileKept /\ Restoring

IInv ==
    /\ TypeOK /\ SetInv /\ (restore = "set" => total = Len(entries))
    /\ Querying /\ Saving /\ Honest /\ Kept

-----------------------------------------------------------------------------
(* What the filter of a restore leaves and what is read from a file.        *)

\* The filter drops the entries of the given addresses and keeps the others.
LEMMA WithoutKeeps ==
  ASSUME NEW E, NEW list \in Seq(E), NEW ips
  PROVE  /\ Without(list, ips) \in Seq(E)
         /\ \A k \in DOMAIN Without(list, ips) :
               \E j \in DOMAIN list : Without(list, ips)[k] = list[j]
         /\ \A j \in DOMAIN list : list[j].ip \notin ips =>
               \E k \in DOMAIN Without(list, ips) : Without(list, ips)[k] = list[j]
<1> DEFINE N == Len(list)
           More(i, s) == IF list[i].ip \in ips THEN s ELSE Append(s, list[i])
           Is(f) == f = [i \in 0 .. N |->
                          IF i = 0 THEN <<>> ELSE More(i, f[i - 1])]
           Stay == CHOOSE f : Is(f)
<1>1. N \in Nat /\ DOMAIN list = 1 .. N /\ (\A j \in 1 .. N : list[j] \in E)
  OBVIOUS
<1>2. Without(list, ips) = Stay[N]
  BY DEF Without
<1>3. \A i \in 1 .. N : \A s \in Seq(E) : More(i, s) \in Seq(E)
  BY <1>1
<1> HIDE DEF N, More
<1>4. \E f : Is(f)
  <2> DEFINE V == Seq(E)
             none == <<>>
             G == [p \in Nat \X V |->
                      IF p[1] \in 1 .. N THEN More(p[1], p[2]) ELSE p[2]]
  <2>1. none \in V
    OBVIOUS
  <2>2. \A i \in 1 .. N : \A s \in V : More(i, s) \in V
    BY <1>3
  <2> HIDE DEF V
  <2>3. \A i \in 1 .. N : \A s \in V : G[<<i, s>>] = More(i, s)
    BY <1>1
  <2>4. G \in Makers(V)
    BY <2>2 DEF Makers
  <2> HIDE DEF G, none
  <2>5. PICK f \in [0 .. N -> V] :
          f[0] = none /\ \A i \in 1 .. N : f[i] = G[<<i, f[i - 1]>>]
    <3>1. Made(V, none, G, N) # {}
      BY <1>1, <2>1, <2>4, Recursion
    <3> QED  BY <3>1 DEF Made
  <2>6. ASSUME NEW i \in 1 .. N PROVE f[i] = More(i, f[i - 1])
    <3>1. i - 1 \in 0 .. N /\ f[i - 1] \in V
      BY <1>1, <2>5
    <3> QED  BY <2>3, <2>5, <3>1
  <2>7. Is(f)
    <3> DEFINE h == [i \in 0 .. N |-> IF i = 0 THEN <<>> ELSE More(i, f[i - 1])]
    <3>1. \A i \in 0 .. N : f[i] = h[i]
      BY <1>1, <2>5, <2>6 DEF none
    <3>2. f = [i \in 0 .. N |-> f[i]] /\ h = [i \in 0 .. N |-> h[i]]
      BY <2>5
    <3> HIDE DEF h
    <3>3. f = h
      BY <3>1, <3>2
    <3> QED  BY <3>3 DEF h
  <2> QED  BY <2>7
<1>5. Is(Stay)
  <2> HIDE DEF Is
  <2> QED  BY <1>4
<1> HIDE DEF Stay
<1>6. Stay[0] = <<>> /\ \A i \in 1 .. N : Stay[i] = More(i, Stay[i - 1])
  BY <1>1, <1>5
<1> HIDE DEF Is
<1> DEFINE Good(n) ==
             /\ Stay[n] \in Seq(E)
             /\ \A k \in DOMAIN Stay[n] : \E j \in 1 .. n : Stay[n][k] = list[j]
             /\ \A j \in 1 .. n : list[j].ip \notin ips =>
                   \E k \in DOMAIN Stay[n] : Stay[n][k] = list[j]
           S == {n \in Nat : n <= N => Good(n)}
<1>7. 0 \in S
  <2>1. Good(0)
    BY <1>6
  <2> QED  BY <2>1
<1>8. ASSUME NEW n \in Nat, n \in S PROVE n + 1 \in S
  <2> SUFFICES ASSUME n + 1 <= N PROVE Good(n + 1)
    OBVIOUS
  <2>1. Good(n) /\ n + 1 \in 1 .. N /\ list[n + 1] \in E /\ (n + 1) - 1 = n
    BY <1>1, <1>8
  <2>2. CASE list[n + 1].ip \in ips
    <3>1. Stay[n + 1] = Stay[n]
      BY <1>6, <2>1, <2>2 DEF More
    <3> QED  BY <2>1, <2>2, <3>1
  <2>3. CASE list[n + 1].ip \notin ips
    <3>1. Stay[n + 1] = Append(Stay[n], list[n + 1])
      BY <1>6, <2>1, <2>3 DEF More
    <3>2. /\ Stay[n + 1] \in Seq(E)
          /\ DOMAIN Stay[n + 1] = 1 .. Len(Stay[n]) + 1
          /\ Stay[n + 1][Len(Stay[n]) + 1] = list[n + 1]
          /\ \A k \in 1 .. Len(Stay[n]) : Stay[n + 1][k] = Stay[n][k]
      BY <2>1, <3>1
    <3>3. ASSUME NEW k \in DOMAIN Stay[n + 1]
          PROVE  \E j \in 1 .. n + 1 : Stay[n + 1][k] = list[j]
      <4>1. CASE k = Len(Stay[n]) + 1
        BY <3>2, <4>1
      <4>2. CASE k \in 1 .. Len(Stay[n])
        <5>1. k \in DOMAIN Stay[n]
          BY <2>1, <4>2
        <5>2. PICK j \in 1 .. n : Stay[n][k] = list[j]
          BY <2>1, <5>1
        <5>3. Stay[n + 1][k] = Stay[n][k]
          BY <3>2, <4>2
        <5>4. j \in 1 .. n + 1
          OBVIOUS
        <5> QED  BY <5>2, <5>3, <5>4
      <4>3. Len(Stay[n]) \in Nat
        BY <2>1
      <4> QED  BY <3>2, <4>1, <4>2, <4>3
    <3>4. ASSUME NEW j \in 1 .. n + 1, list[j].ip \notin ips
          PROVE  \E k \in DOMAIN Stay[n + 1] : Stay[n + 1][k] = list[j]
      <4>1. CASE j = n + 1
        <5>1. Len(Stay[n]) + 1 \in DOMAIN Stay[n + 1]
          BY <2>1, <3>2
        <5> QED  BY <3>2, <4>1, <5>1
      <4>2. CASE j # n + 1
        <5>1. PICK k \in DOMAIN Stay[n] : Stay[n][k] = list[j]
          BY <2>1, <3>4, <4>2
        <5>2. Len(Stay[n]) \in Nat /\ k \in 1 .. Len(Stay[n])
          BY <2>1, <5>1
        <5>3. k \in DOMAIN Stay[n + 1]
          BY <3>2, <5>2
        <5> QED  BY <3>2, <5>1, <5>2, <5>3
      <4> QED  BY <4>1, <4>2
    <3> QED  BY <3>2, <3>3, <3>4
  <2> QED  BY <2>2, <2>3
<1>9. Good(N)
  <2> HIDE DEF Good, S
  <2>1. \A n \in Nat : n \in S
    BY <1>7, <1>8, Induction
  <2> QED  BY <1>1, <2>1 DEF S
<1> QED  BY <1>1, <1>2, <1>9

\* The entry read at an address of a file.
EntryAt(f, i) == [ip |-> f[i].val, bw |-> f[i + 1].val]

\* An entry is put before others.
LEMMA Before ==
  ASSUME NEW E, NEW e \in E, NEW s \in Seq(E)
  PROVE  /\ <<e>> \o s \in Seq(E) /\ DOMAIN (<<e>> \o s) = 1 .. Len(s) + 1
         /\ (<<e>> \o s)[1] = e
         /\ \A k \in 1 .. Len(s) : (<<e>> \o s)[k + 1] = s[k]
  OBVIOUS

\* An entry is put behind others.
LEMMA Behind ==
  ASSUME NEW E, NEW e \in E, NEW s \in Seq(E)
  PROVE  /\ s \o <<e>> \in Seq(E) /\ Len(s \o <<e>>) = Len(s) + 1
         /\ DOMAIN (s \o <<e>>) = 1 .. Len(s) + 1
         /\ (s \o <<e>>)[Len(s) + 1] = e
         /\ \A k \in 1 .. Len(s) : (s \o <<e>>)[k] = s[k]
  OBVIOUS

\* Nothing is read but addresses that have a counter, and all of them where a
\* number is not taken for an address, if no address follows another.
LEMMA LoadReads ==
  ASSUME NEW f \in Seq(Tokens),
         \A i \in DOMAIN f : f[i].kind = "ip" /\ i < Len(f) => f[i + 1].kind # "ip"
  PROVE  /\ Load(f) \in Seq([ip : Nat, bw : Nat])
         /\ \A k \in DOMAIN Load(f) : \E i \in DOMAIN f :
               i < Len(f) /\ f[i].kind = "ip" /\ Load(f)[k] = EntryAt(f, i)
         /\ NumberLimit = 0 =>
               \A i \in DOMAIN f : i < Len(f) /\ f[i].kind = "ip" =>
                  \E k \in DOMAIN Load(f) : Load(f)[k] = EntryAt(f, i)
<1> DEFINE L == Len(f)
           E == [ip : Nat, bw : Nat]
           More(i, s, t) == IF ~IsAddress(f[i]) THEN s
                            ELSE IF i = L THEN <<>>
                            ELSE IF f[i].kind # "ip" THEN t
                            ELSE <<[ip |-> f[i].val, bw |-> f[i + 1].val]>> \o t
           Is(g) == g = [i \in 1 .. L + 1 |->
                          IF i > L THEN <<>> ELSE More(i, g[i + 1], g[i + 2])]
           From == CHOOSE g : Is(g)
<1>1. L \in Nat /\ DOMAIN f = 1 .. L /\ (\A i \in 1 .. L : f[i] \in Tokens)
  OBVIOUS
<1>2. Load(f) = From[1]
  BY DEF Load
<1>3. \A i \in 1 .. L - 1 : EntryAt(f, i) \in E
  <2> SUFFICES ASSUME NEW i \in 1 .. L - 1 PROVE EntryAt(f, i) \in E
    OBVIOUS
  <2>1. f[i] \in Tokens /\ f[i + 1] \in Tokens
    BY <1>1
  <2> QED  BY <2>1 DEF EntryAt, Tokens
<1> HIDE DEF L, E
<1>4. \A i \in 1 .. L : \A s, t \in Seq(E) :
        /\ f[i].kind # "ip" =>
              More(i, s, t) \in {s, IF i = L THEN <<>> ELSE t}
        /\ f[i].kind # "ip" /\ NumberLimit = 0 => More(i, s, t) = s
        /\ f[i].kind = "ip" =>
              More(i, s, t) = IF i = L THEN <<>> ELSE <<EntryAt(f, i)>> \o t
  <2> SUFFICES ASSUME NEW i \in 1 .. L, NEW s \in Seq(E), NEW t \in Seq(E)
               PROVE  /\ f[i].kind # "ip" =>
                            More(i, s, t) \in {s, IF i = L THEN <<>> ELSE t}
                      /\ f[i].kind # "ip" /\ NumberLimit = 0 => More(i, s, t) = s
                      /\ f[i].kind = "ip" =>
                            More(i, s, t) = IF i = L THEN <<>>
                                            ELSE <<EntryAt(f, i)>> \o t
    OBVIOUS
  <2>1. f[i].val \in Nat
    BY <1>1 DEF Tokens
  <2>2. f[i].kind # "ip" /\ NumberLimit = 0 => ~IsAddress(f[i])
    BY <2>1 DEF IsAddress
  <2>3. f[i].kind = "ip" => IsAddress(f[i])
    BY DEF IsAddress
  <2> QED  BY <2>2, <2>3 DEF EntryAt
<1>5. \A i \in 1 .. L : \A s, t \in Seq(E) : More(i, s, t) \in Seq(E)
  <2> SUFFICES ASSUME NEW i \in 1 .. L, NEW s \in Seq(E), NEW t \in Seq(E)
               PROVE  More(i, s, t) \in Seq(E)
    OBVIOUS
  <2>1. i # L => i \in 1 .. L - 1
    BY <1>1
  <2>2. i # L => <<EntryAt(f, i)>> \o t \in Seq(E)
    BY <1>3, <2>1, Before
  <2>3. <<>> \in Seq(E)
    OBVIOUS
  <2> HIDE DEF More
  <2> QED  BY <1>4, <2>2, <2>3
<1>6. \A s, t, u : More(L, s, t) = More(L, s, u)
  OBVIOUS
<1> HIDE DEF More
<1>7. \E g : Is(g)
  <2> DEFINE W == Seq(E)
             none == <<>>
             G == [p \in Nat \X (W \X W) |->
                      IF p[1] \in 1 .. L
                      THEN <<More(L + 1 - p[1], p[2][1], p[2][2]), p[2][1]>>
                      ELSE p[2]]
  <2>1. none \in W
    OBVIOUS
  <2>2. \A i \in 1 .. L : \A s, t \in W : More(i, s, t) \in W
    BY <1>5
  <2> HIDE DEF W, none
  <2>3. \A j \in 1 .. L : \A p \in W \X W :
          G[<<j, p>>] = <<More(L + 1 - j, p[1], p[2]), p[1]>>
    BY <1>1
  <2>4. ASSUME NEW n \in Nat, NEW p \in W \X W PROVE G[<<n, p>>] \in W \X W
    <3>1. CASE n \in 1 .. L
      <4>1. L + 1 - n \in 1 .. L
        BY <1>1, <3>1
      <4> HIDE DEF G
      <4> QED  BY <2>2, <2>3, <3>1, <4>1
    <3>2. CASE n \notin 1 .. L
      BY <3>2
    <3> QED  BY <3>1, <3>2
  <2>5. G \in Makers(W \X W)
    <3> DEFINE V == W \X W
    <3>1. G = [p \in Nat \X V |-> G[p]]
      OBVIOUS
    <3>2. \A n \in Nat : \A p \in V : G[<<n, p>>] \in V
      BY <2>4
    <3> HIDE DEF G, V
    <3>3. G \in Makers(V)
      BY <3>1, <3>2, MakesValues
    <3> QED  BY <3>3 DEF V
  <2> HIDE DEF G
  <2>6. PICK g \in [0 .. L -> W \X W] :
          g[0] = <<none, none>> /\ \A j \in 1 .. L : g[j] = G[<<j, g[j - 1]>>]
    <3> DEFINE V == W \X W   v == <<none, none>>
    <3>1. v \in V /\ G \in Makers(V)
      BY <2>1, <2>5
    <3> HIDE DEF V, v
    <3>2. Made(V, v, G, L) # {}
      BY <1>1, <3>1, Recursion
    <3> QED  BY <3>2 DEF Made, V, v
  <2> DEFINE h == [i \in 1 .. L + 1 |-> g[L + 1 - i][1]]
  <2>7. ASSUME NEW i \in 1 .. L PROVE h[i] = More(i, h[i + 1], h[i + 2])
    <3> DEFINE j == L + 1 - i
    <3>1. /\ j \in 1 .. L /\ j - 1 \in 0 .. L /\ L + 1 - j = i
          /\ L + 1 - (i + 1) = j - 1 /\ i \in 1 .. L + 1 /\ i + 1 \in 1 .. L + 1
          /\ g[j - 1] \in W \X W
      BY <1>1, <2>6
    <3>2. h[i] = More(i, g[j - 1][1], g[j - 1][2]) /\ h[i + 1] = g[j - 1][1]
      <4>1. g[j] = <<More(i, g[j - 1][1], g[j - 1][2]), g[j - 1][1]>>
        <5> HIDE DEF j
        <5>1. g[j] = G[<<j, g[j - 1]>>]
          BY <2>6, <3>1
        <5> QED  BY <2>3, <3>1, <5>1
      <4>2. h[i] = g[j][1] /\ h[i + 1] = g[j - 1][1]
        BY <3>1
      <4> QED  BY <4>1, <4>2
    <3>3. i # L => h[i + 2] = g[j - 1][2]
      <4> SUFFICES ASSUME i # L PROVE h[i + 2] = g[j - 1][2]
        OBVIOUS
      <4>1. /\ j - 1 \in 1 .. L /\ (j - 1) - 1 \in 0 .. L
            /\ i + 2 \in 1 .. L + 1 /\ L + 1 - (i + 2) = (j - 1) - 1
            /\ g[(j - 1) - 1] \in W \X W
        BY <1>1, <2>6
      <4>2. g[j - 1][2] = g[(j - 1) - 1][1]
        <5> DEFINE m == j - 1
        <5>1. m \in 1 .. L /\ g[m - 1] \in W \X W
          BY <4>1
        <5> HIDE DEF m
        <5>2. g[m] = G[<<m, g[m - 1]>>]
          BY <2>6, <5>1
        <5>3. g[m][2] = g[m - 1][1]
          BY <2>3, <5>1, <5>2
        <5> QED  BY <5>3 DEF m
      <4> QED  BY <4>1, <4>2
    <3> HIDE DEF h, j
    <3> QED  BY <1>6, <3>2, <3>3
  <2>8. h[L + 1] = <<>>
    BY <1>1, <2>6 DEF none
  <2>9. Is(h)
    <3> DEFINE k == [i \in 1 .. L + 1 |->
                       IF i > L THEN <<>> ELSE More(i, h[i + 1], h[i + 2])]
    <3>1. h = [i \in 1 .. L + 1 |-> h[i]]
      OBVIOUS
    <3> HIDE DEF h
    <3>2. \A i \in 1 .. L + 1 : h[i] = k[i]
      BY <1>1, <2>7, <2>8
    <3>3. k = [i \in 1 .. L + 1 |-> k[i]]
      OBVIOUS
    <3> HIDE DEF k
    <3>4. h = k
      BY <3>1, <3>2, <3>3
    <3> QED  BY <3>4 DEF k
  <2> QED  BY <2>9
<1>8. Is(From)
  <2> HIDE DEF Is
  <2> QED  BY <1>7
<1> HIDE DEF From
<1>9. From[L + 1] = <<>>
      /\ \A i \in 1 .. L : From[i] = More(i, From[i + 1], From[i + 2])
  BY <1>1, <1>8
<1> HIDE DEF Is
<1> DEFINE Good(i) ==
             /\ From[i] \in Seq(E)
             /\ \A k \in DOMAIN From[i] : \E j \in 1 .. L - 1 :
                   f[j].kind = "ip" /\ From[i][k] = EntryAt(f, j)
             /\ NumberLimit = 0 => \A j \in i .. L - 1 : f[j].kind = "ip" =>
                   \E k \in DOMAIN From[i] : From[i][k] = EntryAt(f, j)
           S == {n \in Nat : \A i \in 1 .. L + 1 : i >= L + 1 - n => Good(i)}
<1>10. 0 \in S
  <2>1. Good(L + 1)
    BY <1>1, <1>9
  <2>2. \A i \in 1 .. L + 1 : i >= L + 1 - 0 => i = L + 1
    BY <1>1
  <2> HIDE DEF Good
  <2> QED  BY <2>1, <2>2
<1>11. ASSUME NEW n \in Nat, n \in S PROVE n + 1 \in S
  <2> SUFFICES ASSUME NEW i \in 1 .. L + 1, i >= L + 1 - (n + 1) PROVE Good(i)
    OBVIOUS
  <2>1. CASE i >= L + 1 - n
    <3> HIDE DEF Good
    <3> QED  BY <1>11, <2>1
  <2>2. CASE ~(i >= L + 1 - n)
    <3>1. i \in 1 .. L /\ i + 1 \in 1 .. L + 1 /\ i + 1 >= L + 1 - n
          /\ (i < L => i + 2 \in 1 .. L + 1 /\ i + 2 >= L + 1 - n)
      BY <1>1, <2>2
    <3>2. Good(i + 1) /\ (i < L => Good(i + 2))
      <4> HIDE DEF Good
      <4> QED  BY <1>11, <3>1
    <3>3. CASE f[i].kind # "ip"
      <4>1. /\ From[i] = From[i + 1] \/ (i = L /\ From[i] = <<>>)
               \/ (i < L /\ From[i] = From[i + 2])
            /\ NumberLimit = 0 => From[i] = From[i + 1]
        <5>1. From[i] = More(i, From[i + 1], From[i + 2])
          BY <1>9, <3>1
        <5>2. NumberLimit = 0 => ~IsAddress(f[i])
          <6>1. f[i].val \in Nat
            BY <1>1, <3>1 DEF Tokens
          <6> QED  BY <3>3, <6>1 DEF IsAddress
        <5> HIDE DEF Good
        <5> QED  BY <1>1, <3>1, <3>3, <5>1, <5>2 DEF More
      <4>2. \A j \in i .. L - 1 : f[j].kind = "ip" => j \in i + 1 .. L - 1
        BY <1>1, <3>3
      <4>3. From[i] \in Seq(E) /\ \A k \in DOMAIN From[i] : \E j \in 1 .. L - 1 :
              f[j].kind = "ip" /\ From[i][k] = EntryAt(f, j)
        <5>1. CASE From[i] = From[i + 1]
          BY <3>2, <5>1
        <5>2. CASE i = L /\ From[i] = <<>>
          BY <5>2
        <5>3. CASE i < L /\ From[i] = From[i + 2]
          BY <3>2, <5>3
        <5> QED  BY <4>1, <5>1, <5>2, <5>3
      <4> QED  BY <3>2, <4>1, <4>2, <4>3
    <3>4. CASE f[i].kind = "ip" /\ i = L
      <4>1. From[i] = <<>>
        BY <1>9, <3>1, <3>4 DEF More, IsAddress
      <4> QED  BY <1>1, <3>4, <4>1
    <3>5. CASE f[i].kind = "ip" /\ i < L
      <4>1. From[i] = <<EntryAt(f, i)>> \o From[i + 2]
        <5>1. From[i + 1] \in Seq(E) /\ From[i + 2] \in Seq(E) /\ i # L
          BY <1>1, <3>1, <3>2, <3>5
        <5>2. From[i] = More(i, From[i + 1], From[i + 2])
          BY <1>9, <3>1
        <5> HIDE DEF Good
        <5> QED  BY <1>4, <3>1, <3>5, <5>1, <5>2
      <4>2. From[i + 2] \in Seq(E) /\ i \in 1 .. L - 1
        BY <1>1, <3>1, <3>2, <3>5
      <4>3. EntryAt(f, i) \in E
        BY <1>3, <4>2
      <4>4. /\ From[i] \in Seq(E) /\ DOMAIN From[i] = 1 .. Len(From[i + 2]) + 1
            /\ From[i][1] = EntryAt(f, i)
            /\ \A k \in 1 .. Len(From[i + 2]) : From[i][k + 1] = From[i + 2][k]
        BY <4>1, <4>2, <4>3, Before
      <4>5. Len(From[i + 2]) \in Nat /\ DOMAIN From[i + 2] = 1 .. Len(From[i + 2])
        BY <4>2
      <4>6. ASSUME NEW k \in DOMAIN From[i]
            PROVE  \E j \in 1 .. L - 1 :
                      f[j].kind = "ip" /\ From[i][k] = EntryAt(f, j)
        <5>1. CASE k = 1
          BY <3>5, <4>2, <4>4, <5>1
        <5>2. CASE k # 1
          <6>1. k \in 1 .. Len(From[i + 2]) + 1
            BY <4>4
          <6>2. k - 1 \in 1 .. Len(From[i + 2]) /\ (k - 1) + 1 = k
            BY <4>5, <5>2, <6>1
          <6>3. k - 1 \in DOMAIN From[i + 2] /\ From[i][k] = From[i + 2][k - 1]
            BY <4>4, <4>5, <6>2
          <6> QED  BY <3>2, <3>5, <6>3
        <5> QED  BY <5>1, <5>2
      <4>7. ASSUME NumberLimit = 0, NEW j \in i .. L - 1, f[j].kind = "ip"
            PROVE  \E k \in DOMAIN From[i] : From[i][k] = EntryAt(f, j)
        <5>1. CASE j = i
          <6>1. 1 \in DOMAIN From[i]
            BY <4>4, <4>5
          <6> QED  BY <4>4, <5>1, <6>1
        <5>2. CASE j # i
          <6>1. f[i + 1].kind # "ip"
            BY <1>1, <3>1, <3>5 DEF L
          <6>2. j \in i + 2 .. L - 1
            BY <1>1, <3>1, <4>7, <5>2, <6>1
          <6>3. PICK k \in DOMAIN From[i + 2] : From[i + 2][k] = EntryAt(f, j)
            BY <3>2, <3>5, <4>7, <6>2
          <6>4. k \in 1 .. Len(From[i + 2]) /\ k + 1 \in DOMAIN From[i]
            BY <4>4, <4>5
          <6> QED  BY <4>4, <6>3, <6>4
        <5> QED  BY <5>1, <5>2
      <4> QED  BY <4>4, <4>6, <4>7
    <3> QED  BY <1>1, <3>1, <3>3, <3>4, <3>5
  <2> QED  BY <2>1, <2>2
<1>12. Good(1)
  <2> HIDE DEF Good, S
  <2>1. L \in S
    BY <1>1, <1>10, <1>11, Induction
  <2> QED  BY <1>1, <2>1 DEF S
<1>13. \A i \in DOMAIN f : i < L => i \in 1 .. L - 1
  BY <1>1
<1>14. \A i \in 1 .. L - 1 : i \in DOMAIN f /\ i < L
  BY <1>1
<1>15. Load(f) \in Seq(E)
  BY <1>2, <1>12
<1>16. \A k \in DOMAIN Load(f) : \E i \in DOMAIN f :
         i < L /\ f[i].kind = "ip" /\ Load(f)[k] = EntryAt(f, i)
  BY <1>2, <1>12, <1>14
<1>17. NumberLimit = 0 => \A i \in DOMAIN f : i < L /\ f[i].kind = "ip" =>
         \E k \in DOMAIN Load(f) : Load(f)[k] = EntryAt(f, i)
  BY <1>2, <1>12, <1>13
<1> QED  BY <1>15, <1>16, <1>17 DEF L, E

-----------------------------------------------------------------------------
(* The steps of a backup.                                                   *)

\* What a step keeps whose variables it does not touch.
LEMMA SetFrame == ASSUME SetInv, UNCHANGED setVars PROVE SetInv'
  BY SetNextInv

\* A new query has its first request in the buffer.
LEMMA StartBackupInv == ASSUME IInv, StartBackup PROVE IInv'
<1>1. /\ backup = "idle" /\ restore \notin {"off", "set"} /\ backup' = "get"
      /\ pc' = "open" /\ request' = [ip |-> 0, index |-> 0, id |-> Rule]
      /\ reply' = [error |-> 0, total |-> 0, start |-> 0, ips |-> <<>>]
      /\ data' = <<>> /\ num_ips' = 0 /\ data_index' = 0 /\ error' = 0
      /\ UNCHANGED <<restore, table, usage, real, floor, excused, snap, file,
                     entries, setVars>>
  BY DEF StartBackup, Get!NoReply, Get!NoData, kernel, hist
<1>2. TypeOK'
  <2>1. request' \in Requests /\ reply' \in Replies /\ reply'.error = 0
    BY <1>1 DEF Requests, Replies, Tables
  <2> QED  BY <1>1, <2>1 DEF IInv, TypeOK
<1>3. SetInv' /\ (restore' = "set" => total' = Len(entries'))
  BY <1>1, SetFrame DEF IInv, setVars
<1>4. Querying'
  BY <1>1 DEF Querying
<1>5. Saving' /\ Honest'
  BY <1>1 DEF IInv, Saving, Honest, HonestFile
<1>6. Kept'
  BY <1>1 DEF IInv, Kept, FileKept, Holds, Restoring, Taken
<1> QED  BY <1>2, <1>3, <1>4, <1>5, <1>6 DEF IInv

\* A socket is made, or not.
LEMMA MakeSocketInv == ASSUME IInv, MakeSocket PROVE IInv'
<1>1. /\ backup = "get" /\ pc = "open" /\ pc' \in {"ask", "nosocket"}
      /\ UNCHANGED <<backup, restore, table, usage, real, floor, excused, snap,
                     file, entries, request, reply, data, num_ips, data_index,
                     error, setVars>>
  BY DEF MakeSocket, Get!Open, Get!NoSocket, Get!getVars, hist
<1>2. TypeOK'
  BY <1>1 DEF IInv, TypeOK
<1>3. SetInv' /\ (restore' = "set" => total' = Len(entries'))
  BY <1>1, SetFrame DEF IInv, setVars
<1>4. Querying'
  BY <1>1 DEF IInv, Querying
<1>5. Saving' /\ Honest'
  BY <1>1 DEF IInv, Saving, Honest, HonestFile
<1>6. Kept'
  BY <1>1 DEF IInv, Kept, FileKept, Holds, Restoring, Taken
<1> QED  BY <1>2, <1>3, <1>4, <1>5, <1>6 DEF IInv

\* A backup that is killed leaves the file as it is.
LEMMA QueryDiesInv == ASSUME IInv, QueryDies PROVE IInv'
<1>1. /\ backup = "get" /\ pc' = "died" /\ backup' = "idle"
      /\ UNCHANGED <<restore, table, usage, real, floor, excused, snap, file,
                     entries, request, reply, data, num_ips, data_index, error,
                     setVars>>
  BY DEF QueryDies, Get!AskFails, Get!getVars, hist
<1>2. TypeOK'
  BY <1>1 DEF IInv, TypeOK
<1>3. SetInv' /\ (restore' = "set" => total' = Len(entries'))
  BY <1>1, SetFrame DEF IInv, setVars
<1>4. Querying'
  BY <1>1 DEF IInv, Querying
<1>5. Saving' /\ Honest'
  BY <1>1 DEF IInv, Saving, Honest, HonestFile
<1>6. Kept'
  BY <1>1 DEF IInv, Kept, FileKept, Holds, Restoring, Taken
<1> QED  BY <1>2, <1>3, <1>4, <1>5, <1>6 DEF IInv

\* Products of the weight of a byte.
LEMMA Times ==
  ASSUME NEW a \in Nat, NEW b \in Nat PROVE a * b \in Nat /\ a * 0 = 0
  OBVIOUS

\* A buffer made of the fields of a reply.
LEMMA Fields ==
  ASSUME NEW ip \in Nat, NEW index \in Nat, NEW id \in {Rule, "", "number"}
  PROVE  [ip |-> ip, index |-> index, id |-> id] \in Requests
  BY DEF Requests

\* A query gets the first hosts in its first reply, and an error in its second.
LEMMA QueryInv == ASSUME IInv, Query PROVE IInv'
<1>1. /\ backup = "get" /\ pc = "ask" /\ pc' = "reply"
      /\ snap' = [table |-> table, usage |-> usage]
      /\ reply' = Get!Answer(request) /\ request' = Get!Overlay(reply')
      /\ error' = reply'.error
      /\ excused' = (excused \/ restore = "load")
      /\ UNCHANGED <<backup, restore, table, usage, real, floor, file, entries,
                     data, num_ips, data_index, setVars>>
  BY DEF Query, Get!Ask
<1>2. TypeOK /\ Querying
  BY DEF IInv
<1>3. ASSUME request = [ip |-> 0, index |-> 0, id |-> Rule], data_index = 0
      PROVE  /\ request' \in Requests /\ reply' \in Replies /\ request'.id # Rule
             /\ request'.index = 0 /\ reply'.error = 0
             /\ reply'.total = Len(table)
             /\ reply'.ips = SubSeq(table, 1,
                                    IF PerReply < Len(table) THEN PerReply
                                    ELSE Len(table))
  <2> DEFINE n == IF PerReply < Len(table) THEN PerReply ELSE Len(table)
             ips == SubSeq(table, 1, n)
  <2>1. table \in Seq(Hosts) /\ PerReply \in Nat
    BY <1>2, BackupAssumption DEF TypeOK, Tables
  <2>2. Len(table) \in Nat /\ n \in 0 .. Len(table)
    BY <2>1
  <2>3. ips \in Seq(Hosts)
    <3> HIDE DEF n
    <3> QED  BY <2>1, <2>2
  <2>4. Get!Answer(request) = [error |-> 0, total |-> Len(table), start |-> 0,
                               ips |-> ips]
    <3>1. request.id = Rule /\ request.ip = 0 /\ request.index = 0
      BY <1>3
    <3>2. 0 + 1 = 1 /\ 0 + PerReply = PerReply
      BY <2>1
    <3> QED  BY <3>1, <3>2 DEF Get!Answer
  <2> HIDE DEF ips, n
  <2> DEFINE t == Len(table)
  <2>5. t \in Nat /\ Byte \in Nat
    BY <2>2, BackupAssumption
  <2> HIDE DEF t
  <2>11. Byte * t \in Nat /\ Byte * 0 = 0
    BY <2>5, Times
  <2>6. reply' = [error |-> 0, total |-> t, start |-> 0, ips |-> ips]
    BY <1>1, <2>4 DEF t
  <2> DEFINE ip == Byte * t
             index == Byte * 0
             id == IF Len(ips) = 0 THEN "" ELSE "number"
  <2>12. ip \in Nat /\ index = 0
    BY <2>11
  <2>13. id \in {"", "number"}
    OBVIOUS
  <2>7. request' = [ip |-> ip, index |-> index, id |-> id]
    <3>1. request' = [ip |-> reply'.error + Byte * reply'.total,
                      index |-> Byte * reply'.start,
                      id |-> IF Len(reply'.ips) = 0 THEN "" ELSE "number"]
      BY <1>1 DEF Get!Overlay
    <3>2. /\ reply'.error = 0 /\ reply'.total = t /\ reply'.start = 0
          /\ reply'.ips = ips
      BY <2>6
    <3>3. request' = [ip |-> 0 + ip, index |-> index, id |-> id]
      BY <3>1, <3>2
    <3>4. 0 + ip = ip
      <4> HIDE DEF ip
      <4> QED  BY <2>12
    <3> HIDE DEF ip, index, id
    <3> QED  BY <3>3, <3>4
  <2> HIDE DEF ip, index, id
  <2>8. id \in {Rule, "", "number"} /\ index \in Nat
    BY <2>12, <2>13
  <2>14. request' \in Requests
    BY <2>7, <2>8, <2>12, Fields
  <2>15. request'.id \in {"", "number"} /\ request'.index = 0
    <3>1. request'.id = id /\ request'.index = index
      BY <2>7
    <3> QED  BY <2>12, <2>13, <3>1
  <2>9. Rule \notin {"", "number"}
    BY BackupAssumption
  <2>10. reply' \in Replies
    BY <2>3, <2>5, <2>6 DEF Replies, Tables
  <2> QED  BY <2>6, <2>9, <2>10, <2>14, <2>15 DEF ips, n, t
<1>4. ASSUME request.id # Rule
      PROVE  request' \in Requests /\ reply' \in Replies /\ reply'.error = 1
  <2>1. reply' = [error |-> 1, total |-> 0, start |-> 0, ips |-> <<>>]
    BY <1>1, <1>4 DEF Get!Answer, Get!NoReply
  <2> DEFINE b == Byte * 0
  <2>2. b = 0
    BY Times, BackupAssumption
  <2>3. request' = [ip |-> 1 + b, index |-> b, id |-> ""]
    <3>1. request' = [ip |-> reply'.error + Byte * reply'.total,
                      index |-> Byte * reply'.start,
                      id |-> IF Len(reply'.ips) = 0 THEN "" ELSE "number"]
      BY <1>1 DEF Get!Overlay
    <3>2. /\ reply'.error = 1 /\ reply'.total = 0 /\ reply'.start = 0
          /\ reply'.ips = <<>>
      BY <2>1
    <3> QED  BY <3>1, <3>2
  <2> HIDE DEF b
  <2>4. 1 + b \in Nat /\ b \in Nat
    BY <2>2
  <2>5. request' \in Requests
    BY <2>3, <2>4, Fields
  <2>6. reply' \in Replies
    <3>1. <<>> \in Tables
      BY DEF Tables
    <3> QED  BY <2>1, <3>1 DEF Replies
  <2> QED  BY <2>1, <2>5, <2>6
<1>5. TypeOK' /\ Querying'
  <2>1. request' \in Requests /\ reply' \in Replies
    BY <1>1, <1>2, <1>3, <1>4 DEF Querying
  <2>2. TypeOK'
    BY <1>1, <1>2, <2>1 DEF TypeOK
  <2>3. Querying'
    BY <1>1, <1>2, <1>3, <1>4 DEF Querying
  <2> QED  BY <2>2, <2>3
<1>6. SetInv' /\ (restore' = "set" => total' = Len(entries'))
  BY <1>1, SetFrame DEF IInv, setVars
<1>7. Saving' /\ Honest'
  BY <1>1 DEF IInv, Saving, Honest, HonestFile
<1>8. Kept'
  <2> SUFFICES ASSUME NumberLimit = 0, ~excused' PROVE FileKept' /\ Restoring'
    BY DEF Kept
  <2>1. ~excused /\ restore = "idle"
    BY <1>1, <1>2 DEF IInv, Kept, Restoring, TypeOK
  <2>2. \A h \in Hosts : usage[h] >= usage[h]
    BY <1>2 DEF TypeOK, Counts
  <2> QED
    BY <1>1, <2>1, <2>2 DEF IInv, Kept, FileKept, Holds, Restoring
<1> QED  BY <1>5, <1>6, <1>7, <1>8 DEF IInv

\* A reply that holds all hosts ends the query, and so does an error.
LEMMA StoreReplyInv == ASSUME IInv, StoreReply PROVE IInv'
<1>1. /\ backup = "get" /\ pc = "reply"
      /\ UNCHANGED <<backup, restore, table, usage, real, floor, excused, snap,
                     file, entries, reply, error, setVars>>
  BY DEF StoreReply, Get!ReplyData, Get!ReplyError, hist
<1>2. TypeOK /\ Querying
  BY DEF IInv
<1>3. ASSUME error = 0
      PROVE  TypeOK' /\ Querying'
  <2> DEFINE T == Len(snap.table)
             n == IF PerReply < T THEN PerReply ELSE T
  <2>1. /\ data_index = 0 /\ request.index = 0 /\ request.id # Rule
        /\ reply.total = T /\ reply.ips = SubSeq(snap.table, 1, n)
    BY <1>1, <1>2, <1>3 DEF Querying
  <2>2. snap.table \in Seq(Hosts) /\ PerReply \in Nat
    BY <1>2, BackupAssumption DEF TypeOK, Tables
  <2>3. T \in Nat /\ n \in 0 .. T
    BY <2>2
  <2> HIDE DEF n
  <2>4. Len(reply.ips) = n /\ \A i \in 1 .. n : reply.ips[i] = snap.table[i]
    BY <2>1, <2>2, <2>3
  <2>5. snap.table = [i \in 1 .. T |-> snap.table[i]]
    BY <2>2
  <2> HIDE DEF T
  <2>6. /\ num_ips' = T /\ data_index' = 0 + n
        /\ data' = [i \in 1 .. T |-> IF i > 0 /\ i <= 0 + n
                                     THEN reply.ips[i - 0] ELSE 0]
        /\ request' = [request EXCEPT !.index = 0 + n]
        /\ pc' = IF 0 + n < T THEN "ask" ELSE "done"
    BY <1>1, <1>3, <2>1, <2>4 DEF StoreReply, Get!ReplyData, Get!ReplyError
  <2>7. data_index' = n /\ Len(data') = T /\ pc' = IF n < T THEN "ask" ELSE "done"
    BY <2>3, <2>6
  <2>8. pc' = "done" => data' = snap.table
    <3> SUFFICES ASSUME pc' = "done" PROVE data' = snap.table
      OBVIOUS
    <3>1. n = T
      BY <2>3, <2>7
    <3>2. \A i \in 1 .. T : data'[i] = snap.table[i]
      BY <2>3, <2>4, <2>6, <3>1
    <3>3. data' = [i \in 1 .. T |-> data'[i]]
      BY <2>6
    <3> QED  BY <2>5, <3>2, <3>3
  <2>12. 0 + n = n /\ n \in Nat
    BY <2>3
  <2>9. request' \in Requests /\ request'.id # Rule
    <3>1. PICK ip \in Nat, index \in Nat, id \in {Rule, "", "number"} :
            request = [ip |-> ip, index |-> index, id |-> id]
      BY <1>2 DEF TypeOK, Requests
    <3>7. request.id = id
      BY <3>1
    <3>8. id # Rule
      BY <2>1, <3>7
    <3>2. id # Rule /\ 0 + n = n /\ n \in Nat
      BY <2>12, <3>8
    <3>3. request'= [[ip |-> ip, index |-> index, id |-> id]
                      EXCEPT !.index = 0 + n]
      BY <2>6, <3>1
    <3>4. request' = [ip |-> ip, index |-> n, id |-> id]
      BY <3>2, <3>3
    <3>5. request' \in Requests
      BY <3>1, <3>2, <3>4, Fields
    <3>6. request'.id = id
      BY <3>4
    <3> QED  BY <3>2, <3>5, <3>6
  <2>10. TypeOK'
    BY <1>1, <1>2, <2>3, <2>7, <2>9 DEF TypeOK
  <2>11. Querying'
    <3>1. data_index' <= Len(data')
      BY <2>3, <2>7
    <3> QED  BY <1>1, <2>6, <2>7, <2>8, <2>9, <3>1 DEF Querying
  <2> QED  BY <2>10, <2>11
<1>4. ASSUME error # 0
      PROVE  TypeOK' /\ Querying'
  <2>1. pc' = "done" /\ UNCHANGED <<request, data, num_ips, data_index>>
    BY <1>4 DEF StoreReply, Get!ReplyData, Get!ReplyError
  <2>2. TypeOK' /\ Querying'
    BY <1>1, <1>2, <1>4, <2>1 DEF TypeOK, Querying
  <2> QED  BY <2>2
<1>5. TypeOK' /\ Querying'
  BY <1>3, <1>4
<1>6. SetInv' /\ (restore' = "set" => total' = Len(entries'))
  BY <1>1, SetFrame DEF IInv, setVars
<1>7. Saving' /\ Honest'
  BY <1>1 DEF IInv, Saving, Honest, HonestFile
<1>8. Kept'
  BY <1>1 DEF IInv, Kept, FileKept, Holds, Restoring, Taken
<1> QED  BY <1>5, <1>6, <1>7, <1>8 DEF IInv

\* A query that failed leaves the file as it is.
LEMMA QueryFailedInv == ASSUME IInv, QueryFailed PROVE IInv'
<1>1. /\ backup = "get" /\ backup' = "idle"
      /\ UNCHANGED <<restore, table, usage, real, floor, excused, snap, file,
                     entries, pc, request, reply, data, num_ips, data_index,
                     error, setVars>>
  BY DEF QueryFailed, kernel, hist, getVars
<1>2. TypeOK'
  BY <1>1 DEF IInv, TypeOK
<1>3. SetInv' /\ (restore' = "set" => total' = Len(entries'))
  BY <1>1, SetFrame DEF IInv, setVars
<1>4. Querying'
  BY <1>1 DEF IInv, Querying
<1>5. Saving' /\ Honest'
  BY <1>1 DEF IInv, Saving, Honest, HonestFile
<1>6. Kept'
  BY <1>1 DEF IInv, Kept, FileKept, Holds, Restoring, Taken
<1> QED  BY <1>2, <1>3, <1>4, <1>5, <1>6 DEF IInv

\* What an opened file holds.
Time == [kind |-> "time", val |-> 0]

LEMMA TimeOnly ==
  /\ <<Time>> \in Seq(Tokens) /\ Len(<<Time>>) = 1 /\ <<Time>>[1] = Time
  /\ DOMAIN <<Time>> = 1 .. 1 /\ Time.kind = "time"
<1>1. Time \in Tokens /\ Time.kind = "time"
  BY DEF Time, Tokens
<1> QED  BY <1>1

\* An emptied file has the time.
LEMMA OpenFileInv == ASSUME IInv, OpenFile PROVE IInv'
<1>1. /\ backup = "get" /\ pc \in {"done", "nosocket"} /\ error = 0
      /\ backup' = "save"
      /\ file' = [exists |-> TRUE, tokens |-> <<Time>>]
      /\ excused' = (excused \/ pc = "nosocket")
      /\ UNCHANGED <<restore, table, usage, real, floor, snap, entries,
                     pc, request, reply, data, num_ips, data_index, error,
                     setVars>>
  BY DEF OpenFile, kernel, getVars, Time
<1>2. /\ file'.exists = TRUE /\ file'.tokens = <<Time>>
      /\ file' = [exists |-> file'.exists, tokens |-> file'.tokens]
  BY <1>1
<1>3. TypeOK'
  <2>1. file'.tokens \in Seq(Tokens)
    BY <1>2, TimeOnly
  <2>2. file'.exists \in BOOLEAN
    BY <1>2
  <2> QED  BY <1>1, <1>2, <2>1, <2>2 DEF IInv, TypeOK
<1>4. SetInv' /\ (restore' = "set" => total' = Len(entries'))
  BY <1>1, SetFrame DEF IInv, setVars
<1>5. Querying'
  BY <1>1 DEF IInv, Querying
<1>6. Saving'
  <2>1. num_ips \in {0, Len(snap.table)} /\ snap.table \in Seq(Hosts)
    BY <1>1 DEF IInv, TypeOK, Querying, Tables
  <2>2. num_ips \in Nat
    BY <2>1
  <2>3. Len(file'.tokens) = 1 /\ file'.tokens[1] = Time
    BY <1>2, TimeOnly
  <2>4. 1 \in 1 .. 2 * num_ips' + 1 /\ 2 .. 1 = {}
    BY <1>1, <2>2
  <2> QED  BY <1>1, <1>2, <2>3, <2>4 DEF Saving, Time
<1>7. Honest'
  <2>1. HonestFile(file.tokens)'
    <3>1. \A i \in DOMAIN file'.tokens : file'.tokens[i].kind # "ip"
      BY <1>2, TimeOnly
    <3> QED  BY <3>1 DEF HonestFile
  <2> QED  BY <1>1, <2>1 DEF IInv, Honest
<1>8. Kept'
  BY <1>1 DEF IInv, Kept, FileKept, Restoring, Taken
<1> QED  BY <1>3, <1>4, <1>5, <1>6, <1>7, <1>8 DEF IInv

\* The number of an entry from that of its tokens, and back.
LEMMA Halves ==
  ASSUME NEW n \in Nat, NEW k \in 2 .. 2 * n + 1
  PROVE  /\ k \div 2 \in 1 .. n /\ k % 2 \in {0, 1}
         /\ k % 2 = 0 => /\ k + 1 \in 2 .. 2 * n + 1
                         /\ (k + 1) % 2 = 1 /\ (k + 1) \div 2 = k \div 2
  OBVIOUS

LEMMA Doubles ==
  ASSUME NEW n \in Nat, NEW i \in 1 .. n
  PROVE  /\ 2 * i \in 2 .. 2 * n + 1
         /\ (2 * i) % 2 = 0 /\ (2 * i) \div 2 = i
  OBVIOUS

\* The tokens a backup writes: addresses and counters in turn.
LEMMA TokenIs ==
  ASSUME TypeOK, Querying, pc \in {"done", "nosocket"},
         pc = "done" => error = 0
  PROVE  /\ num_ips \in Nat /\ num_ips = Len(data)
         /\ \A j \in 1 .. num_ips : data[j] \in Hosts
         /\ \A k \in 2 .. 2 * num_ips + 1 :
               /\ k % 2 = 0 => /\ Token(k).kind = "ip"
                               /\ Token(k).val = data[k \div 2]
               /\ k % 2 # 0 => /\ Token(k).kind = "bw"
                               /\ Token(k).val = snap.usage[data[k \div 2]]
               /\ Token(k) \in Tokens
<1>1. /\ data = snap.table \/ data = <<>>
      /\ num_ips = Len(data)
      /\ snap.table \in Seq(Hosts) /\ snap.usage \in [Hosts -> Nat]
  <2>1. Len(<<>>) = 0
    OBVIOUS
  <2> QED  BY <2>1 DEF TypeOK, Querying, Tables, Counts
<1>2. data \in Seq(Hosts) /\ num_ips \in Nat
  <2>1. CASE data = snap.table
    BY <1>1, <2>1
  <2>2. CASE data = <<>>
    BY <1>1, <2>2
  <2> QED  BY <1>1, <2>1, <2>2
<1>3. \A j \in 1 .. num_ips : data[j] \in Hosts
  BY <1>1, <1>2
<1>4. ASSUME NEW k \in 2 .. 2 * num_ips + 1
      PROVE  /\ k % 2 = 0 => /\ Token(k).kind = "ip"
                             /\ Token(k).val = data[k \div 2]
             /\ k % 2 # 0 => /\ Token(k).kind = "bw"
                             /\ Token(k).val = snap.usage[data[k \div 2]]
             /\ Token(k) \in Tokens
  <2> DEFINE h == data[k \div 2]
             b == snap.usage[h]
  <2>1. h \in Hosts
    BY <1>2, <1>3, Halves
  <2>2. h \in Nat /\ b \in Nat
    BY <1>1, <2>1, BackupAssumption
  <2>3. Token(k) = IF k % 2 = 0 THEN [kind |-> "ip", val |-> h]
                   ELSE [kind |-> "bw", val |-> b]
    BY DEF Token
  <2> HIDE DEF h, b
  <2>4. CASE k % 2 = 0
    <3>1. Token(k) = [kind |-> "ip", val |-> h]
      BY <2>3, <2>4
    <3>2. Token(k) \in Tokens /\ Token(k).kind = "ip" /\ Token(k).val = h
      BY <2>2, <3>1 DEF Tokens
    <3> QED  BY <2>4, <3>2 DEF h
  <2>5. CASE k % 2 # 0
    <3>1. Token(k) = [kind |-> "bw", val |-> b]
      BY <2>3, <2>5
    <3>2. Token(k) \in Tokens /\ Token(k).kind = "bw" /\ Token(k).val = b
      BY <2>2, <3>1 DEF Tokens
    <3> QED  BY <2>5, <3>2 DEF h, b
  <2> QED  BY <2>4, <2>5
<1> QED  BY <1>1, <1>2, <1>3, <1>4

\* What a backup has written so far is a file with no counter too high.
Written(f) ==
    /\ Len(f) \in 1 .. 2 * num_ips + 1
    /\ f[1] = Time
    /\ \A k \in 2 .. Len(f) : f[k] = Token(k)

LEMMA WrittenHonest ==
  ASSUME TypeOK, Querying, pc \in {"done", "nosocket"}, pc = "done" => error = 0,
         \A h \in Hosts : snap.usage[h] <= real[h],
         NEW f \in Seq(Tokens), Written(f)
  PROVE  HonestFile(f)
<1>1. /\ num_ips \in Nat
      /\ \A j \in 1 .. num_ips : data[j] \in Hosts
      /\ \A k \in 2 .. 2 * num_ips + 1 :
            /\ k % 2 = 0 => Token(k).kind = "ip" /\ Token(k).val = data[k \div 2]
            /\ k % 2 # 0 => /\ Token(k).kind = "bw"
                            /\ Token(k).val = snap.usage[data[k \div 2]]
  BY TokenIs
<1>2. Len(f) \in 1 .. 2 * num_ips + 1 /\ DOMAIN f = 1 .. Len(f)
      /\ f[1].kind = "time" /\ \A k \in 2 .. Len(f) : f[k] = Token(k)
  BY TimeOnly DEF Written
<1> SUFFICES ASSUME NEW i \in DOMAIN f, f[i].kind = "ip"
             PROVE  /\ f[i].val \in Hosts
                    /\ i < Len(f) => /\ f[i + 1].kind # "ip"
                                     /\ f[i + 1].val <= real[f[i].val]
  BY DEF HonestFile
<1>3. i \in 2 .. Len(f) /\ i \in 2 .. 2 * num_ips + 1
  BY <1>1, <1>2
<1>4. i % 2 = 0 /\ f[i].val = data[i \div 2]
  BY <1>1, <1>2, <1>3
<1>5. /\ data[i \div 2] \in Hosts
      /\ i + 1 \in 2 .. 2 * num_ips + 1
      /\ (i + 1) % 2 = 1 /\ (i + 1) \div 2 = i \div 2
  BY <1>1, <1>3, <1>4, Halves
<1>6. ASSUME i < Len(f)
      PROVE  f[i + 1].kind = "bw" /\ f[i + 1].val = snap.usage[data[i \div 2]]
  <2>1. i + 1 \in 2 .. Len(f)
    BY <1>2, <1>3, <1>6
  <2>2. f[i + 1] = Token(i + 1)
    BY <1>2, <2>1
  <2> DEFINE k == i + 1
  <2>3. k \in 2 .. 2 * num_ips + 1 /\ k % 2 # 0 /\ k \div 2 = i \div 2
    BY <1>5
  <2> HIDE DEF k
  <2>4. Token(k).kind = "bw" /\ Token(k).val = snap.usage[data[i \div 2]]
    BY <1>1, <2>3
  <2> QED  BY <2>2, <2>4 DEF k
<1> QED  BY <1>4, <1>5, <1>6

\* The file grows by a token.
LEMMA WriteTokenInv == ASSUME IInv, WriteToken PROVE IInv'
<1> DEFINE f == file.tokens
           L == Len(f)
           t == Token(L + 1)
<1>1. /\ backup = "save" /\ L < 2 * num_ips + 1
      /\ file' = [file EXCEPT !.tokens = Append(f, t)]
      /\ UNCHANGED <<backup, restore, table, usage, real, floor, excused, snap,
                     entries, pc, request, reply, data, num_ips, data_index,
                     error, setVars>>
  BY DEF WriteToken, kernel, hist, getVars
<1>2. TypeOK /\ Querying /\ Saving /\ Honest
  BY DEF IInv
<1>3. /\ pc \in {"done", "nosocket"} /\ (pc = "done" => error = 0)
      /\ file.exists = TRUE
      /\ L \in 1 .. 2 * num_ips + 1 /\ f[1] = Time
      /\ \A k \in 2 .. L : f[k] = Token(k)
  BY <1>1, <1>2 DEF Saving, TypeOK, Time
<1>4. f \in Seq(Tokens) /\ file = [exists |-> TRUE, tokens |-> f]
  BY <1>2, <1>3 DEF TypeOK
<1>5. num_ips \in Nat /\ t \in Tokens
  <2>1. num_ips \in Nat /\ \A k \in 2 .. 2 * num_ips + 1 : Token(k) \in Tokens
    BY <1>2, <1>3, TokenIs
  <2>2. L + 1 \in 2 .. 2 * num_ips + 1
    BY <1>1, <1>3, <2>1
  <2> QED  BY <2>1, <2>2
<1> HIDE DEF t
<1>6. /\ Append(f, t) \in Seq(Tokens) /\ Len(Append(f, t)) = L + 1
      /\ Append(f, t)[L + 1] = t /\ \A k \in 1 .. L : Append(f, t)[k] = f[k]
  BY <1>4, <1>5
<1>7. /\ file'.exists = TRUE /\ file'.tokens = Append(f, t)
      /\ file' = [exists |-> file'.exists, tokens |-> file'.tokens]
  <2> DEFINE g == Append(f, t)
  <2>1. file' = [[exists |-> TRUE, tokens |-> f] EXCEPT !.tokens = g]
    BY <1>1, <1>4
  <2> HIDE DEF g, f
  <2>2. file' = [exists |-> TRUE, tokens |-> g]
    BY <2>1
  <2> QED  BY <2>2 DEF g
<1>8. Written(file'.tokens)
  <2> HIDE DEF f
  <2>1. L \in Nat /\ L + 1 \in 1 .. 2 * num_ips + 1 /\ 1 \in 1 .. L
    BY <1>1, <1>3, <1>5
  <2>2. Append(f, t)[1] = Time
    BY <1>3, <1>6, <2>1
  <2>3. ASSUME NEW k \in 2 .. L + 1 PROVE Append(f, t)[k] = Token(k)
    <3>1. CASE k = L + 1
      BY <1>6, <3>1 DEF t
    <3>2. CASE k # L + 1
      <4>1. k \in 2 .. L /\ k \in 1 .. L
        BY <2>1, <3>2
      <4> QED  BY <1>3, <1>6, <4>1
    <3> QED  BY <3>1, <3>2
  <2> QED  BY <1>6, <1>7, <2>1, <2>2, <2>3 DEF Written
<1> HIDE DEF f, L
<1>9. TypeOK'
  <2>1. file'.tokens \in Seq(Tokens) /\ file'.exists \in BOOLEAN
    BY <1>6, <1>7
  <2> QED  BY <1>1, <1>2, <1>7, <2>1 DEF TypeOK
<1>10. SetInv' /\ (restore' = "set" => total' = Len(entries'))
  BY <1>1, SetFrame DEF IInv, setVars
<1>11. Querying'
  BY <1>1, <1>2 DEF Querying
<1>12. Saving'
  <2>1. pc = "nosocket" => excused
    BY <1>1, <1>2 DEF Saving
  <2> QED  BY <1>1, <1>3, <1>7, <1>8, <2>1 DEF Saving, Written, Time, Token
<1>13. Honest'
  <2>1. HonestFile(file'.tokens)
    <3>1. \A h \in Hosts : snap.usage[h] <= real[h]
      BY <1>2 DEF Honest
    <3>2. file'.tokens \in Seq(Tokens)
      BY <1>6, <1>7
    <3> QED  BY <1>2, <1>3, <1>8, <3>1, <3>2, WrittenHonest
  <2>2. HonestFile(file.tokens)'
    BY <1>1, <2>1 DEF HonestFile
  <2> QED  BY <1>1, <1>2, <2>2 DEF Honest
<1>14. Kept'
  BY <1>1 DEF IInv, Kept, FileKept, Restoring, Taken
<1> QED  BY <1>9, <1>10, <1>11, <1>12, <1>13, <1>14 DEF IInv

\* The file that is closed holds the counters of the query.
LEMMA CloseFileInv == ASSUME IInv, CloseFile PROVE IInv'
<1> DEFINE f == file.tokens
           n == num_ips
<1>1. /\ backup = "save" /\ Len(f) = 2 * n + 1 /\ backup' = "idle"
      /\ floor' = IF pc = "nosocket" THEN floor
                  ELSE [h \in Hosts |->
                          IF Contains(data, h) THEN snap.usage[h] ELSE 0]
      /\ UNCHANGED <<restore, table, usage, real, excused, snap, file,
                     entries, pc, request, reply, data, num_ips, data_index,
                     error, setVars>>
  BY DEF CloseFile, kernel, getVars
<1>2. TypeOK /\ Querying /\ Saving /\ Honest
  BY DEF IInv
<1>3. /\ pc \in {"done", "nosocket"} /\ (pc = "done" => error = 0)
      /\ file.exists = TRUE /\ f[1] = Time
      /\ \A k \in 2 .. Len(f) : f[k] = Token(k)
  BY <1>1, <1>2 DEF Saving, TypeOK, Time
<1>4. f \in Seq(Tokens) /\ snap.usage \in [Hosts -> Nat]
  BY <1>2 DEF TypeOK, Counts
<1>5. /\ n \in Nat /\ n = Len(data)
      /\ \A j \in 1 .. n : data[j] \in Hosts
      /\ \A k \in 2 .. 2 * n + 1 :
            /\ k % 2 = 0 => Token(k).kind = "ip" /\ Token(k).val = data[k \div 2]
            /\ k % 2 # 0 => /\ Token(k).kind = "bw"
                            /\ Token(k).val = snap.usage[data[k \div 2]]
  BY <1>2, <1>3, TokenIs
<1> HIDE DEF n
<1>6. DOMAIN f = 1 .. 2 * n + 1 /\ f[1].kind = "time"
  BY <1>1, <1>3, <1>4, TimeOnly
<1>7. ASSUME pc = "done"
      PROVE  \A h \in Hosts :
                       /\ floor'[h] \in Nat /\ floor'[h] <= snap.usage[h]
                       /\ floor'[h] > 0 => \E j \in 1 .. n : data[j] = h
  <2> SUFFICES ASSUME NEW h \in Hosts
               PROVE  /\ floor'[h] \in Nat /\ floor'[h] <= snap.usage[h]
                      /\ floor'[h] > 0 => \E j \in 1 .. n : data[j] = h
    OBVIOUS
  <2>1. snap.usage[h] \in Nat
    BY <1>4
  <2>2. Contains(data, h) <=> \E j \in 1 .. n : data[j] = h
    BY <1>5 DEF Contains
  <2>3. floor'[h] = IF Contains(data, h) THEN snap.usage[h] ELSE 0
    BY <1>1, <1>7
  <2> QED  BY <2>1, <2>2, <2>3
<1>8. TypeOK'
  <2>1. floor' \in Counts
    <3>1. CASE pc = "done"
      <4>1. floor' = [h \in Hosts |-> floor'[h]]
        BY <1>1, <3>1
      <4> QED  BY <1>7, <3>1, <4>1 DEF Counts
    <3>2. CASE pc = "nosocket"
      BY <1>1, <1>2, <3>2 DEF TypeOK
    <3> QED  BY <1>3, <3>1, <3>2
  <2> QED  BY <1>1, <1>2, <2>1 DEF TypeOK
<1>9. SetInv' /\ (restore' = "set" => total' = Len(entries'))
  BY <1>1, SetFrame DEF IInv, setVars
<1>10. Querying'
  BY <1>1, <1>2 DEF Querying
<1>11. Saving' /\ Honest'
  BY <1>1, <1>2 DEF Saving, Honest, HonestFile
<1>12. ASSUME pc = "done" PROVE Holds(f)'
  <2>1. ASSUME NEW i \in DOMAIN f, f[i].kind = "ip"
        PROVE  i < Len(f) /\ f[i + 1].val >= floor'[f[i].val]
    <3>1. i \in 2 .. 2 * n + 1 /\ f[i] = Token(i)
      BY <1>1, <1>3, <1>5, <1>6, <2>1
    <3>2. i % 2 = 0 /\ f[i].val = data[i \div 2]
      BY <1>5, <2>1, <3>1
    <3> DEFINE k == i + 1
    <3>3. /\ data[i \div 2] \in Hosts
          /\ k \in 2 .. 2 * n + 1 /\ k % 2 # 0 /\ k \div 2 = i \div 2
      BY <1>5, <3>1, <3>2, Halves
    <3> HIDE DEF k
    <3>4. f[k] = Token(k) /\ Token(k).val = snap.usage[data[i \div 2]]
      BY <1>1, <1>3, <1>5, <3>3
    <3>5. snap.usage[data[i \div 2]] >= floor'[data[i \div 2]]
      BY <1>4, <1>7, <1>12, <3>3
    <3>6. i < Len(f)
      BY <1>1, <1>5, <3>1, <3>3 DEF k
    <3> QED  BY <3>2, <3>4, <3>5, <3>6 DEF k
  <2>2. ASSUME NEW h \in Hosts, floor'[h] > 0
        PROVE  \E i \in DOMAIN f : f[i].kind = "ip" /\ f[i].val = h
    <3>1. PICK j \in 1 .. n : data[j] = h
      BY <1>7, <1>12, <2>2
    <3> DEFINE k == 2 * j
    <3>2. k \in 2 .. 2 * n + 1 /\ k % 2 = 0 /\ k \div 2 = j
      BY <1>5, Doubles
    <3> HIDE DEF k
    <3>3. k \in DOMAIN f /\ f[k] = Token(k)
      BY <1>1, <1>3, <1>5, <1>6, <3>2
    <3> QED  BY <1>5, <3>1, <3>2, <3>3
  <2> QED  BY <1>1, <2>1, <2>2 DEF Holds
<1>13. Kept'
  <2> SUFFICES ASSUME NumberLimit = 0, ~excused' PROVE FileKept' /\ Restoring'
    BY DEF Kept
  <2>1. Restoring /\ pc = "done"
    BY <1>1, <1>2, <1>3 DEF IInv, Kept, Saving
  <2>2. FileKept'
    BY <1>1, <1>3, <1>12, <2>1 DEF FileKept, Holds
  <2>3. Restoring'
    <3>1. restore' \notin {"off", "set"} /\ ~Taken'
      BY <1>1, <2>1 DEF Restoring, Taken
    <3>2. ASSUME restore' = "idle", NEW h \in Hosts PROVE usage'[h] >= floor'[h]
      <4>1. usage[h] >= snap.usage[h]
        BY <1>1, <2>1, <3>2 DEF Restoring, Taken
      <4>2. usage[h] \in Nat
        BY <1>2 DEF TypeOK, Counts
      <4> QED  BY <1>1, <1>4, <1>7, <2>1, <4>1, <4>2
    <3> QED  BY <3>1, <3>2 DEF Restoring
  <2> QED  BY <2>2, <2>3
<1> QED  BY <1>8, <1>9, <1>10, <1>11, <1>13 DEF IInv

-----------------------------------------------------------------------------
(* The steps of a restore.                                                  *)

\* The rule made anew has counted nothing.
LEMMA RestartInv == ASSUME IInv, Restart PROVE IInv'
<1>1. /\ restore \in {"off", "idle"} /\ restore' = "load"
      /\ table' = <<>> /\ usage' = NoUsage
      /\ UNCHANGED <<backup, real, floor, excused, snap, file, entries, pc,
                     request, reply, data, num_ips, data_index, error, setVars>>
  BY DEF Restart, hist, getVars
<1>2. TypeOK /\ Querying /\ Saving /\ Honest
  BY DEF IInv
<1>3. TypeOK'
  <2>1. table' \in Tables /\ usage' \in Counts
    BY <1>1 DEF Tables, Counts, NoUsage
  <2> QED  BY <1>1, <1>2, <2>1 DEF TypeOK
<1>4. SetInv' /\ (restore' = "set" => total' = Len(entries'))
  BY <1>1, SetFrame DEF IInv, setVars
<1>5. Querying'
  BY <1>1, <1>2 DEF Querying
<1>6. Saving'
  BY <1>1, <1>2 DEF Saving, Token
<1>7. Honest'
  <2>1. \A h \in Hosts : usage'[h] <= real'[h]
    BY <1>1, <1>2 DEF TypeOK, Counts, NoUsage
  <2> QED  BY <1>1, <1>2, <2>1 DEF Honest, HonestFile
<1>8. Kept'
  BY <1>1 DEF IInv, Kept, FileKept, Holds, Restoring
<1> QED  BY <1>3, <1>4, <1>5, <1>6, <1>7, <1>8 DEF IInv

\* A restore that fails is excused.
LEMMA RestoreFailsInv == ASSUME IInv, RestoreFails PROVE IInv'
<1>1. /\ restore = "load" /\ restore' = "idle" /\ excused' = TRUE
      /\ UNCHANGED <<backup, table, usage, real, floor, snap, file, entries, pc,
                     request, reply, data, num_ips, data_index, error, setVars>>
  BY DEF RestoreFails, kernel, getVars
<1>2. TypeOK'
  BY <1>1 DEF IInv, TypeOK
<1>3. SetInv' /\ (restore' = "set" => total' = Len(entries'))
  BY <1>1, SetFrame DEF IInv, setVars
<1>4. Querying'
  BY <1>1 DEF IInv, Querying
<1>5. Saving' /\ Honest' /\ Kept'
  BY <1>1 DEF IInv, Saving, Token, Honest, HonestFile, Kept
<1> QED  BY <1>2, <1>3, <1>4, <1>5 DEF IInv

\* Without a file there was no backup.
LEMMA NoFileInv == ASSUME IInv, NoFile PROVE IInv'
<1>1. /\ restore = "load" /\ ~file.exists /\ restore' = "idle"
      /\ excused' = (excused \/ backup # "idle")
      /\ UNCHANGED <<backup, table, usage, real, floor, snap, file, entries, pc,
                     request, reply, data, num_ips, data_index, error, setVars>>
  BY DEF NoFile, kernel, getVars
<1>2. TypeOK'
  BY <1>1 DEF IInv, TypeOK
<1>3. SetInv' /\ (restore' = "set" => total' = Len(entries'))
  BY <1>1, SetFrame DEF IInv, setVars
<1>4. Querying'
  BY <1>1 DEF IInv, Querying
<1>5. Saving' /\ Honest'
  BY <1>1 DEF IInv, Saving, Token, Honest, HonestFile
<1>6. Kept'
  <2> SUFFICES ASSUME NumberLimit = 0, ~excused' PROVE FileKept' /\ Restoring'
    BY DEF Kept
  <2>1. /\ backup = "idle" /\ FileKept
        /\ floor \in [Hosts -> Nat] /\ usage \in [Hosts -> Nat]
    BY <1>1 DEF IInv, Kept, TypeOK, Counts
  <2>2. FileKept'
    BY <1>1, <2>1 DEF FileKept, Holds
  <2>3. \A h \in Hosts : usage[h] >= floor[h]
    <3> SUFFICES ASSUME NEW h \in Hosts PROVE usage[h] >= floor[h]
      OBVIOUS
    <3>1. file.tokens = <<>> /\ Holds(file.tokens)
      BY <1>1, <2>1 DEF FileKept
    <3>2. ~(floor[h] > 0)
      BY <3>1 DEF Holds
    <3> QED  BY <2>1, <3>2
  <2> QED  BY <1>1, <2>1, <2>2, <2>3 DEF Restoring, Taken
<1> QED  BY <1>2, <1>3, <1>4, <1>5, <1>6 DEF IInv

\* Filling the buffer moves nothing to the kernel.
LEMMA FillBufferInv == ASSUME IInv, FillBuffer PROVE IInv'
<1>1. /\ restore = "set"
      /\ OpenSocket \/ NoSocket \/ Round \/ AddBlock \/ BufferFull \/ SendFails
      /\ UNCHANGED <<backup, restore, table, usage, real, floor, excused, snap,
                     file, entries, pc, request, reply, data, num_ips,
                     data_index, error>>
  BY DEF FillBuffer, kernel, hist, getVars
<1>2. sent' = sent /\ total' = total
  BY <1>1 DEF OpenSocket, NoSocket, Round, AddBlock, BufferFull, SendFails
<1>3. TypeOK'
  BY <1>1 DEF IInv, TypeOK
<1>4. SetInv' /\ (restore' = "set" => total' = Len(entries'))
  BY <1>1, <1>2, SetNextInv DEF IInv, SetNext
<1>5. Querying'
  BY <1>1 DEF IInv, Querying
<1>6. Saving' /\ Honest'
  BY <1>1 DEF IInv, Saving, Token, Honest, HonestFile
<1>7. Kept'
  BY <1>1, <1>2 DEF IInv, Kept, FileKept, Holds, Restoring, Taken
<1> QED  BY <1>3, <1>4, <1>5, <1>6, <1>7 DEF IInv

\* What the restore has read are counters of hosts, none too high, and those
\* of the last backup if the file was kept.
LEMMA StartSetInv == ASSUME IInv, StartSet PROVE IInv'
<1> DEFINE f == file.tokens
           list == Load(f)
<1>1. /\ restore = "load" /\ ~Died(f) /\ restore' = "set"
      /\ excused' = (excused \/ backup # "idle")
      /\ entries' = Without(list, Grouped)
      /\ total' = Len(entries')
      /\ length' = [i \in 0 .. total' - 1 |-> BlockLength]
      /\ next_ip' = 0 /\ ip_index' = 0 /\ num' = 0 /\ used' = 0
      /\ spc' = "open" /\ done' = FALSE /\ sent' = {} /\ lost' = {}
      /\ twice' = FALSE
      /\ UNCHANGED <<backup, table, usage, real, floor, snap, file, pc, request,
                     reply, data, num_ips, data_index, error>>
  BY DEF StartSet, kernel, getVars
<1>2. TypeOK /\ Querying /\ Saving /\ Honest /\ Kept
  BY DEF IInv
<1>3. f \in Seq(Tokens) /\ HonestFile(f)
  BY <1>2 DEF TypeOK, Honest
<1> HIDE DEF f
<1>4. \A i \in DOMAIN f : f[i].kind = "ip" /\ i < Len(f) =>
        /\ f[i].val \in Hosts /\ f[i + 1].kind # "ip"
        /\ f[i + 1].val \in Nat /\ f[i + 1].val <= real[f[i].val]
  <2> SUFFICES ASSUME NEW i \in DOMAIN f, f[i].kind = "ip", i < Len(f)
               PROVE  /\ f[i].val \in Hosts /\ f[i + 1].kind # "ip"
                      /\ f[i + 1].val \in Nat /\ f[i + 1].val <= real[f[i].val]
    OBVIOUS
  <2>1. i + 1 \in 1 .. Len(f)
    BY <1>3
  <2>2. f[i + 1] \in Tokens
    BY <1>3, <2>1
  <2> QED  BY <1>3, <2>2 DEF HonestFile, Tokens
<1>5. /\ list \in Seq([ip : Nat, bw : Nat])
      /\ \A k \in DOMAIN list : \E i \in DOMAIN f :
            i < Len(f) /\ f[i].kind = "ip" /\ list[k] = EntryAt(f, i)
      /\ NumberLimit = 0 =>
            \A i \in DOMAIN f : i < Len(f) /\ f[i].kind = "ip" =>
               \E k \in DOMAIN list : list[k] = EntryAt(f, i)
  BY <1>3, <1>4, LoadReads
<1> HIDE DEF list
<1>6. ASSUME NEW k \in DOMAIN list
      PROVE  /\ list[k] \in Entries /\ list[k].bw <= real[list[k].ip]
             /\ \E i \in DOMAIN f : /\ i < Len(f) /\ f[i].kind = "ip"
                                    /\ list[k].ip = f[i].val
                                    /\ list[k].bw = f[i + 1].val
  <2>1. PICK i \in DOMAIN f :
          i < Len(f) /\ f[i].kind = "ip" /\ list[k] = EntryAt(f, i)
    BY <1>5
  <2>2. list[k] = [ip |-> f[i].val, bw |-> f[i + 1].val]
    BY <2>1 DEF EntryAt
  <2>3. f[i].val \in Hosts /\ f[i + 1].val \in Nat
    BY <1>4, <2>1
  <2>4. list[k].ip = f[i].val /\ list[k].bw = f[i + 1].val
    BY <2>2
  <2>5. list[k] \in Entries
    BY <2>2, <2>3 DEF Entries
  <2> QED  BY <1>4, <2>1, <2>4, <2>5
<1>7. list \in Seq(Entries)
  <2>1. \A k \in 1 .. Len(list) : list[k] \in Entries
    BY <1>5, <1>6
  <2>2. list = [k \in 1 .. Len(list) |-> list[k]] /\ Len(list) \in Nat
    BY <1>5
  <2> QED  BY <2>1, <2>2
<1>8. /\ entries' \in Seq(Entries)
      /\ \A k \in DOMAIN entries' : \E j \in DOMAIN list : entries'[k] = list[j]
      /\ \A j \in DOMAIN list : list[j].ip \notin Grouped =>
            \E k \in DOMAIN entries' : entries'[k] = list[j]
  <2> DEFINE rest == Without(list, Grouped)
  <2>1. /\ rest \in Seq(Entries)
        /\ \A k \in DOMAIN rest : \E j \in DOMAIN list : rest[k] = list[j]
        /\ \A j \in DOMAIN list : list[j].ip \notin Grouped =>
              \E k \in DOMAIN rest : rest[k] = list[j]
    <3> HIDE DEF Entries
    <3> QED  BY <1>7, WithoutKeeps
  <2>2. entries' = rest
    BY <1>1
  <2> HIDE DEF rest
  <2> QED  BY <2>1, <2>2
<1>9. TypeOK'
  BY <1>1, <1>2, <1>8 DEF TypeOK
<1>10. SetInv'
  <2>1. total' \in Nat
    BY <1>1, <1>8
  <2>2. 0 \in 0 .. total' /\ 0 \in 0 .. Capacity /\ 0 .. 0 - 1 = {}
    BY <2>1, SetAssumption
  <2>3. length' \in [0 .. total' - 1 -> Lengths]
    BY <1>1, BackupAssumption
  <2> QED  BY <1>1, <2>1, <2>2, <2>3 DEF SetInv
<1>11. Querying'
  BY <1>1, <1>2 DEF Querying
<1>12. Saving'
  BY <1>1, <1>2 DEF Saving, Token
<1>13. Honest'
  <2>1. \A k \in DOMAIN entries' : entries'[k].bw <= real[entries'[k].ip]
    BY <1>6, <1>8
  <2> QED  BY <1>1, <1>2, <2>1 DEF Honest, HonestFile
<1>14. Kept'
  <2> SUFFICES ASSUME NumberLimit = 0, ~excused' PROVE FileKept' /\ Restoring'
    BY DEF Kept
  <2>1. backup = "idle" /\ FileKept
    BY <1>1, <1>2 DEF Kept
  <2>2. Holds(f)
    BY <2>1 DEF FileKept, f
  <2>3. FileKept'
    BY <1>1, <2>1 DEF FileKept, Holds
  <2>4. \A k \in DOMAIN entries' : entries'[k].bw >= floor[entries'[k].ip]
    <3>1. \A j \in DOMAIN list : list[j].bw >= floor[list[j].ip]
      BY <1>6, <2>2 DEF Holds
    <3> QED  BY <1>8, <3>1
  <2>5. ASSUME NEW h \in Hosts \ Grouped, floor[h] > 0
        PROVE  \E k \in DOMAIN entries' : entries'[k].ip = h
    <3>1. PICK i \in DOMAIN f :
            f[i].kind = "ip" /\ f[i].val = h /\ i < Len(f)
      BY <2>2, <2>5 DEF Holds
    <3>2. PICK j \in DOMAIN list : list[j] = EntryAt(f, i)
      BY <1>5, <3>1
    <3>3. list[j].ip = h
      <4>1. list[j] = [ip |-> f[i].val, bw |-> f[i + 1].val]
        BY <3>2 DEF EntryAt
      <4> QED  BY <3>1, <4>1
    <3> QED  BY <1>8, <3>3
  <2>6. restore' = "set" /\ backup' = "idle" /\ sent' = {} /\ floor' = floor
    BY <1>1, <2>1
  <2>7. Restoring'
    BY <2>4, <2>5, <2>6 DEF Restoring
  <2> QED  BY <2>3, <2>7
<1> QED  BY <1>1, <1>9, <1>10, <1>11, <1>12, <1>13, <1>14 DEF IInv

\* What the hosts were charged with at the last backup is all in the kernel
\* once everything has been sent.
LEMMA RestoreEndsInv == ASSUME IInv, RestoreEnds PROVE IInv'
<1>1. /\ restore = "set" /\ spc = "end" /\ restore' = "idle"
      /\ excused' = (excused \/ lost # {})
      /\ UNCHANGED <<backup, table, usage, real, floor, snap, file, entries,
                     pc, request, reply, data, num_ips, data_index,
                     error, setVars>>
  BY DEF RestoreEnds, kernel, getVars
<1>2. TypeOK'
  BY <1>1 DEF IInv, TypeOK
<1>3. SetInv' /\ (restore' = "set" => total' = Len(entries'))
  BY <1>1, SetFrame DEF IInv, setVars
<1>4. Querying'
  BY <1>1 DEF IInv, Querying
<1>5. Saving' /\ Honest'
  BY <1>1 DEF IInv, Saving, Token, Honest, HonestFile
<1>6. Kept'
  <2> SUFFICES ASSUME NumberLimit = 0, ~excused' PROVE FileKept' /\ Restoring'
    BY DEF Kept
  <2>1. /\ Restoring /\ backup = "idle"
        /\ floor \in [Hosts -> Nat] /\ usage \in [Hosts -> Nat]
    BY <1>1 DEF IInv, Kept, TypeOK, Counts, Restoring
  <2>2. FileKept'
    BY <1>1 DEF IInv, Kept, FileKept, Holds
  <2>3. sent = 0 .. Len(entries) - 1 /\ DOMAIN entries = 1 .. Len(entries)
        /\ Len(entries) \in Nat
    <3>1. lost = {}
      BY <1>1
    <3> QED  BY <1>1, <3>1 DEF IInv, SetInv, TypeOK
  <2>4. ASSUME NEW h \in Hosts \ Grouped PROVE usage[h] >= floor[h]
    <3>1. CASE floor[h] > 0
      <4>1. PICK i \in DOMAIN entries : entries[i].ip = h
        BY <1>1, <2>1, <3>1 DEF Restoring
      <4> DEFINE k == i - 1
      <4>2. k \in sent /\ k + 1 = i
        BY <2>3
      <4> HIDE DEF k
      <4>3. usage[entries[k + 1].ip] >= floor[entries[k + 1].ip]
        BY <1>1, <2>1, <4>2 DEF Restoring
      <4> QED  BY <4>1, <4>2, <4>3
    <3>2. CASE ~(floor[h] > 0)
      BY <2>1, <3>2
    <3> QED  BY <3>1, <3>2
  <2> QED  BY <1>1, <2>1, <2>2, <2>4 DEF Restoring, Taken
<1> QED  BY <1>2, <1>3, <1>4, <1>5, <1>6 DEF IInv

\* An entry is a host with its counter.
LEMMA EntryIs ==
  ASSUME NEW e \in Entries PROVE e.ip \in Hosts /\ e.bw \in Nat
  BY DEF Entries

\* The hosts of some entries, in order.
LEMMA HostsOf ==
  ASSUME NEW list \in Seq(Entries)
  PROVE  [i \in DOMAIN list |-> list[i].ip] \in Seq(Hosts)
<1>1. Len(list) \in Nat /\ DOMAIN list = 1 .. Len(list)
  OBVIOUS
<1>2. \A i \in 1 .. Len(list) : list[i].ip \in Hosts
  <2>1. \A i \in 1 .. Len(list) : list[i] \in Entries
    OBVIOUS
  <2> QED  BY <2>1, EntryIs
<1> QED  BY <1>1, <1>2

\* A buffer sets the counters it has, and only those once one was sent.
LEMMA SendBufferInv == ASSUME IInv, SendBuffer PROVE IInv'
<1> DEFINE given == {entries[i + 1] : i \in next_ip .. next_ip + num - 1}
           old == IF next_ip = 0 THEN <<>> ELSE table
           new == Without(SubSeq(entries, next_ip + 1, next_ip + num),
                          ToSet(old))
<1>1. /\ restore = "set" /\ Send
      /\ usage' = [h \in Hosts |->
                     IF \E e \in given : e.ip = h
                     THEN (CHOOSE e \in given : e.ip = h).bw
                     ELSE IF next_ip = 0 THEN 0 ELSE usage[h]]
      /\ table' = old \o [i \in DOMAIN new |-> new[i].ip]
      /\ UNCHANGED <<backup, restore, real, floor, excused, snap, file, entries,
                     pc, request, reply, data, num_ips, data_index, error>>
  BY DEF SendBuffer, hist, getVars
<1>2. TypeOK /\ SetInv /\ Querying /\ Saving /\ Honest /\ Kept
  BY DEF IInv
<1>3. /\ next_ip \in Nat /\ num \in Nat /\ next_ip + num = ip_index
      /\ ip_index <= Len(entries) /\ total = Len(entries)
      /\ sent \subseteq 0 .. next_ip - 1
      /\ sent' = sent \cup (next_ip .. ip_index - 1) /\ total' = total
  BY <1>1, <1>2 DEF IInv, SetInv, Send
<1>4. entries \in Seq(Entries) /\ usage \in [Hosts -> Nat] /\ table \in Seq(Hosts)
  BY <1>2 DEF TypeOK, Counts, Tables
<1>5. Len(entries) \in Nat /\ DOMAIN entries = 1 .. Len(entries)
      /\ \A i \in 1 .. Len(entries) : /\ entries[i].ip \in Hosts
                                      /\ entries[i].bw \in Nat
  <2>1. Len(entries) \in Nat /\ DOMAIN entries = 1 .. Len(entries)
        /\ \A i \in 1 .. Len(entries) : entries[i] \in Entries
    BY <1>4
  <2> QED  BY <2>1, EntryIs
<1>6. \A e \in given : \E i \in 1 .. Len(entries) : e = entries[i]
  BY <1>3, <1>5
<1>7. ASSUME NEW h \in Hosts
      PROVE  \/ \E i \in 1 .. Len(entries) :
                   entries[i].ip = h /\ usage'[h] = entries[i].bw
             \/ /\ usage'[h] = IF next_ip = 0 THEN 0 ELSE usage[h]
                /\ ~\E e \in given : e.ip = h
  <2> HIDE DEF given
  <2>1. CASE \E e \in given : e.ip = h
    <3> DEFINE e == CHOOSE e \in given : e.ip = h
    <3>1. e \in given /\ e.ip = h
      BY <2>1
    <3>2. usage'[h] = e.bw
      BY <1>1, <2>1
    <3> HIDE DEF e
    <3>3. PICK i \in 1 .. Len(entries) : e = entries[i]
      BY <1>6, <3>1
    <3> QED  BY <3>1, <3>2, <3>3
  <2>2. CASE ~\E e \in given : e.ip = h
    BY <1>1, <2>2
  <2> QED  BY <2>1, <2>2
<1>8. ASSUME NEW h \in Hosts PROVE usage'[h] \in Nat /\ usage'[h] <= real[h]
  <2>1. usage[h] \in Nat /\ usage[h] <= real[h] /\ real[h] \in Nat
    BY <1>2 DEF Honest, TypeOK, Counts
  <2>2. \A i \in 1 .. Len(entries) : entries[i].bw <= real[entries[i].ip]
    BY <1>2, <1>5 DEF Honest
  <2> HIDE DEF given
  <2>3. CASE \E i \in 1 .. Len(entries) :
                entries[i].ip = h /\ usage'[h] = entries[i].bw
    BY <1>5, <2>2, <2>3
  <2>4. CASE usage'[h] = IF next_ip = 0 THEN 0 ELSE usage[h]
    BY <2>1, <2>4
  <2> QED  BY <1>7, <2>3, <2>4
<1>9. TypeOK'
  <2>1. usage' \in Counts
    <3>1. usage' = [h \in Hosts |-> usage'[h]]
      <4> HIDE DEF given
      <4> QED  BY <1>1
    <3> QED  BY <1>8, <3>1 DEF Counts
  <2>2. table' \in Tables
    <3> DEFINE part == SubSeq(entries, next_ip + 1, next_ip + num)
               hosts == [i \in DOMAIN new |-> new[i].ip]
    <3>1. part \in Seq(Entries)
      BY <1>3, <1>4, <1>5
    <3>2. new \in Seq(Entries)
      <4> HIDE DEF part, Entries
      <4>1. Without(part, ToSet(old)) \in Seq(Entries)
        BY <3>1, WithoutKeeps
      <4> QED  BY <4>1 DEF part
    <3> HIDE DEF new, part
    <3>3. hosts \in Seq(Hosts)
      BY <3>2, HostsOf
    <3>4. old \in Seq(Hosts)
      BY <1>4
    <3>5. table' = old \o hosts
      BY <1>1
    <3> HIDE DEF old, hosts
    <3> QED  BY <3>3, <3>4, <3>5 DEF Tables
  <2> QED  BY <1>1, <1>2, <2>1, <2>2 DEF TypeOK
<1>10. SetInv' /\ (restore' = "set" => total' = Len(entries'))
  BY <1>1, <1>2, <1>3, SetNextInv DEF SetNext
<1>11. Querying'
  BY <1>1, <1>2 DEF Querying
<1>12. Saving'
  BY <1>1, <1>2 DEF Saving, Token
<1>13. Honest'
  BY <1>1, <1>2, <1>8 DEF Honest, HonestFile
<1>14. Kept'
  <2> SUFFICES ASSUME NumberLimit = 0, ~excused' PROVE FileKept' /\ Restoring'
    BY DEF Kept
  <2>1. FileKept /\ Restoring
    BY <1>1, <1>2 DEF Kept
  <2>2. FileKept'
    BY <1>1, <2>1 DEF FileKept, Holds
  <2>3. ASSUME NEW k \in sent'
        PROVE  usage'[entries[k + 1].ip] >= floor[entries[k + 1].ip]
    <3> DEFINE h == entries[k + 1].ip
    <3>1. k + 1 \in 1 .. Len(entries) /\ h \in Hosts
      BY <1>3, <1>5
    <3>2. \A i \in 1 .. Len(entries) : entries[i].bw >= floor[entries[i].ip]
      BY <1>1, <1>5, <2>1 DEF Restoring
    <3>3. CASE \E i \in 1 .. Len(entries) :
                  entries[i].ip = h /\ usage'[h] = entries[i].bw
      BY <3>2, <3>3
    <3>4. CASE /\ usage'[h] = IF next_ip = 0 THEN 0 ELSE usage[h]
               /\ ~\E e \in given : e.ip = h
      <4>1. k \notin next_ip .. next_ip + num - 1
        BY <3>4
      <4>2. k \in sent /\ next_ip # 0
        BY <1>3, <4>1
      <4>3. usage[h] >= floor[h]
        BY <1>1, <2>1, <4>2 DEF Restoring
      <4> QED  BY <3>4, <4>2, <4>3
    <3> QED  BY <1>7, <3>1, <3>3, <3>4
  <2>4. restore' = "set" /\ backup' = "idle" /\ floor' = floor /\ entries' = entries
    BY <1>1, <2>1 DEF Restoring
  <2>5. Restoring'
    BY <1>1, <2>1, <2>3, <2>4 DEF Restoring
  <2> QED  BY <2>2, <2>5
<1> QED  BY <1>9, <1>10, <1>11, <1>12, <1>13, <1>14 DEF IInv

-----------------------------------------------------------------------------
(* Power losses and traffic.                                                *)

\* What can be left of a file has no counter too high either: the token that
\* was cut is its last.
LEMMA TornHonest ==
  ASSUME NEW f \in Seq(Tokens), HonestFile(f), NEW g \in TornFiles(f),
         real \in Counts
  PROVE  g \in Seq(Tokens) /\ HonestFile(g)
<1>1. Len(f) \in Nat /\ DOMAIN f = 1 .. Len(f)
  OBVIOUS
<1>2. CASE \E n \in 0 .. Len(f) : g = SubSeq(f, 1, n)
  <2>1. PICK n \in 0 .. Len(f) : g = SubSeq(f, 1, n)
    BY <1>2
  <2>2. /\ g \in Seq(Tokens) /\ Len(g) = n /\ DOMAIN g = 1 .. n
        /\ \A i \in 1 .. n : g[i] = f[i]
    BY <1>1, <2>1
  <2>3. ASSUME NEW i \in DOMAIN g, g[i].kind = "ip"
        PROVE  /\ g[i].val \in Hosts
               /\ i < Len(g) => /\ g[i + 1].kind # "ip"
                                /\ g[i + 1].val <= real[g[i].val]
    <3>1. i \in DOMAIN f /\ f[i] = g[i] /\ (i < n => i < Len(f) /\ f[i + 1] = g[i + 1])
      BY <1>1, <2>2
    <3> QED  BY <2>2, <2>3, <3>1 DEF HonestFile
  <2> QED  BY <2>2, <2>3 DEF HonestFile
<1>3. CASE \E n \in DOMAIN f : \E t \in Cut(f[n]) : g = SubSeq(f, 1, n - 1) \o <<t>>
  <2>10. PICK n \in DOMAIN f :
           \E t \in Cut(f[n]) : g = SubSeq(f, 1, n - 1) \o <<t>>
    BY <1>3
  <2>1. PICK t \in Cut(f[n]) : g = SubSeq(f, 1, n - 1) \o <<t>>
    BY <2>10
  <2>2. n \in 1 .. Len(f) /\ f[n] \in Tokens
    BY <1>1
  <2>3. PICK k \in {"time", "ip", "bw"}, v \in Nat : f[n] = [kind |-> k, val |-> v]
    BY <2>2 DEF Tokens
  <2>4. f[n].kind = k /\ f[n].val = v /\ v \div 10 \in Nat /\ v \div 10 <= v
    BY <2>3
  <2>5. /\ t \in Tokens
        /\ t.kind = "ip" => k = "ip" /\ t.val \in Hosts
        /\ k # "ip" => t.val <= v
    <3>1. CASE t = [kind |-> "time", val |-> v]
      BY <3>1 DEF Tokens
    <3>2. CASE k = "ip" /\ \E h \in Hosts : t = [kind |-> "ip", val |-> h]
      <4>1. PICK h \in Hosts : t = [kind |-> "ip", val |-> h]
        BY <3>2
      <4>2. h \in Nat
        BY BackupAssumption
      <4>3. t \in Tokens /\ t.val = h
        BY <4>1, <4>2 DEF Tokens
      <4> QED  BY <3>2, <4>3
    <3>3. CASE k # "ip" /\ t = [kind |-> k, val |-> v \div 10]
      <4> DEFINE w == v \div 10
      <4>1. w \in Nat /\ w <= v
        BY <2>4
      <4> HIDE DEF w
      <4>2. t = [kind |-> k, val |-> w]
        BY <3>3 DEF w
      <4> QED  BY <3>3, <4>1, <4>2 DEF Tokens
    <3>4. \/ t = [kind |-> "time", val |-> v]
          \/ k = "ip" /\ \E h \in Hosts : t = [kind |-> "ip", val |-> h]
          \/ k # "ip" /\ t = [kind |-> k, val |-> v \div 10]
      <4> DEFINE c == f[n]
      <4>1. t \in Cut(c) /\ c.kind = k /\ c.val = v
        BY <2>1, <2>4
      <4> HIDE DEF c
      <4> QED  BY <4>1 DEF Cut
    <3> QED  BY <3>1, <3>2, <3>3, <3>4
  <2> DEFINE m == n - 1
             p == SubSeq(f, 1, m)
  <2>6. /\ p \in Seq(Tokens) /\ Len(p) = m /\ m \in Nat
        /\ \A i \in 1 .. m : p[i] = f[i]
    BY <1>1, <2>2
  <2>7. g = p \o <<t>>
    BY <2>1
  <2> HIDE DEF p, m
  <2>8. /\ g \in Seq(Tokens) /\ Len(g) = m + 1 /\ DOMAIN g = 1 .. m + 1
        /\ g[m + 1] = t /\ \A i \in 1 .. m : g[i] = f[i]
    BY <2>5, <2>6, <2>7, Behind
  <2>9. ASSUME NEW i \in DOMAIN g, g[i].kind = "ip"
        PROVE  /\ g[i].val \in Hosts
               /\ i < Len(g) => /\ g[i + 1].kind # "ip"
                                /\ g[i + 1].val <= real[g[i].val]
    <3>1. CASE i = m + 1
      BY <2>5, <2>6, <2>8, <2>9, <3>1
    <3>2. CASE i \in 1 .. m
      <4>1. i \in DOMAIN f /\ i < Len(f) /\ f[i] = g[i] /\ m + 1 = n
        BY <1>1, <2>2, <2>6, <2>8, <3>2 DEF m
      <4>2. /\ f[i].val \in Hosts /\ f[i + 1].kind # "ip"
            /\ f[i + 1].val <= real[f[i].val]
        BY <2>9, <4>1 DEF HonestFile
      <4>3. CASE i + 1 \in 1 .. m
        BY <2>8, <4>1, <4>2, <4>3
      <4>4. CASE i + 1 = m + 1
        <5>1. real[f[i].val] \in Nat
          BY <4>2 DEF Counts
        <5>2. k # "ip" /\ v <= real[f[i].val]
          BY <2>4, <4>1, <4>2, <4>4
        <5>3. t.val \in Nat /\ t.kind # "ip" /\ t.val <= v
          BY <2>5, <5>2 DEF Tokens
        <5> QED  BY <2>8, <4>1, <4>2, <4>4, <5>1, <5>2, <5>3
      <4> QED  BY <2>6, <3>2, <4>3, <4>4
    <3> QED  BY <2>6, <2>8, <3>1, <3>2
  <2> QED  BY <2>8, <2>9 DEF HonestFile
<1> QED  BY <1>2, <1>3 DEF TornFiles

\* A power loss takes the kernel's counters and may cut the file that is being
\* written.
LEMMA PowerLossInv == ASSUME IInv, PowerLoss PROVE IInv'
<1>1. /\ restore' = "off" /\ backup' = "idle"
      /\ table' = <<>> /\ usage' = NoUsage
      /\ file' \in IF backup = "save"
                  THEN {[file EXCEPT !.tokens = f] : f \in TornFiles(file.tokens)}
                  ELSE {file}
      /\ excused' = (excused \/ backup = "save")
      /\ UNCHANGED <<real, floor, snap, entries, pc, request, reply, data,
                     num_ips, data_index, error, setVars>>
  BY DEF PowerLoss, getVars
<1>2. TypeOK /\ Querying /\ Honest
  BY DEF IInv
<1>3. /\ file'.tokens \in Seq(Tokens) /\ HonestFile(file'.tokens)
      /\ file'.exists = file.exists
      /\ file' = [exists |-> file'.exists, tokens |-> file'.tokens]
  <2>1. /\ file = [exists |-> file.exists, tokens |-> file.tokens]
        /\ file.tokens \in Seq(Tokens) /\ HonestFile(file.tokens)
    BY <1>2 DEF TypeOK, Honest
  <2>2. CASE backup = "save"
    <3>1. PICK f \in TornFiles(file.tokens) : file' = [file EXCEPT !.tokens = f]
      BY <1>1, <2>2
    <3>2. f \in Seq(Tokens) /\ HonestFile(f)
      BY <1>2, <2>1, <3>1, TornHonest DEF TypeOK
    <3>3. file' = [exists |-> file.exists, tokens |-> f]
      BY <2>1, <3>1
    <3> QED  BY <3>2, <3>3
  <2>3. CASE backup # "save"
    BY <1>1, <2>1, <2>3
  <2> QED  BY <2>2, <2>3
<1>4. TypeOK'
  <2>1. table' \in Tables /\ usage' \in Counts
    BY <1>1 DEF Tables, Counts, NoUsage
  <2> QED  BY <1>1, <1>2, <1>3, <2>1 DEF TypeOK
<1>5. SetInv' /\ (restore' = "set" => total' = Len(entries'))
  BY <1>1, SetFrame DEF IInv, setVars
<1>6. Querying'
  BY <1>1, <1>2 DEF Querying
<1>7. Saving'
  BY <1>1 DEF Saving
<1>8. Honest'
  <2>1. \A h \in Hosts : usage'[h] <= real'[h]
    BY <1>1, <1>2 DEF TypeOK, Counts, NoUsage
  <2>2. HonestFile(file.tokens)'
    BY <1>1, <1>3 DEF HonestFile
  <2> QED  BY <1>1, <1>2, <2>1, <2>2 DEF Honest
<1>9. Kept'
  <2> SUFFICES ASSUME NumberLimit = 0, ~excused' PROVE FileKept' /\ Restoring'
    BY DEF Kept
  <2>1. file' = file /\ backup # "save" /\ FileKept
    BY <1>1 DEF IInv, Kept
  <2> QED  BY <1>1, <2>1 DEF FileKept, Holds, Restoring
<1> QED  BY <1>4, <1>5, <1>6, <1>7, <1>8, <1>9 DEF IInv

\* Traffic is counted for the host that has it.
LEMMA TrafficInv == ASSUME IInv, NEW h \in Hosts, Traffic(h) PROVE IInv'
<1>1. /\ restore # "off"
      /\ table' = IF Contains(table, h) THEN table ELSE Append(table, h)
      /\ usage' = [usage EXCEPT ![h] = @ + Chunk]
      /\ real' = [real EXCEPT ![h] = @ + Chunk]
      /\ UNCHANGED <<backup, restore, floor, excused, snap, file, entries, pc,
                     request, reply, data, num_ips, data_index, error, setVars>>
  BY DEF Traffic, getVars
<1>2. TypeOK /\ Querying /\ Saving /\ Honest
  BY DEF IInv
<1>3. usage \in [Hosts -> Nat] /\ real \in [Hosts -> Nat] /\ Chunk \in Nat
  BY <1>2, BackupAssumption DEF TypeOK, Counts
<1>4. /\ usage' \in [Hosts -> Nat] /\ real' \in [Hosts -> Nat]
      /\ \A g \in Hosts : usage'[g] >= usage[g] /\ real'[g] >= real[g]
  BY <1>1, <1>3
<1>5. \A g \in Hosts : usage'[g] <= real'[g]
  BY <1>1, <1>2, <1>3 DEF Honest
<1>6. TypeOK'
  <2>1. table' \in Tables
    BY <1>1, <1>2 DEF TypeOK, Tables
  <2> QED  BY <1>1, <1>2, <1>4, <2>1 DEF TypeOK, Counts
<1>7. SetInv' /\ (restore' = "set" => total' = Len(entries'))
  BY <1>1, SetFrame DEF IInv, setVars
<1>8. Querying'
  BY <1>1, <1>2 DEF Querying
<1>9. Saving'
  BY <1>1, <1>2 DEF Saving, Token
<1>10. Honest'
  <2> DEFINE f == file.tokens
  <2>1. f \in Seq(Tokens) /\ HonestFile(f) /\ f' = f
    BY <1>1, <1>2 DEF TypeOK, Honest
  <2> HIDE DEF f
  <2>2. ASSUME NEW i \in DOMAIN f, f[i].kind = "ip"
        PROVE  /\ f[i].val \in Hosts
               /\ i < Len(f) => /\ f[i + 1].kind # "ip"
                                /\ f[i + 1].val <= real'[f[i].val]
    <3>1. /\ f[i].val \in Hosts
          /\ i < Len(f) => /\ f[i + 1].kind # "ip"
                           /\ f[i + 1].val <= real[f[i].val]
      BY <2>1, <2>2 DEF HonestFile
    <3>2. real'[f[i].val] >= real[f[i].val] /\ real[f[i].val] \in Nat
          /\ real'[f[i].val] \in Nat
      BY <1>3, <1>4, <3>1
    <3>3. i < Len(f) => f[i + 1].val \in Nat
      <4> SUFFICES ASSUME i < Len(f) PROVE f[i + 1].val \in Nat
        OBVIOUS
      <4>1. f[i + 1] \in Tokens
        BY <2>1
      <4> QED  BY <4>1 DEF Tokens
    <3> QED  BY <3>1, <3>2, <3>3
  <2>3. HonestFile(file.tokens)'
    BY <1>1, <2>2 DEF HonestFile, f
  <2>4. \A g \in Hosts : snap.usage[g] <= real'[g]
    <3> SUFFICES ASSUME NEW g \in Hosts PROVE snap.usage[g] <= real'[g]
      OBVIOUS
    <3>1. snap.usage[g] <= real[g]
      BY <1>2 DEF Honest
    <3>2. snap.usage[g] \in Nat
      BY <1>2 DEF TypeOK, Counts
    <3> QED  BY <1>3, <1>4, <3>1, <3>2
  <2>5. ASSUME NEW i \in DOMAIN entries
        PROVE  entries[i].bw <= real'[entries[i].ip]
    <3>1. entries[i] \in Entries
      BY <1>2 DEF TypeOK
    <3>2. entries[i].ip \in Hosts /\ entries[i].bw \in Nat
      BY <3>1, EntryIs
    <3> QED  BY <1>2, <1>3, <1>4, <3>2 DEF Honest
  <2> QED  BY <1>1, <1>5, <2>3, <2>4, <2>5 DEF Honest
<1>11. Kept'
  <2> SUFFICES ASSUME NumberLimit = 0, ~excused' PROVE FileKept' /\ Restoring'
    BY DEF Kept
  <2>1. FileKept /\ Restoring
    BY <1>1 DEF IInv, Kept
  <2>2. FileKept'
    BY <1>1, <2>1 DEF FileKept, Holds
  <2>3. floor \in [Hosts -> Nat] /\ snap.usage \in [Hosts -> Nat]
    BY <1>2 DEF TypeOK, Counts
  <2>4. restore = "idle" => \A g \in Hosts \ Grouped : usage'[g] >= floor[g]
    BY <1>3, <1>4, <2>1, <2>3 DEF Restoring
  <2>5. restore = "idle" /\ Taken => \A g \in Hosts : usage'[g] >= snap.usage[g]
    BY <1>3, <1>4, <2>1, <2>3 DEF Restoring
  <2>6. ASSUME restore = "set", NEW k \in sent
        PROVE  usage'[entries[k + 1].ip] >= floor[entries[k + 1].ip]
    <3>1. k + 1 \in DOMAIN entries
      <4>1. sent \subseteq 0 .. Len(entries) - 1
        BY <2>6 DEF IInv, SetInv
      <4>2. Len(entries) \in Nat /\ DOMAIN entries = 1 .. Len(entries)
        BY <1>2 DEF TypeOK
      <4> QED  BY <4>1, <4>2
    <3>2. entries[k + 1].ip \in Hosts
      <4>1. entries[k + 1] \in Entries
        BY <1>2, <3>1 DEF TypeOK
      <4> QED  BY <4>1, EntryIs
    <3> QED  BY <1>3, <1>4, <2>1, <2>3, <2>6, <3>2 DEF Restoring
  <2>7. Taken' = Taken
    BY <1>1 DEF Taken
  <2>8. Restoring'
    BY <1>1, <2>1, <2>4, <2>5, <2>6, <2>7 DEF Restoring, setVars
  <2> QED  BY <2>2, <2>8
<1> QED  BY <1>6, <1>7, <1>8, <1>9, <1>10, <1>11 DEF IInv

-----------------------------------------------------------------------------
(* All steps, and what follows from the invariant.                          *)

\* Before the first restart there is no rule and no file.
LEMMA InitInv == Init => IInv
<1> SUFFICES ASSUME Init PROVE IInv
  OBVIOUS
<1>1. /\ backup = "idle" /\ restore = "off" /\ table = <<>>
      /\ usage = NoUsage /\ real = NoUsage /\ floor = NoUsage
      /\ snap = [table |-> <<>>, usage |-> NoUsage]
      /\ file = [exists |-> FALSE, tokens |-> <<>>] /\ entries = <<>>
      /\ excused = FALSE /\ pc = "done"
      /\ request = [ip |-> 0, index |-> 0, id |-> Rule]
      /\ reply = [error |-> 0, total |-> 0, start |-> 0, ips |-> <<>>]
      /\ data = <<>> /\ num_ips = 0 /\ data_index = 0 /\ error = 0
  BY DEF Init, Get!NoReply, Get!NoData
<1>2. NoUsage \in Counts /\ \A h \in Hosts : NoUsage[h] = 0
  BY DEF NoUsage, Counts
<1>3. TypeOK
  <2>1. <<>> \in Tables /\ <<>> \in Seq(Tokens) /\ <<>> \in Seq(Entries)
    BY DEF Tables
  <2>2. request \in Requests
    BY <1>1, Fields
  <2>3. reply \in Replies
    BY <1>1, <2>1 DEF Replies
  <2>4. reply.error = 0
    BY <1>1
  <2>5. /\ file.exists = FALSE /\ file.tokens = <<>>
        /\ snap.table = <<>> /\ snap.usage = NoUsage
    BY <1>1
  <2>6. file = [exists |-> file.exists, tokens |-> file.tokens]
    BY <1>1, <2>5
  <2> QED  BY <1>1, <1>2, <2>1, <2>2, <2>3, <2>4, <2>5, <2>6 DEF TypeOK
<1>4. SetInv
  <2>1. /\ total = 0 /\ length = <<>> /\ next_ip = 0 /\ ip_index = 0 /\ num = 0
        /\ used = 0 /\ spc = "end" /\ done = TRUE /\ sent = {} /\ lost = {}
        /\ twice = FALSE
    BY DEF Init
  <2>2. 0 \in 0 .. 0 /\ 0 \in 0 .. Capacity /\ 0 .. 0 - 1 = {}
    BY SetAssumption
  <2>3. length \in [0 .. 0 - 1 -> Lengths]
    BY <2>1, <2>2
  <2> QED  BY <2>1, <2>2, <2>3 DEF SetInv
<1>5. Querying
  <2>1. data = snap.table /\ Len(data) = 0
    BY <1>1
  <2> QED  BY <1>1, <2>1 DEF Querying
<1>6. Saving
  BY <1>1 DEF Saving
<1>7. Honest
  <2>1. snap.usage = NoUsage /\ file.tokens = <<>>
    BY <1>1
  <2> QED  BY <1>1, <1>2, <2>1 DEF Honest, HonestFile
<1>8. Kept
  <2>1. file.tokens = <<>>
    BY <1>1
  <2> QED  BY <1>1, <1>2, <2>1 DEF Kept, FileKept, Holds, Restoring
<1> QED  BY <1>1, <1>3, <1>4, <1>5, <1>6, <1>7, <1>8 DEF IInv

\* Nothing changes.
LEMMA StutterInv == ASSUME IInv, UNCHANGED vars PROVE IInv'
<1>1. /\ UNCHANGED <<backup, restore, table, usage, real, floor, excused, snap,
                     file, entries, pc, request, reply, data, num_ips,
                     data_index, error>>
      /\ UNCHANGED setVars
  BY DEF vars, kernel, hist, getVars
<1>2. TypeOK'
  BY <1>1 DEF IInv, TypeOK
<1>3. SetInv' /\ (restore' = "set" => total' = Len(entries'))
  BY <1>1, SetFrame DEF IInv, setVars
<1>4. Querying' /\ Saving' /\ Honest'
  BY <1>1 DEF IInv, Querying, Saving, Token, Honest, HonestFile
<1>5. Kept'
  BY <1>1 DEF IInv, Kept, FileKept, Holds, Restoring, Taken, setVars
<1> QED  BY <1>2, <1>3, <1>4, <1>5 DEF IInv

\* Every step keeps the invariant.
LEMMA NextInv == IInv /\ [Next]_vars => IInv'
<1> SUFFICES ASSUME IInv, [Next]_vars PROVE IInv'
  OBVIOUS
<1>1. CASE BackupStep
  BY <1>1, MakeSocketInv, QueryDiesInv, QueryInv, StoreReplyInv, OpenFileInv, QueryFailedInv, WriteTokenInv,
     CloseFileInv DEF BackupStep
<1>2. CASE RestoreStep
  BY <1>2, RestoreFailsInv, StartSetInv, NoFileInv, FillBufferInv,
     SendBufferInv, RestoreEndsInv DEF RestoreStep
<1>3. CASE StartBackup \/ Restart \/ PowerLoss
  BY <1>3, StartBackupInv, RestartInv, PowerLossInv
<1>4. CASE \E h \in Hosts : Traffic(h)
  BY <1>4, TrafficInv
<1>5. CASE UNCHANGED vars
  BY <1>5, StutterInv
<1> QED  BY <1>1, <1>2, <1>3, <1>4, <1>5 DEF Next

\* The invariant holds in every state.
THEOREM BackupInvariance == Spec => []IInv
<1> QED  BY InitInv, NextInv, PTL DEF Spec

\* No host is charged more than it has transferred, for any hosts, traffic,
\* restarts and power losses and however the file is torn.
THEOREM NobodyOvercharged == Spec => []NeverOvercounted
<1>1. IInv => NeverOvercounted
  BY DEF IInv, Honest, NeverOvercounted
<1> QED  BY <1>1, BackupInvariance, PTL

\* A query that reports success has all hosts of one moment, and no reply is
\* written behind the array.
THEOREM QueriesComplete == Spec => []QueryComplete
<1>1. IInv => QueryComplete
  <2> SUFFICES ASSUME IInv PROVE QueryComplete
    OBVIOUS
  <2>1. Querying /\ Saving
    BY DEF IInv
  <2>2. data_index <= Len(data)
    BY <2>1 DEF Querying
  <2>3. /\ backup = "save" /\ pc = "done" => data = snap.table
        /\ backup = "save" /\ pc # "done" => pc = "nosocket" /\ num_ips = 0
    BY <2>1 DEF Querying, Saving
  <2> QED  BY <2>2, <2>3 DEF QueryComplete, Get!WritesInArray
<1> QED  BY <1>1, BackupInvariance, PTL

\* Every host without a quota of its own is charged at least what the last
\* completed backup says whenever no restore is under way, unless one of the
\* named events has cost a backup.
THEOREM BackupsNotLost ==
  ASSUME NumberLimit = 0 PROVE Spec => []BackupsKept
<1>1. IInv => BackupsKept
  BY DEF IInv, Kept, Restoring, BackupsKept
<1> QED  BY <1>1, BackupInvariance, PTL

\* A restore that has ended has given the kernel every entry it has read, also
\* next to backups, traffic and power losses.
THEOREM RestoresSendAll == Spec => []AllSent
<1>1. IInv => AllSent
  BY DEF IInv, SetInv, AllSent
<1> QED  BY <1>1, BackupInvariance, PTL

-----------------------------------------------------------------------------
(* Sequences one after the other.                                           *)

\* What is in two lists one after the other.
LEMMA Joined ==
  ASSUME NEW T, NEW s \in Seq(T), NEW t \in Seq(T)
  PROVE  /\ s \o t \in Seq(T) /\ ToSet(s \o t) = ToSet(s) \cup ToSet(t)
         /\ Len(s \o t) = Len(s) + Len(t)
         /\ \A k \in 1 .. Len(s) : (s \o t)[k] = s[k]
         /\ \A k \in 1 .. Len(t) : (s \o t)[Len(s) + k] = t[k]
<1>1. /\ s \o t \in Seq(T) /\ Len(s \o t) = Len(s) + Len(t) /\ Len(s) \in Nat /\ Len(t) \in Nat
      /\ DOMAIN s = 1 .. Len(s) /\ DOMAIN t = 1 .. Len(t)
      /\ DOMAIN (s \o t) = 1 .. Len(s) + Len(t)
      /\ \A k \in 1 .. Len(s) : (s \o t)[k] = s[k]
      /\ \A k \in 1 .. Len(t) : (s \o t)[Len(s) + k] = t[k]
  OBVIOUS
<1>2. ASSUME NEW x \in ToSet(s \o t) PROVE x \in ToSet(s) \cup ToSet(t)
  <2>1. PICK k \in 1 .. Len(s) + Len(t) : (s \o t)[k] = x
    BY <1>1, <1>2 DEF ToSet
  <2>2. CASE k \in 1 .. Len(s)
    BY <1>1, <2>1, <2>2 DEF ToSet
  <2>3. CASE k \notin 1 .. Len(s)
    <3>1. k - Len(s) \in 1 .. Len(t) /\ Len(s) + (k - Len(s)) = k
      BY <1>1, <2>3
    <3> QED  BY <1>1, <2>1, <3>1 DEF ToSet
  <2> QED  BY <2>2, <2>3
<1>3. ASSUME NEW x \in ToSet(s) PROVE x \in ToSet(s \o t)
  <2>1. PICK k \in 1 .. Len(s) : s[k] = x
    BY <1>1, <1>3 DEF ToSet
  <2>2. k \in 1 .. Len(s) + Len(t)
    BY <1>1
  <2> QED  BY <1>1, <2>1, <2>2 DEF ToSet
<1>4. ASSUME NEW x \in ToSet(t) PROVE x \in ToSet(s \o t)
  <2>1. PICK k \in 1 .. Len(t) : t[k] = x
    BY <1>1, <1>4 DEF ToSet
  <2>2. Len(s) + k \in 1 .. Len(s) + Len(t)
    BY <1>1
  <2> QED  BY <1>1, <2>1, <2>2 DEF ToSet
<1> QED  BY <1>1, <1>2, <1>3, <1>4

\* A list of lists becomes one list, of their elements.
LEMMA Flattened ==
  ASSUME NEW T, NEW ss \in Seq(Seq(T))
  PROVE  /\ FlattenSeq(ss) \in Seq(T)
         /\ ToSet(FlattenSeq(ss)) = UNION {ToSet(ss[i]) : i \in DOMAIN ss}
<1> DEFINE N == Len(ss)
           V == Seq(T)
           Is(f) == f = [i \in 1 .. N |-> IF i = 1 THEN ss[i] ELSE f[i - 1] \o ss[i]]
           Flat == CHOOSE f : Is(f)
<1>1. N \in Nat /\ DOMAIN ss = 1 .. N /\ \A i \in 1 .. N : ss[i] \in V
  OBVIOUS
<1>2. CASE N = 0
  <2>1. FlattenSeq(ss) = ss /\ ss = <<>>
    BY <1>2 DEF FlattenSeq
  <2>2. ToSet(FlattenSeq(ss)) = {} /\ DOMAIN ss = {}
    BY <2>1 DEF ToSet
  <2> QED  BY <2>1, <2>2
<1>3. CASE N # 0
  <2>1. FlattenSeq(ss) = Flat[N]
    BY <1>3 DEF FlattenSeq
  <2> HIDE DEF N
  <2>2. \E f : Is(f)
    <3> DEFINE none == <<>>
               G == [p \in Nat \X V |->
                       IF p[1] \in 1 .. N
                       THEN IF p[1] = 1 THEN ss[1] ELSE p[2] \o ss[p[1]]
                       ELSE p[2]]
    <3>1. none \in V
      OBVIOUS
    <3>2. \A i \in 1 .. N : \A s \in V : s \o ss[i] \in V
      BY <1>1
    <3> HIDE DEF V, none
    <3>3. G \in Makers(V)
      <4>1. \A n \in Nat : \A x \in V : G[<<n, x>>] \in V
        BY <1>1, <3>2
      <4>2. G = [p \in Nat \X V |-> G[p]]
        OBVIOUS
      <4> HIDE DEF G
      <4> QED  BY <4>1, <4>2, MakesValues
    <3>4. \A i \in 1 .. N : \A s \in V :
            G[<<i, s>>] = IF i = 1 THEN ss[i] ELSE s \o ss[i]
      BY <1>1
    <3> HIDE DEF G
    <3>5. PICK g \in [0 .. N -> V] :
            g[0] = none /\ \A i \in 1 .. N : g[i] = G[<<i, g[i - 1]>>]
      <4>1. Made(V, none, G, N) # {}
        BY <1>1, <3>1, <3>3, Recursion
      <4> QED  BY <4>1 DEF Made
    <3> DEFINE f == [i \in 1 .. N |-> g[i]]
               h == [i \in 1 .. N |-> IF i = 1 THEN ss[i] ELSE f[i - 1] \o ss[i]]
    <3>6. ASSUME NEW i \in 1 .. N PROVE f[i] = h[i]
      <4>1. i - 1 \in 0 .. N /\ g[i - 1] \in V /\ f[i] = g[i]
        BY <1>1
      <4>2. f[i] = IF i = 1 THEN ss[i] ELSE g[i - 1] \o ss[i]
        BY <3>4, <3>5, <4>1
      <4>3. i # 1 => f[i - 1] = g[i - 1]
        BY <1>1
      <4> QED  BY <4>2, <4>3
    <3>7. f = h
      <4>1. f = [i \in 1 .. N |-> f[i]] /\ h = [i \in 1 .. N |-> h[i]]
        OBVIOUS
      <4> HIDE DEF f, h
      <4> QED  BY <3>6, <4>1
    <3>8. Is(f)
      BY <3>7
    <3> HIDE DEF f, Is
    <3> QED  BY <3>8
  <2>3. Is(Flat)
    <3> HIDE DEF Is
    <3> QED  BY <2>2
  <2> HIDE DEF Flat
  <2>4. \A i \in 1 .. N : Flat[i] = IF i = 1 THEN ss[i] ELSE Flat[i - 1] \o ss[i]
    BY <1>1, <2>3
  <2> HIDE DEF Is
  <2> DEFINE Good(n) ==
               /\ Flat[n] \in Seq(T)
               /\ ToSet(Flat[n]) = UNION {ToSet(ss[i]) : i \in 1 .. n}
             S == {n \in Nat : n < N => Good(n + 1)}
  <2>5. 0 \in S
    <3>1. Flat[1] = ss[1] /\ 1 \in 1 .. N
      BY <1>1, <1>3, <2>4
    <3>2. 1 .. 1 = {1} /\ 0 + 1 = 1
      OBVIOUS
    <3>3. UNION {ToSet(ss[i]) : i \in {1}} = ToSet(ss[1])
      OBVIOUS
    <3>4. Good(1)
      BY <1>1, <3>1, <3>2, <3>3
    <3> HIDE DEF Good
    <3> QED  BY <3>2, <3>4
  <2>6. ASSUME NEW n \in Nat, n \in S PROVE n + 1 \in S
    <3> SUFFICES ASSUME n + 1 < N PROVE Good((n + 1) + 1)
      OBVIOUS
    <3> DEFINE m == n + 1
    <3>1. n < N
      BY <1>1
    <3>2. Good(m)
      <4> HIDE DEF Good
      <4> QED  BY <2>6, <3>1
    <3>3. m + 1 \in 1 .. N /\ m + 1 # 1 /\ (m + 1) - 1 = m /\ m \in Nat
      BY <1>1, <2>6
    <3> HIDE DEF m
    <3>4. Flat[m + 1] = Flat[m] \o ss[m + 1] /\ ss[m + 1] \in Seq(T)
      BY <1>1, <2>4, <3>3
    <3>5. /\ Flat[m + 1] \in Seq(T)
          /\ ToSet(Flat[m + 1]) = ToSet(Flat[m]) \cup ToSet(ss[m + 1])
      BY <3>2, <3>4, Joined
    <3>6. 1 .. m + 1 = (1 .. m) \cup {m + 1}
      BY <3>3
    <3>7. UNION {ToSet(ss[i]) : i \in (1 .. m) \cup {m + 1}}
             = (UNION {ToSet(ss[i]) : i \in 1 .. m}) \cup ToSet(ss[m + 1])
      OBVIOUS
    <3>8. Good(m + 1)
      BY <3>2, <3>5, <3>6, <3>7
    <3> HIDE DEF Good
    <3> QED  BY <3>8 DEF m
  <2>7. Good(N)
    <3> HIDE DEF Good
    <3>1. \A n \in Nat : n \in S
      <4> HIDE DEF S
      <4> QED  BY <2>5, <2>6, Induction
    <3>2. N - 1 \in Nat /\ (N - 1) + 1 = N /\ N - 1 < N
      BY <1>1, <1>3
    <3> QED  BY <3>1, <3>2
  <2> QED  BY <1>1, <2>1, <2>7
<1> QED  BY <1>2, <1>3

IsList(s) == s \in Seq(ToSet(s))

\* A sequence of anything is one of what is in it.
LEMMA Listed ==
  ASSUME NEW T, NEW s \in Seq(T)
  PROVE  IsList(s) /\ ToSet(s) \subseteq T
<1>1. Len(s) \in Nat /\ DOMAIN s = 1 .. Len(s) /\ s = [i \in 1 .. Len(s) |-> s[i]]
      /\ \A i \in 1 .. Len(s) : s[i] \in T
  OBVIOUS
<1>2. \A i \in 1 .. Len(s) : s[i] \in ToSet(s)
  BY <1>1 DEF ToSet
<1>3. s \in Seq(ToSet(s))
  BY <1>1, <1>2
<1>4. ToSet(s) \subseteq T
  BY <1>1 DEF ToSet
<1> QED  BY <1>3, <1>4 DEF IsList

\* A list is one of any set that has its elements.
LEMMA Wider ==
  ASSUME NEW s, IsList(s), NEW T, ToSet(s) \subseteq T
  PROVE  s \in Seq(T)
<1>1. Len(s) \in Nat /\ s = [i \in 1 .. Len(s) |-> s[i]]
      /\ \A i \in 1 .. Len(s) : s[i] \in ToSet(s)
  BY DEF IsList
<1> HIDE DEF IsList
<1> QED  BY <1>1

\* What is written as a function on an interval is a list.
LEMMA Lists ==
  ASSUME NEW n \in Nat, NEW f, f = [i \in 1 .. n |-> f[i]]
  PROVE  /\ IsList(f) /\ Len(f) = n /\ DOMAIN f = 1 .. n
         /\ ToSet(f) = {f[i] : i \in 1 .. n}
<1>1. ToSet(f) = {f[i] : i \in 1 .. n} /\ DOMAIN f = 1 .. n
  BY DEF ToSet
<1>2. \A i \in 1 .. n : f[i] \in ToSet(f)
  BY <1>1
<1>3. f \in Seq(ToSet(f)) /\ Len(f) = n
  BY <1>2
<1> QED  BY <1>1, <1>3 DEF IsList

\* What a list is a function on.
LEMMA ListDomain ==
  ASSUME NEW s, IsList(s)
  PROVE  /\ Len(s) \in Nat /\ DOMAIN s = 1 .. Len(s)
         /\ s = [i \in 1 .. Len(s) |-> s[i]] /\ \A i \in DOMAIN s : s[i] \in ToSet(s)
BY DEF IsList

\* Two lists one after the other.
LEMMA ListJoined ==
  ASSUME NEW s, NEW t, IsList(s), IsList(t)
  PROVE  /\ IsList(s \o t) /\ ToSet(s \o t) = ToSet(s) \cup ToSet(t)
         /\ Len(s \o t) = Len(s) + Len(t)
         /\ \A k \in 1 .. Len(s) : (s \o t)[k] = s[k]
         /\ \A k \in 1 .. Len(t) : (s \o t)[Len(s) + k] = t[k]
<1> DEFINE T == ToSet(s) \cup ToSet(t)
<1>1. s \in Seq(T) /\ t \in Seq(T)
  BY Wider
<1> HIDE DEF T
<1>2. /\ s \o t \in Seq(T) /\ ToSet(s \o t) = ToSet(s) \cup ToSet(t)
      /\ Len(s \o t) = Len(s) + Len(t)
      /\ \A k \in 1 .. Len(s) : (s \o t)[k] = s[k]
      /\ \A k \in 1 .. Len(t) : (s \o t)[Len(s) + k] = t[k]
  BY <1>1, Joined
<1> QED  BY <1>2, Listed

\* A list of lists becomes one list.
LEMMA ListFlattened ==
  ASSUME NEW ss, IsList(ss), \A i \in DOMAIN ss : IsList(ss[i])
  PROVE  /\ IsList(FlattenSeq(ss))
         /\ ToSet(FlattenSeq(ss)) = UNION {ToSet(ss[i]) : i \in DOMAIN ss}
<1> DEFINE T == UNION {ToSet(ss[i]) : i \in DOMAIN ss}
<1>1. ASSUME NEW i \in DOMAIN ss PROVE ss[i] \in Seq(T)
  <2>1. ToSet(ss[i]) \subseteq T
    OBVIOUS
  <2> HIDE DEF T
  <2> QED  BY <2>1, Wider
<1> HIDE DEF T
<1>2. Len(ss) \in Nat /\ ss = [i \in 1 .. Len(ss) |-> ss[i]] /\ DOMAIN ss = 1 .. Len(ss)
  BY ListDomain
<1>3. ss \in Seq(Seq(T))
  BY <1>1, <1>2
<1>4. FlattenSeq(ss) \in Seq(T)
      /\ ToSet(FlattenSeq(ss)) = UNION {ToSet(ss[i]) : i \in DOMAIN ss}
  BY <1>3, Flattened
<1> QED  BY <1>4, Listed

\* No element, one, two.
LEMMA Empty == IsList(<<>>) /\ ToSet(<<>>) = {}
<1>1. <<>> \in Seq({}) /\ DOMAIN <<>> = {}
  OBVIOUS
<1> QED  BY <1>1, Listed DEF ToSet

LEMMA One ==
  ASSUME NEW a
  PROVE  IsList(<<a>>) /\ ToSet(<<a>>) = {a} /\ Len(<<a>>) = 1 /\ <<a>>[1] = a
<1>1. <<a>> \in Seq({a}) /\ DOMAIN <<a>> = {1} /\ <<a>>[1] = a /\ Len(<<a>>) = 1
  OBVIOUS
<1>2. ToSet(<<a>>) = {a}
  BY <1>1 DEF ToSet
<1> QED  BY <1>1, <1>2, Listed

LEMMA Two ==
  ASSUME NEW a, NEW b
  PROVE  IsList(<<a, b>>) /\ ToSet(<<a, b>>) = {a, b}
<1>1. <<a, b>> \in Seq({a, b}) /\ DOMAIN <<a, b>> = {1, 2}
  OBVIOUS
<1>2. ToSet(<<a, b>>) = {a, b}
  BY <1>1 DEF ToSet
<1> QED  BY <1>1, <1>2, Listed

\* Adding one.
LEMMA ListAppended ==
  ASSUME NEW s, NEW e, IsList(s)
  PROVE  IsList(Append(s, e)) /\ Len(Append(s, e)) = Len(s) + 1
         /\ \A i \in 1 .. Len(s) : Append(s, e)[i] = s[i]
         /\ Append(s, e)[Len(s) + 1] = e
<1> DEFINE T == ToSet(s) \cup {e}
<1>1. s \in Seq(T) /\ e \in T
  BY Wider
<1> HIDE DEF T
<1>2. Append(s, e) \in Seq(T) /\ Len(Append(s, e)) = Len(s) + 1
         /\ (\A i \in 1 .. Len(s) : Append(s, e)[i] = s[i])
         /\ Append(s, e)[Len(s) + 1] = e
  BY <1>1
<1> QED  BY <1>2, Listed

-----------------------------------------------------------------------------
(* What is collected for the kinds of tests.                                *)

\* What has been computed after kinds of tests that take n bits at most.
Collected(acc, n) ==
    /\ DOMAIN acc = {"multi", "single", "bit", "negs", "many"}
    /\ acc.bit \in 0 .. n
    /\ IsList(acc.multi)
    /\ \A rule \in ToSet(acc.multi) : rule.jump.bits \subseteq HighByte

\* The fields of a rule and of what it jumps to.
LEMMA RuleFields ==
  ASSUME NEW proto, NEW tests, NEW jump
  PROVE  /\ MakeRule(proto, tests, jump).proto = proto
         /\ MakeRule(proto, tests, jump).tests = tests
         /\ MakeRule(proto, tests, jump).jump = jump
BY DEF MakeRule

LEMMA SetMarkFields ==
  ASSUME NEW bits, NEW mask
  PROVE  /\ SetMark(bits, mask).to = "CONNMARK"
         /\ SetMark(bits, mask).bits = bits /\ SetMark(bits, mask).mask = mask
BY DEF SetMark

LEMMA JumpFields ==
  ASSUME NEW target, NEW options
  PROVE  /\ JumpTo(target, options).to = target /\ JumpTo(target, options).bits = {}
         /\ JumpTo(target, options).mask = {}
BY DEF JumpTo

\* The tests of a kind add rules that set the bit at hand at most.
LEMMA OneKind ==
  ASSUME NEW n \in 0 .. 7, NEW acc, Collected(acc, n), NEW tests,
         tests = None \/ IsList(tests),
         NEW never_single, NEW neg, NEW proto, NEW requires
  PROVE  Collected(ComputeMultiRules(acc, tests, never_single, neg, proto, requires), n)
<1> DEFINE new == ComputeMultiRules(acc, tests, never_single, neg, proto, requires)
           protos == Protos(proto, requires)
           jump == SetMark(IF neg THEN {} ELSE {acc.bit}, {acc.bit})
           Copies(test) == [j \in DOMAIN protos |-> MakeRule(protos[j], <<test>>, jump)]
           copies == [i \in DOMAIN tests |-> Copies(tests[i])]
           single == <<[tests[1] EXCEPT !.neg = neg]>> \o acc.single
<1>1. CASE tests = None
  BY <1>1 DEF ComputeMultiRules
<1>2. CASE tests # None /\ Len(tests) = 1 /\ ~never_single
  <2>1. new = [acc EXCEPT !.single = single]
    BY <1>2 DEF ComputeMultiRules
  <2> HIDE DEF new, single
  <2>2. DOMAIN new = DOMAIN acc /\ new.bit = acc.bit /\ new.multi = acc.multi
    BY <2>1 DEF Collected
  <2> QED  BY <2>2 DEF Collected, new
<1>3. CASE tests # None /\ ~(Len(tests) = 1 /\ ~never_single)
  <2>1. new = [acc EXCEPT !.multi = acc.multi \o FlattenSeq(copies)]
    BY <1>3 DEF ComputeMultiRules
  <2>2. /\ protos \in {<<proto>>, <<"tcp", "udp">>, <<"any">>}
        /\ IsList(protos)
    BY One, Two DEF Protos
  <2>3. jump.bits \subseteq HighByte
    BY DEF SetMark, HighByte, Collected
  <2> HIDE DEF jump, protos
  <2>4. ASSUME NEW test
        PROVE  IsList(Copies(test)) /\ \A r \in ToSet(Copies(test)) : r.jump = jump
    <3>1. Len(protos) \in Nat /\ DOMAIN protos = 1 .. Len(protos)
      BY <2>2, ListDomain
    <3>2. Copies(test) = [j \in 1 .. Len(protos) |-> Copies(test)[j]]
      BY <3>1
    <3>3. \A j \in 1 .. Len(protos) : Copies(test)[j].jump = jump
      BY <3>1 DEF MakeRule
    <3> HIDE DEF Copies
    <3> QED  BY <3>1, <3>2, <3>3, Lists
  <2>5. /\ IsList(copies) /\ DOMAIN copies = DOMAIN tests
        /\ \A i \in DOMAIN copies : copies[i] = Copies(tests[i])
    <3> HIDE DEF Copies
    <3>1. Len(tests) \in Nat /\ DOMAIN tests = 1 .. Len(tests)
      BY <1>3, ListDomain
    <3>2. copies = [i \in 1 .. Len(tests) |-> copies[i]]
      BY <3>1
    <3>3. IsList(copies)
      <4> HIDE DEF copies
      <4> QED  BY <3>1, <3>2, Lists
    <3> QED  BY <3>3
  <2> HIDE DEF Copies, copies
  <2>6. /\ IsList(FlattenSeq(copies))
        /\ \A r \in ToSet(FlattenSeq(copies)) : r.jump = jump
    BY <2>4, <2>5, ListFlattened
  <2> DEFINE more == FlattenSeq(copies)
             all == acc.multi \o more
  <2>7. IsList(all) /\ ToSet(all) = ToSet(acc.multi) \cup ToSet(more)
    <3> HIDE DEF more
    <3> QED  BY <2>6, ListJoined DEF Collected, more
  <2> HIDE DEF more
  <2>8. \A r \in ToSet(all) : r.jump.bits \subseteq HighByte
    BY <2>3, <2>6, <2>7 DEF Collected, more
  <2>9. new = [acc EXCEPT !.multi = all]
    BY <2>1 DEF more
  <2> HIDE DEF new, all
  <2>10. DOMAIN new = DOMAIN acc /\ new.bit = acc.bit /\ new.multi = all
    BY <2>9 DEF Collected
  <2> QED  BY <2>7, <2>8, <2>10 DEF Collected, new
<1> QED  BY <1>1, <1>2, <1>3

\* The next kind has the next bit.
LEMMA BitTaken ==
  ASSUME NEW n \in 0 .. 7, NEW acc, Collected(acc, n), NEW neg, NEW many
  PROVE  Collected(NextBit(acc, neg, many), n + 1)
<1> DEFINE new == NextBit(acc, neg, many)
<1>1. /\ DOMAIN new = DOMAIN acc /\ new.bit = acc.bit + 1 /\ new.multi = acc.multi
  BY DEF NextBit, Collected
<1> HIDE DEF new
<1> QED  BY <1>1 DEF Collected, new

\* The values of the options that are lists.
ListsKept(def) ==
    \A name \in DOMAIN def :
        /\ name \in Marks \cup Ports => def[name] = None \/ IsList(def[name])
        /\ name \in ToSet(UrlNames) \cup ToSet(NotUrlNames) => IsList(def[name])
        /\ name \in Addresses =>
              /\ IsList(def[name]) /\ Len(def[name]) = 3
              /\ \A i \in DOMAIN def[name] : IsList(def[name][i])

\* The tests of a kind are a list if their texts are.
LEMMA TestsListed ==
  ASSUME NEW kind, NEW texts, texts = None \/ IsList(texts)
  PROVE  Tests(kind, texts) = None \/ IsList(Tests(kind, texts))
<1>1. CASE texts = None
  BY <1>1 DEF Tests
<1>2. CASE texts # None
  <2> DEFINE tests == [i \in DOMAIN texts |-> Test(kind, texts[i])]
  <2>1. Tests(kind, texts) = tests
    BY <1>2 DEF Tests
  <2>2. Len(texts) \in Nat /\ DOMAIN texts = 1 .. Len(texts)
    BY <1>2, ListDomain
  <2>3. tests = [i \in 1 .. Len(texts) |-> tests[i]]
    BY <2>2
  <2> HIDE DEF tests
  <2> QED  BY <2>1, <2>2, <2>3, Lists
<1> QED  BY <1>1, <1>2

\* The texts of an option or of its negation.
LEMMA ListGiven ==
  ASSUME NEW def, ListsKept(def), NEW name \in Marks \cup Ports,
         NEW not_name \in Marks \cup Ports
  PROVE  ListOf(def, name, not_name) = None \/ IsList(ListOf(def, name, not_name))
BY DEF ListOf, Value, ListsKept

\* The URLs of the options of that kind, for each name and together.
LEMMA UrlsListed ==
  ASSUME NEW def, ListsKept(def),
         NEW names, IsList(names),
         ToSet(names) \subseteq ToSet(UrlNames) \cup ToSet(NotUrlNames)
  PROVE  IsList(FlattenSeq(UrlsAt(def, names)))
<1> DEFINE urls == UrlsAt(def, names)
<1>1. Len(names) \in Nat /\ DOMAIN names = 1 .. Len(names)
      /\ \A i \in DOMAIN names : names[i] \in ToSet(names)
  BY ListDomain
<1>2. IsList(urls) /\ DOMAIN urls = 1 .. Len(names)
  <2>1. urls = [i \in 1 .. Len(names) |-> urls[i]]
    BY <1>1 DEF UrlsAt
  <2> HIDE DEF urls
  <2> QED  BY <1>1, <2>1, Lists
<1>3. ASSUME NEW i \in DOMAIN urls PROVE IsList(urls[i])
  <2> DEFINE texts == Value(def, names[i])
             tests == [j \in DOMAIN texts |-> Test("url", <<i, texts[j]>>)]
  <2>1. urls[i] = IF texts = None THEN <<>> ELSE tests
    BY <1>1, <1>2 DEF UrlsAt
  <2>2. CASE texts = None
    BY <2>1, <2>2, Empty
  <2>3. CASE texts # None
    <3>1. IsList(texts)
      BY <1>1, <1>2, <2>3 DEF Value, ListsKept
    <3> HIDE DEF texts
    <3>2. Len(texts) \in Nat /\ DOMAIN texts = 1 .. Len(texts)
      BY <3>1, ListDomain
    <3>3. tests = [j \in 1 .. Len(texts) |-> tests[j]]
      BY <3>2
    <3> HIDE DEF tests
    <3>4. IsList(tests)
      BY <3>2, <3>3, Lists
    <3> QED  BY <2>1, <2>3, <3>4
  <2> QED  BY <2>2, <2>3
<1> HIDE DEF urls
<1> QED  BY <1>2, <1>3, ListFlattened DEF urls

LEMMA UrlTestsListed ==
  ASSUME NEW def, ListsKept(def)
  PROVE  IsList(FlattenSeq(UrlTests(def)))
<1>1. IsList(UrlNames) /\ IsList(NotUrlNames)
  <2>1. /\ UrlNames = [i \in 1 .. 6 |-> UrlNames[i]]
        /\ NotUrlNames = [i \in 1 .. 6 |-> NotUrlNames[i]]
    BY DEF UrlNames, NotUrlNames
  <2> QED  BY <2>1, Lists
<1>2. IsList(FlattenSeq(UrlsAt(def, UrlNames))) /\ IsList(FlattenSeq(UrlsAt(def, NotUrlNames)))
  BY <1>1, UrlsListed
<1> QED  BY <1>2 DEF UrlTests

\* The addresses of the three kinds, and without the last of them.
LEMMA AddressesListed ==
  ASSUME NEW lists, IsList(lists), Len(lists) = 3,
         \A i \in DOMAIN lists : IsList(lists[i])
  PROVE  IsList(FlattenSeq(lists)) /\ IsList(FlattenSeq(SubSeq(lists, 1, 2)))
<1> DEFINE two == SubSeq(lists, 1, 2)
           T == ToSet(lists)
<1>1. lists \in Seq(T) /\ DOMAIN lists = 1 .. 3
  BY ListDomain DEF IsList
<1> HIDE DEF T
<1>2. two \in Seq(T) /\ DOMAIN two = 1 .. 2 /\ \A i \in 1 .. 2 : two[i] = lists[i]
  BY <1>1
<1> HIDE DEF two
<1>3. IsList(two) /\ \A i \in DOMAIN two : IsList(two[i])
  BY <1>1, <1>2, Listed
<1> QED  BY <1>3, ListFlattened DEF two

\* A list of marks, connection marks or ports takes one bit.
LEMMA ListCollected ==
  ASSUME NEW n \in 0 .. 7, NEW acc, Collected(acc, n), NEW kind,
         NEW texts, texts = None \/ IsList(texts),
         NEW neg, NEW never_single, NEW proto, NEW requires
  PROVE  Collected(ListRules(acc, kind, texts, neg, never_single, proto, requires), n + 1)
<1>1. Tests(kind, texts) = None \/ IsList(Tests(kind, texts))
  BY TestsListed
<1>2. Collected(ComputeMultiRules(acc, Tests(kind, texts), never_single, neg, proto, requires), n)
  BY <1>1, OneKind
<1> QED  BY <1>2, BitTaken DEF ListRules

\* So do the addresses or the ports of a side.
LEMMA SideCollected ==
  ASSUME NEW n \in 0 .. 7, NEW acc, Collected(acc, n), NEW def, ListsKept(def),
         NEW kind \in {"src", "dst", "sport", "dport"}, NEW ingress,
         NEW what \in {"addr", "port"}, NEW proto, NEW include_proto
  PROVE  Collected(SideRules(acc, def, kind, ingress, what, proto, include_proto), n + 1)
<1> DEFINE source == kind \in {"src", "sport"}
           name == Option(FALSE, ingress, source, what)
           not_name == Option(TRUE, ingress, source, what)
           values == ListOf(def, name, not_name)
           neg == Negated(def, name, not_name)
<1>1. CASE what = "port"
  <2>1. name \in Marks \cup Ports /\ not_name \in Marks \cup Ports
    BY <1>1 DEF Option, Side, Ports, Marks
  <2> HIDE DEF name, not_name
  <2>2. values = None \/ IsList(values)
    BY <2>1, ListGiven
  <2>3. Collected(ListRules(acc, kind, values, neg, FALSE, proto, TRUE), n + 1)
    <3> HIDE DEF values, neg
    <3> QED  BY <2>2, ListCollected
  <2> QED  BY <1>1, <2>3 DEF SideRules, name, not_name
<1>2. CASE what = "addr"
  <2>1. name \in Addresses /\ not_name \in Addresses
    BY <1>2 DEF Option, Side, Addresses
  <2>2. SideRules(acc, def, kind, ingress, what, proto, include_proto)
          = AddressRules(acc, kind, values, neg, proto, include_proto)
    BY <1>2 DEF SideRules
  <2> HIDE DEF name, not_name
  <2>3. CASE values = None
    <3>1. AddressRules(acc, kind, values, neg, proto, include_proto) = acc
      BY <2>3 DEF AddressRules
    <3> QED  BY <2>2, <3>1 DEF Collected
  <2>4. CASE values # None
    <3>1. IsList(values) /\ Len(values) = 3 /\ \A i \in DOMAIN values : IsList(values[i])
      BY <2>1, <2>4 DEF ListOf, Value, ListsKept
    <3> HIDE DEF values, neg
    <3> DEFINE texts == FlattenSeq(IF kind = "src" THEN values ELSE SubSeq(values, 1, 2))
               many == Len(texts) > 1
               added == ComputeMultiRules(acc, Tests(kind, texts), many, neg, proto, include_proto)
    <3>2. IsList(texts)
      BY <3>1, AddressesListed
    <3>3. AddressRules(acc, kind, values, neg, proto, include_proto) = NextBit(added, neg, many)
      BY <2>4 DEF AddressRules
    <3> HIDE DEF texts
    <3>4. Collected(added, n)
      <4>1. Tests(kind, texts) = None \/ IsList(Tests(kind, texts))
        BY <3>2, TestsListed
      <4> QED  BY <4>1, OneKind
    <3> HIDE DEF added, many
    <3> QED  BY <2>2, <3>3, <3>4, BitTaken
  <2> QED  BY <2>3, <2>4
<1> QED  BY <1>1, <1>2

\* Seven kinds of lists and the single tests: eight bits at most.
LEMMA AllCollected ==
  ASSUME NEW def, ListsKept(def), NEW ingress
  PROVE  Collected(Computed(def, ingress), 8)
<1> DEFINE include_proto == ProtoOf(def) # "both"
           proto == IF UrlCount(def) > 0 THEN "tcp" ELSE ProtoOf(def)
           single == [Nothing EXCEPT !.single = SingleTests(def)]
           urls == UrlRules(single, def, proto, include_proto)
           marks == MarkRules(urls, def, proto, include_proto)
           connmarks == ConnmarkRules(marks, def, proto, include_proto)
           src == SideRules(connmarks, def, "src", ingress, "addr", proto, include_proto)
           dst == SideRules(src, def, "dst", ingress, "addr", proto, include_proto)
           yes == TRUE
           sport == SideRules(dst, def, "sport", ingress, "port", proto, yes)
           dport == SideRules(sport, def, "dport", ingress, "port", proto, yes)
<1>1. Computed(def, ingress) = SingleRule(dport, def, proto)
  BY DEF Computed
<1> HIDE DEF include_proto, proto, yes
<1>2. Collected(single, 0)
  <2>1. DOMAIN single = {"multi", "single", "bit", "negs", "many"}
        /\ single.bit = 0 /\ single.multi = <<>>
    BY DEF Nothing
  <2> HIDE DEF single
  <2>2. IsList(<<>>) /\ ToSet(<<>>) = {} /\ 0 \in 0 .. 0
    BY Empty
  <2> QED  BY <2>1, <2>2 DEF Collected
<1> HIDE DEF single
<1>3. Collected(urls, 1)
  <2> DEFINE many == UrlCount(def) > 1
             added == ComputeMultiRules(single, FlattenSeq(UrlTests(def)), many,
                                        UrlNegated(def), proto, include_proto)
  <2>1. Collected(added, 0)
    BY <1>2, UrlTestsListed, OneKind
  <2>2. urls = NextBit(added, UrlNegated(def), many)
    BY DEF UrlRules
  <2> HIDE DEF added, urls, many
  <2> QED  BY <2>1, <2>2, BitTaken
<1> HIDE DEF urls
<1>4. Collected(marks, 2)
  <2> DEFINE texts == ListOf(def, "mark", "not_mark")
             neg == Negated(def, "mark", "not_mark")
  <2>1. texts = None \/ IsList(texts)
    BY ListGiven DEF Marks
  <2>2. marks = ListRules(urls, "mark", texts, neg, neg, proto, include_proto)
    BY DEF MarkRules
  <2> HIDE DEF texts, neg, marks
  <2> QED  BY <1>3, <2>1, <2>2, ListCollected
<1> HIDE DEF marks
<1>5. Collected(connmarks, 3)
  <2> DEFINE texts == ListOf(def, "connmark", "not_connmark")
             neg == Negated(def, "connmark", "not_connmark")
  <2>1. texts = None \/ IsList(texts)
    BY ListGiven DEF Marks
  <2> DEFINE no == FALSE
  <2>2. connmarks = ListRules(marks, "connmark", texts, neg, no, proto, include_proto)
    BY DEF ConnmarkRules
  <2> HIDE DEF texts, neg, connmarks, no
  <2>3. Collected(connmarks, 2 + 1)
    BY <1>4, <2>1, <2>2, ListCollected
  <2> QED  BY <2>3
<1> HIDE DEF connmarks
<1>6. Collected(src, 4)
  BY <1>5, SideCollected
<1> HIDE DEF src
<1>7. Collected(dst, 5)
  BY <1>6, SideCollected
<1> HIDE DEF dst
<1>8. Collected(sport, 6)
  <2>1. Collected(sport, 5 + 1)
    BY <1>7, SideCollected
  <2> QED  BY <2>1
<1> HIDE DEF sport
<1>9. Collected(dport, 7)
  <2>1. Collected(dport, 6 + 1)
    BY <1>8, SideCollected
  <2> QED  BY <2>1
<1> HIDE DEF dport
<1>10. CASE dport.multi = <<>> \/ dport.single = <<>>
  <2>1. SingleRule(dport, def, proto) = dport
    BY <1>10 DEF SingleRule
  <2> QED  BY <1>1, <1>9, <2>1 DEF Collected
<1>11. CASE ~(dport.multi = <<>> \/ dport.single = <<>>)
  <2> DEFINE protos == Protos(proto, proto # "both" \/ PortsGiven(def))
             jump == SetMark({dport.bit}, {dport.bit})
             more == [j \in DOMAIN protos |-> MakeRule(protos[j], dport.single, jump)]
             all == dport.multi \o more
             new == SingleRule(dport, def, proto)
  <2>1. IsList(protos)
    BY One, Two DEF Protos
  <2>2. jump.bits \subseteq HighByte
    BY <1>9 DEF SetMark, HighByte, Collected
  <2> HIDE DEF protos, jump
  <2>3. IsList(more) /\ \A r \in ToSet(more) : r.jump = jump
    <3>1. Len(protos) \in Nat /\ DOMAIN protos = 1 .. Len(protos)
      BY <2>1, ListDomain
    <3>2. more = [j \in 1 .. Len(protos) |-> more[j]]
      BY <3>1
    <3>3. \A j \in 1 .. Len(protos) : more[j].jump = jump
      BY <3>1 DEF MakeRule
    <3> HIDE DEF more
    <3> QED  BY <3>1, <3>2, <3>3, Lists
  <2>4. new = [dport EXCEPT !.multi = all, !.bit = @ + 1, !.many = Append(@, TRUE),
                            !.negs = Append(@, FALSE)]
    BY <1>11 DEF SingleRule, protos, jump
  <2> HIDE DEF more
  <2>5. IsList(all) /\ ToSet(all) = ToSet(dport.multi) \cup ToSet(more)
    BY <1>9, <2>3, ListJoined DEF Collected
  <2>6. \A r \in ToSet(all) : r.jump.bits \subseteq HighByte
    BY <1>9, <2>2, <2>3, <2>5 DEF Collected
  <2> HIDE DEF all, new
  <2>7. DOMAIN new = DOMAIN dport /\ new.multi = all /\ new.bit = dport.bit + 1
    BY <1>9, <2>4 DEF Collected
  <2>8. Collected(new, 8)
    BY <1>9, <2>5, <2>6, <2>7 DEF Collected
  <2> QED  BY <1>1, <2>8 DEF new
<1> QED  BY <1>10, <1>11

-----------------------------------------------------------------------------
(* What the rules set and what they reset.                                  *)

\* The rules set bits of the high byte only, and the last one takes them all
\* away, if there is one that sets any.
Resetting(list) ==
    /\ IsList(list)
    /\ \A rule \in ToSet(list) : rule.jump.bits \subseteq HighByte
    /\ \/ Len(list) > 0 /\ list[Len(list)] = Reset
       \/ \A rule \in ToSet(list) : rule.jump.bits = {}

\* What a list ends with when one element is added.
LEMMA LastJoined ==
  ASSUME NEW s, NEW t, NEW e, IsList(s), IsList(t), Len(t) = 1, t[1] = e
  PROVE  Len(s \o t) > 0 /\ (s \o t)[Len(s \o t)] = e
<1> DEFINE all == s \o t
           n == Len(s)
<1>1. Len(all) = n + 1 /\ n \in Nat
  <2>1. Len(all) = n + Len(t)
    BY ListJoined, Zenon
  <2>2. n \in Nat
    BY ListDomain, Zenon
  <2> HIDE DEF all, n
  <2> QED  BY <2>1, <2>2
<1>2. all[n + 1] = e
  <2>1. \A k \in 1 .. Len(t) : all[n + k] = t[k]
    BY ListJoined
  <2>2. 1 \in 1 .. Len(t)
    OBVIOUS
  <2> HIDE DEF all, n
  <2> QED  BY <2>1, <2>2
<1> HIDE DEF all, n
<1>3. Len(all) > 0 /\ all[Len(all)] = e
  BY <1>1, <1>2
<1> QED  BY <1>3 DEF all

\* Rules that set bits of the byte, and the reset behind them.
LEMMA EndsReset ==
  ASSUME NEW s, IsList(s), \A rule \in ToSet(s) : rule.jump.bits \subseteq HighByte
  PROVE  Resetting(s \o <<Reset>>)
<1> DEFINE t == <<Reset>>
           all == s \o t
<1>1. IsList(t) /\ ToSet(t) = {Reset} /\ Len(t) = 1 /\ t[1] = Reset
  BY One
<1>2. Reset.jump.bits = {}
  BY RuleFields, SetMarkFields, JumpFields DEF Reset
<1> HIDE DEF t
<1>3. IsList(all) /\ ToSet(all) = ToSet(s) \cup {Reset}
  BY <1>1, ListJoined
<1>4. Len(all) > 0 /\ all[Len(all)] = Reset
  BY <1>1, LastJoined
<1> HIDE DEF all
<1>5. Resetting(all)
  BY <1>2, <1>3, <1>4 DEF Resetting
<1> QED  BY <1>5 DEF all, t

\* The rules that set the bits of negated lists.
LEMMA InitialSet ==
  ASSUME NEW acc, Collected(acc, 8)
  PROVE  /\ IsList(InitialRules(acc))
         /\ \A rule \in ToSet(InitialRules(acc)) : rule.jump.bits \subseteq HighByte
<1> DEFINE r == MakeRule("any", <<>>, SetMark(InitialMark(acc), HighByte))
           q == MakeRule("tcp", <<HttpRequest>>, SetMark({0}, {0}))
           one == IF InitialMark(acc) = {} THEN <<>> ELSE <<r>>
           two == IF ~(acc.many[1] /\ acc.negs[1]) THEN <<>> ELSE <<q>>
<1>1. InitialMark(acc) \subseteq HighByte
  BY DEF InitialMark, Bits, HighByte, Collected
<1>2. r.jump.bits \subseteq HighByte /\ q.jump.bits \subseteq HighByte
  BY <1>1, RuleFields, SetMarkFields DEF HighByte
<1>3. InitialRules(acc) = one \o two
  BY DEF InitialRules
<1> HIDE DEF r, q
<1>4. IsList(one) /\ ToSet(one) \subseteq {r}
  BY Empty, One
<1>5. IsList(two) /\ ToSet(two) \subseteq {q}
  BY Empty, One
<1> HIDE DEF one, two
<1>6. IsList(one \o two) /\ ToSet(one \o two) = ToSet(one) \cup ToSet(two)
  BY <1>4, <1>5, ListJoined
<1> QED  BY <1>2, <1>3, <1>4, <1>5, <1>6

\* The rules with the bits, the target's and the reset at the end.
LEMMA BitsReset ==
  ASSUME NEW acc, Collected(acc, 8), NEW target, NEW options, NEW proto
  PROVE  Resetting(BitRules(acc, target, options, proto))
<1> DEFINE none == ""
           found == ByteIs(FinalMatch(acc), FALSE)
           a == MakeRule("tcp", <<found>>, JumpTo("REJECT", "tcp-reset"))
           b == MakeRule("any", <<found>>, JumpTo("REJECT", none))
           c == MakeRule(IF options = "tcp-reset" THEN "tcp" ELSE "any", <<found>>,
                         JumpTo(target, options))
           last == IF target = "REJECT" /\ options = "" /\ proto # "both"
                   THEN <<a, b>> ELSE <<c>>
           first == InitialRules(acc) \o acc.multi
           s == first \o last
<1>1. BitRules(acc, target, options, proto) = s \o <<Reset>>
  BY DEF BitRules
<1> HIDE DEF found, none
<1>2. a.jump.bits = {} /\ b.jump.bits = {} /\ c.jump.bits = {}
  BY RuleFields, JumpFields
<1> HIDE DEF a, b, c
<1>3. IsList(last) /\ ToSet(last) \subseteq {a, b, c}
  <2>1. last \in {<<a, b>>, <<c>>}
    OBVIOUS
  <2> HIDE DEF last
  <2>2. IsList(<<a, b>>) /\ ToSet(<<a, b>>) = {a, b}
    BY Two
  <2>3. IsList(<<c>>) /\ ToSet(<<c>>) = {c}
    BY One
  <2> QED  BY <2>1, <2>2, <2>3
<1> HIDE DEF last
<1>4. IsList(first) /\ ToSet(first) = ToSet(InitialRules(acc)) \cup ToSet(acc.multi)
  BY InitialSet, ListJoined DEF Collected
<1>5. \A rule \in ToSet(first) : rule.jump.bits \subseteq HighByte
  BY <1>4, InitialSet DEF Collected
<1> HIDE DEF first
<1>6. IsList(s) /\ ToSet(s) = ToSet(first) \cup ToSet(last)
  BY <1>3, <1>4, ListJoined
<1>7. \A rule \in ToSet(s) : rule.jump.bits \subseteq HighByte
  BY <1>2, <1>3, <1>5, <1>6
<1> HIDE DEF s
<1> QED  BY <1>1, <1>6, <1>7, EndsReset

\* Without bits nothing is marked.
LEMMA SinglesSetNothing ==
  ASSUME NEW acc, NEW def, NEW target, NEW options, NEW proto
  PROVE  /\ IsList(SingleRules(acc, def, target, options, proto))
         /\ \A rule \in ToSet(SingleRules(acc, def, target, options, proto)) :
               rule.jump.bits = {}
<1> DEFINE r == MakeRule("tcp", acc.single, JumpTo("REJECT", "tcp-reset"))
           F(p) == MakeRule(p, acc.single, JumpTo(target, options))
           all == SingleRules(acc, def, target, options, proto)
           any == F("any")  tcp == F("tcp")  udp == F("udp")  given == F(proto)
           Rules == {r, any, tcp, udp, given}
<1>1. \A rule \in Rules : rule.jump.bits = {}
  BY RuleFields, SetMarkFields, JumpFields
<1>2. all \in {<<given>>, <<>> \o <<any>>, <<r>> \o <<any>>, <<r>> \o <<udp>>, <<tcp>> \o <<udp>>}
  BY Zenon DEF SingleRules
<1> HIDE DEF r, any, tcp, udp, given, all
<1>3. \A x \in Rules : IsList(<<x>>) /\ ToSet(<<x>>) \subseteq Rules
  <2> SUFFICES ASSUME NEW x \in Rules PROVE IsList(<<x>>) /\ ToSet(<<x>>) = {x}
    OBVIOUS
  <2> QED  BY One
<1>4. IsList(<<>>) /\ ToSet(<<>>) \subseteq Rules
  BY Empty
<1>5. IsList(all) /\ ToSet(all) \subseteq Rules
  <2>1. CASE all = <<given>>
    BY <2>1, <1>3
  <2>2. CASE all = <<>> \o <<any>>
    BY <2>2, <1>3, <1>4, ListJoined
  <2>3. CASE all = <<r>> \o <<any>>
    BY <2>3, <1>3, ListJoined
  <2>4. CASE all = <<r>> \o <<udp>>
    BY <2>4, <1>3, ListJoined
  <2>5. CASE all = <<tcp>> \o <<udp>>
    BY <2>5, <1>3, ListJoined
  <2> QED  BY <1>2, <2>1, <2>2, <2>3, <2>4, <2>5
<1> HIDE DEF Rules
<1> QED  BY <1>1, <1>5 DEF all

\* What compute_rules returns.
LEMMA RulesReset ==
  ASSUME NEW def, ListsKept(def), NEW ingress, NEW target, NEW options
  PROVE  Resetting(ComputeRules(def, ingress, target, options))
<1> DEFINE acc == Computed(def, ingress)
           proto == IF UrlCount(def) > 0 THEN "tcp" ELSE ProtoOf(def)
           opts == TargetOptions(target, options, proto)
           first == IF acc.multi # <<>> THEN BitRules(acc, target, opts, proto)
                    ELSE SingleRules(acc, def, target, opts, proto)
           more == FollowUpRules(def, target, ingress)
<1>1. ComputeRules(def, ingress, target, options) = first \o more
  BY DEF ComputeRules
<1>2. Resetting(first)
  <2>1. Collected(acc, 8)
    BY AllCollected
  <2> HIDE DEF acc, proto, opts
  <2>2. Resetting(BitRules(acc, target, opts, proto))
    BY <2>1, BitsReset
  <2>3. Resetting(SingleRules(acc, def, target, opts, proto))
    BY SinglesSetNothing DEF Resetting
  <2> QED  BY <2>2, <2>3
<1> HIDE DEF first
<1>3. CASE more = <<>>
  <2>1. first \o <<>> = first
    <3>1. first \in Seq(ToSet(first))
      BY <1>2 DEF Resetting, IsList
    <3> QED  BY <3>1
  <2> QED  BY <1>1, <1>2, <1>3, <2>1
<1>4. CASE more # <<>>
  <2> DEFINE none == ""
             a == MakeRule("tcp", <<HttpRequest>>, SetMark(HighByte, HighByte))
             b == MakeRule("tcp", <<Test("dport", "80"), ByteIs(HighByte, TRUE)>>,
                           JumpTo("ACCEPT", none))
             two == <<a, b>>
             s == first \o two
  <2>1. more = <<a, b, Reset>>
    BY <1>4, Zenon DEF FollowUpRules
  <2>2. a.jump.bits = HighByte /\ b.jump.bits = {}
    <3> HIDE DEF none
    <3> QED  BY RuleFields, SetMarkFields, JumpFields
  <2> HIDE DEF a, b
  <2>3. IsList(two) /\ ToSet(two) = {a, b}
    BY Two
  <2>4. IsList(s) /\ ToSet(s) = ToSet(first) \cup {a, b}
    BY <1>2, <2>3, ListJoined DEF Resetting
  <2>5. \A rule \in ToSet(s) : rule.jump.bits \subseteq HighByte
    BY <1>2, <2>2, <2>4 DEF Resetting
  <2>6. first \o more = s \o <<Reset>>
    <3> DEFINE T == ToSet(first) \cup {a, b, Reset}
    <3>1. first \in Seq(T)
      BY <1>2, Wider DEF Resetting
    <3>2. a \in T /\ b \in T /\ Reset \in T
      OBVIOUS
    <3> HIDE DEF T
    <3>3. first \o <<a, b, Reset>> = (first \o <<a, b>>) \o <<Reset>>
      BY <3>1, <3>2
    <3> QED  BY <2>1, <3>3
  <2> HIDE DEF s
  <2> QED  BY <1>1, <2>4, <2>5, <2>6, EndsReset
<1> QED  BY <1>3, <1>4

-----------------------------------------------------------------------------
(* Reading the options of a section.                                        *)

Urls == ToSet(UrlNames) \cup ToSet(NotUrlNames)

\* The names of the URL options.
LEMMA UrlSet ==
  Urls = {"url_contains", "url_regex", "url_exact", "url_domain_contains",
          "url_domain_regex", "url_domain_exact", "not_url_contains",
          "not_url_regex", "not_url_exact", "not_url_domain_contains",
          "not_url_domain_regex", "not_url_domain_exact"}
<1>1. DOMAIN UrlNames = 1 .. 6 /\ DOMAIN NotUrlNames = 1 .. 6
  BY DEF UrlNames, NotUrlNames
<1>2. 1 .. 6 = {1, 2, 3, 4, 5, 6}
  OBVIOUS
<1>3. ToSet(UrlNames) = {UrlNames[1], UrlNames[2], UrlNames[3], UrlNames[4],
                         UrlNames[5], UrlNames[6]}
  BY <1>1, <1>2 DEF ToSet
<1>4. ToSet(NotUrlNames) = {NotUrlNames[1], NotUrlNames[2], NotUrlNames[3],
                            NotUrlNames[4], NotUrlNames[5], NotUrlNames[6]}
  BY <1>1, <1>2 DEF ToSet
<1>5. /\ UrlNames[1] = "url_contains" /\ UrlNames[2] = "url_regex"
      /\ UrlNames[3] = "url_exact" /\ UrlNames[4] = "url_domain_contains"
      /\ UrlNames[5] = "url_domain_regex" /\ UrlNames[6] = "url_domain_exact"
  BY DEF UrlNames
<1>6. /\ NotUrlNames[1] = "not_url_contains" /\ NotUrlNames[2] = "not_url_regex"
      /\ NotUrlNames[3] = "not_url_exact" /\ NotUrlNames[4] = "not_url_domain_contains"
      /\ NotUrlNames[5] = "not_url_domain_regex"
      /\ NotUrlNames[6] = "not_url_domain_exact"
  BY DEF NotUrlNames
<1> QED  BY <1>3, <1>4, <1>5, <1>6 DEF Urls

\* No option is of two kinds.
LEMMA KindsApart ==
  /\ \A x \in Plain \cup Periods : x \notin Marks \cup Addresses \cup Ports \cup Urls
  /\ \A x \in Plain : x \notin Periods
  /\ \A x \in Marks : x \notin Addresses \cup Ports \cup Urls
  /\ \A x \in Addresses : x \notin Marks \cup Ports \cup Urls
  /\ \A x \in Ports : x \notin Marks \cup Addresses \cup Urls
  /\ \A x \in Urls : x \notin Marks \cup Addresses \cup Ports
BY UrlSet DEF Plain, Periods, Marks, Addresses, Ports

\* The value an option of a section may have once it has been read.
ValueKept(name, value) ==
    /\ name \in Marks \cup Ports => value = None \/ IsList(value)
    /\ name \in Urls => IsList(value)
    /\ name \in Addresses =>
          IsList(value) /\ Len(value) = 3 /\ \A i \in DOMAIN value : IsList(value[i])

\* The definition is right if each of its values is.
LEMMA KeptByValue ==
  ASSUME NEW def
  PROVE  ListsKept(def) <=> \A name \in DOMAIN def : ValueKept(name, def[name])
BY DEF ListsKept, ValueKept, Urls

\* It stays right when an option with a right value is put into it.
LEMMA PutKept ==
  ASSUME NEW def, ListsKept(def), NEW name, NEW value, ValueKept(name, value)
  PROVE  ListsKept(Put(def, name, value))
<1> DEFINE new == Put(def, name, value)
<1>1. DOMAIN new = DOMAIN def \cup {name}
      /\ \A n \in DOMAIN new : new[n] = IF n = name THEN value ELSE def[n]
  BY DEF Put
<1> HIDE DEF new
<1>2. \A n \in DOMAIN def : ValueKept(n, def[n])
  BY KeptByValue
<1>3. \A n \in DOMAIN new : ValueKept(n, new[n])
  BY <1>1, <1>2
<1>4. ListsKept(new)
  BY <1>3, KeptByValue
<1> QED  BY <1>4 DEF new

\* What the constants give is a list.
LEMMA SequenceListed ==
  ASSUME NEW s, IsSequence(s)
  PROVE  IsList(s) /\ DOMAIN s = 1 .. Len(s) /\ Len(s) \in Nat
<1>1. Len(s) \in Nat /\ s = [i \in 1 .. Len(s) |-> s[i]]
  BY DEF IsSequence
<1> QED  BY <1>1, Lists

\* What is built out of parts, one for each place of a list.
LEMMA PartsListed ==
  ASSUME NEW s, IsList(s), NEW parts, parts = [i \in DOMAIN s |-> parts[i]],
         \A i \in DOMAIN s : IsList(parts[i])
  PROVE  IsList(FlattenSeq(parts))
<1>1. Len(s) \in Nat /\ DOMAIN s = 1 .. Len(s)
  BY ListDomain
<1>2. IsList(parts) /\ DOMAIN parts = DOMAIN s
  BY <1>1, Lists
<1> QED  BY <1>2, ListFlattened

\* Three lists in a list.
LEMMA ThreeListed ==
  ASSUME NEW a, NEW b, NEW c, IsList(a), IsList(b), IsList(c)
  PROVE  /\ IsList(<<a, b, c>>) /\ Len(<<a, b, c>>) = 3
         /\ \A i \in DOMAIN <<a, b, c>> : IsList(<<a, b, c>>[i])
<1> DEFINE t == <<a, b, c>>
<1>1. t \in Seq({a, b, c}) /\ Len(t) = 3 /\ DOMAIN t = 1 .. 3
      /\ t[1] = a /\ t[2] = b /\ t[3] = c
  OBVIOUS
<1>2. \A i \in 1 .. 3 : i = 1 \/ i = 2 \/ i = 3
  OBVIOUS
<1> HIDE DEF t
<1>3. IsList(t)
  BY <1>1, Listed
<1>4. \A i \in DOMAIN t : IsList(t[i])
  BY <1>1, <1>2
<1> QED  BY <1>1, <1>3, <1>4 DEF t

\* Addresses become three lists, or nothing.
LEMMA AddressesParsed ==
  ASSUME NEW pieces, IsList(pieces), NEW lists, lists = ParseAddresses(pieces), lists # None
  PROVE  \E a, b, c : IsList(a) /\ IsList(b) /\ IsList(c) /\ lists = <<a, b, c>>
<1> DEFINE Part(kind, i) == IF pieces[i].kind = kind THEN <<pieces[i].text>> ELSE <<>>
           Parts(kind) == [i \in DOMAIN pieces |-> Part(kind, i)]
           Of(kind) == FlattenSeq(Parts(kind))
           a == Of("ip")
           b == Of("range")
           c == Of("mac")
<1>1. lists = <<a, b, c>>
  BY DEF ParseAddresses
<1>2. ASSUME NEW kind PROVE IsList(Of(kind))
  <2>1. ASSUME NEW i \in DOMAIN pieces PROVE IsList(Part(kind, i))
    BY Empty, One
  <2> HIDE DEF Part
  <2>2. /\ Parts(kind) = [i \in DOMAIN pieces |-> Parts(kind)[i]]
        /\ \A i \in DOMAIN pieces : IsList(Parts(kind)[i])
    BY <2>1
  <2> HIDE DEF Parts
  <2> QED  BY <2>2, PartsListed
<1> HIDE DEF Of
<1> QED  BY <1>1, <1>2

\* A quoted list becomes a list of words.
LEMMA QuotedParsed ==
  ASSUME NEW tokens, IsList(tokens)
  PROVE  IsList(ParseQuotedList(tokens))
<1> DEFINE quotes == {i \in DOMAIN tokens : tokens[i] = Quote}
           opening == {i \in quotes :
                        /\ Cardinality({j \in quotes : j < i}) % 2 = 0
                        /\ \E j \in quotes : j > i}
           From(i) == SubSeq(tokens, i + 1, Min({j \in quotes : j > i}) - 1)
           Part(i) == IF i \in opening THEN <<From(i)>> ELSE <<>>
           parts == [i \in DOMAIN tokens |-> Part(i)]
           all == FlattenSeq(parts)
<1>1. ParseQuotedList(tokens) = IF opening = {} THEN <<tokens>> ELSE all
  BY DEF ParseQuotedList
<1> HIDE DEF opening, From
<1>2. IsList(all)
  <2>1. ASSUME NEW i \in DOMAIN tokens PROVE IsList(Part(i))
    BY Empty, One
  <2> HIDE DEF Part
  <2>2. /\ parts = [i \in DOMAIN tokens |-> parts[i]]
        /\ \A i \in DOMAIN tokens : IsList(parts[i])
    BY <2>1
  <2> HIDE DEF parts
  <2> QED  BY <2>2, PartsListed
<1> HIDE DEF all
<1> QED  BY <1>1, <1>2, One

\* The value of an option of a list is a list.
LEMMA ValueListed ==
  ASSUME NEW c \in Cases, NEW i \in DOMAIN c.options,
         OptionName(c.options[i]) \in ListNames
  PROVE  IsList(OptionValue(c.options[i]))
<1> DEFINE o == c.options[i]
<1>1. /\ IsSequence(o.value)
      /\ o.list => \A j \in DOMAIN o.value : IsSequence(o.value[j])
  BY SectionAssumption
<1> HIDE DEF o
<1>2. IsList(o.value)
  BY <1>1, SequenceListed
<1>3. CASE o.list
  <2>1. \A j \in DOMAIN o.value : IsList(o.value[j])
    BY <1>1, <1>3, SequenceListed
  <2> QED  BY <1>2, <1>3, <2>1, ListFlattened DEF OptionValue, o
<1>4. CASE ~o.list
  BY <1>2, <1>4 DEF OptionValue, o
<1> QED  BY <1>3, <1>4

\* Reading an option keeps the definition right.
LEMMA ParsedKept ==
  ASSUME NEW def, ListsKept(def), NEW name, NEW value,
         name \in ListNames => IsList(value)
  PROVE  ListsKept(ParseOption(def, name, value))
<1> DEFINE new == ParseOption(def, name, value)
<1>1. ListNames = Marks \cup Addresses \cup Ports \cup Urls
  BY DEF ListNames, Urls
<1>2. CASE name \in Plain
  <2>1. new = Put(def, name, value)
    <3>1. name \notin Periods /\ name \notin Marks /\ name \notin Addresses
          /\ name \notin Ports /\ name \notin Urls
      BY <1>2, KindsApart
    <3> QED  BY <1>2, <3>1 DEF ParseOption, Urls
  <2>2. ValueKept(name, value)
    BY <1>2, KindsApart DEF ValueKept
  <2> QED  BY <2>1, <2>2, PutKept
<1>3. CASE name \in Periods
  <2>1. new = IF value = "all" THEN def ELSE Put(def, name, value)
    <3>1. name \notin Plain /\ name \notin Marks /\ name \notin Addresses
          /\ name \notin Ports /\ name \notin Urls
      BY <1>3, KindsApart
    <3> QED  BY <1>3, <3>1 DEF ParseOption, Urls
  <2>2. ValueKept(name, value)
    BY <1>3, KindsApart DEF ValueKept
  <2> QED  BY <2>1, <2>2, PutKept
<1>4. CASE name \in Marks
  <2>1. new = Put(def, name, ParseMarks(value))
    <3>1. name \notin Plain /\ name \notin Periods /\ name \notin Addresses
          /\ name \notin Ports /\ name \notin Urls
      BY <1>4, KindsApart
    <3> QED  BY <1>4, <3>1 DEF ParseOption, Urls
  <2>2. ParseMarks(value) = None \/ IsList(ParseMarks(value))
    BY <1>1, <1>4 DEF ParseMarks
  <2>3. ValueKept(name, ParseMarks(value))
    BY <1>4, <2>2, KindsApart DEF ValueKept
  <2> QED  BY <2>1, <2>3, PutKept
<1>5. CASE name \in Addresses
  <2> DEFINE lists == ParseAddresses(value)
             local == name \in {"local_addr", "not_local_addr"}
             short == [lists EXCEPT ![3] = <<>>]
             kept == IF local THEN lists ELSE short
  <2>1. new = IF lists = None THEN def ELSE Put(def, name, kept)
    <3>1. name \notin Plain /\ name \notin Periods /\ name \notin Marks
          /\ name \notin Ports /\ name \notin Urls
      BY <1>5, KindsApart
    <3> QED  BY <1>5, <3>1 DEF ParseOption, Urls
  <2>2. CASE lists = None
    BY <2>1, <2>2
  <2>3. CASE lists # None
    <3>1. PICK a, b, c : IsList(a) /\ IsList(b) /\ IsList(c) /\ lists = <<a, b, c>>
      BY <1>1, <1>5, <2>3, AddressesParsed
    <3>2. short = <<a, b, <<>>>>
      BY <3>1
    <3>3. kept = <<a, b, c>> \/ kept = <<a, b, <<>>>>
      BY <3>1, <3>2
    <3> HIDE DEF kept, lists
    <3>4. IsList(kept) /\ Len(kept) = 3 /\ \A i \in DOMAIN kept : IsList(kept[i])
      BY <3>1, <3>3, ThreeListed, Empty
    <3>5. ValueKept(name, kept)
      BY <1>5, <3>4, KindsApart DEF ValueKept
    <3> QED  BY <2>1, <2>3, <3>5, PutKept
  <2> QED  BY <2>2, <2>3
<1>6. CASE name \in Ports
  <2>1. new = Put(def, name, value)
    <3>1. name \notin Plain /\ name \notin Periods /\ name \notin Marks
          /\ name \notin Addresses /\ name \notin Urls
      BY <1>6, KindsApart
    <3> QED  BY <1>6, <3>1 DEF ParseOption, Urls
  <2>2. ValueKept(name, value)
    BY <1>1, <1>6, KindsApart DEF ValueKept
  <2> QED  BY <2>1, <2>2, PutKept
<1>7. CASE name \in Urls
  <2> DEFINE old == IF name \in DOMAIN def THEN def[name] ELSE <<>>
             kept == old \o ParseQuotedList(value)
  <2>1. new = Put(def, name, kept)
    <3>1. name \notin Plain /\ name \notin Periods /\ name \notin Marks
          /\ name \notin Addresses /\ name \notin Ports
      BY <1>7, KindsApart
    <3>2. new = AddUrls(def, name, value)
      BY <1>7, <3>1 DEF ParseOption, Urls
    <3> QED  BY <3>2 DEF AddUrls
  <2>2. IsList(old)
    BY <1>7, Empty DEF ListsKept, Urls
  <2>3. IsList(ParseQuotedList(value))
    BY <1>1, <1>7, QuotedParsed
  <2> HIDE DEF old
  <2>4. IsList(kept)
    BY <2>2, <2>3, ListJoined
  <2> HIDE DEF kept
  <2>5. ValueKept(name, kept)
    BY <1>7, <2>4, KindsApart DEF ValueKept
  <2> QED  BY <2>1, <2>5, PutKept
<1>8. CASE name \notin Plain \cup Periods \cup Marks \cup Addresses \cup Ports \cup Urls
  BY <1>8 DEF ParseOption, Urls
<1> QED  BY <1>2, <1>3, <1>4, <1>5, <1>6, <1>7, <1>8

-----------------------------------------------------------------------------
(* The rules and the packets.                                               *)

\* What of the rules and the mark every step keeps.
ReadInv ==
    /\ case \in Cases
    /\ read \in 0 .. Len(case.options)
    /\ ListsKept(definition)

RulesInv ==
    /\ installed \in Nat
    /\ rules = None => installed = 0
    /\ rules # None => Resetting(rules) /\ installed <= Len(rules)

\* Without rules, or without one that sets bits, the byte stays clean.
MarkInv ==
    /\ DOMAIN mark = {"byte", "low"} /\ mark.byte \subseteq HighByte
    /\ mark.byte # {} =>
          rules # None /\ Len(rules) > 0 /\ rules[Len(rules)] = Reset

\* A packet behind the last rule has left it clean.
ChainInv ==
    /\ size \in 0 .. installed /\ place \in 0 .. size + 1
    /\ packet # None => place > 0
    /\ packet # None /\ Complete /\ place > size => mark.byte = {}

RulesetInv == ReadInv /\ RulesInv /\ MarkInv /\ ChainInv

\* It holds at the start.
LEMMA RulesetStart == IptInit => RulesetInv
<1> SUFFICES ASSUME IptInit PROVE RulesetInv
  OBVIOUS
<1>1. ReadInv
  <2>1. IsSequence(case.options)
    BY SectionAssumption DEF IptInit
  <2>2. ListsKept(<<>>)
    BY DEF ListsKept
  <2> QED  BY <2>1, <2>2 DEF ReadInv, IptInit, IsSequence
<1>2. RulesInv
  BY DEF RulesInv, IptInit
<1>3. MarkInv
  BY DEF MarkInv, IptInit
<1>4. ChainInv
  BY DEF ChainInv, IptInit
<1> QED  BY <1>1, <1>2, <1>3, <1>4 DEF RulesetInv

\* Only the marking steps touch the mark, and only at a rule that is there.
LEMMA AtRule ==
  ASSUME RulesetInv, InChain
  PROVE  /\ rules # None /\ Resetting(rules) /\ Len(rules) \in Nat
         /\ place \in 1 .. Len(rules) /\ place <= size
         /\ rules[place].jump.bits \subseteq HighByte
<1>1. rules # None /\ place \in 1 .. size /\ size <= installed /\ installed <= Len(rules)
      /\ size \in Nat /\ installed \in Nat
  BY DEF RulesetInv, RulesInv, ChainInv, InChain
<1>2. Resetting(rules) /\ Len(rules) \in Nat /\ DOMAIN rules = 1 .. Len(rules)
  BY <1>1, ListDomain DEF RulesetInv, RulesInv, Resetting
<1>3. place \in 1 .. Len(rules)
  BY <1>1, <1>2
<1>4. rules[place] \in ToSet(rules)
  BY <1>2, <1>3, ListDomain DEF Resetting
<1> QED  BY <1>1, <1>2, <1>3, <1>4 DEF Resetting

\* The rule at the end of the others lets no packet pass unmarked.
LEMMA ResetTakesAll ==
  ASSUME NEW p
  PROVE  Matches(Reset, p) /\ Reset.jump.to = "CONNMARK"
         /\ Reset.jump.mask = HighByte /\ Reset.jump.bits = {}
<1>1. Reset.proto = "any" /\ Reset.tests = <<>> /\ Reset.jump = SetMark({}, HighByte)
  BY RuleFields DEF Reset
<1> DEFINE none == <<>>
<1>2. DOMAIN none = {}
  OBVIOUS
<1> QED  BY <1>1, <1>2, SetMarkFields DEF Matches

\* An option is read: the definition stays right.
LEMMA ReadOptionKeeps ==
  ASSUME RulesetInv, ReadOption PROVE RulesetInv'
<1> DEFINE k == read + 1
           o == case.options[k]
<1>1. UNCHANGED <<case, rules, installed, mark, packet, place, size, taken>>
  BY DEF ReadOption, chain
<1>2. /\ definition' = ParseOption(definition, OptionName(o), OptionValue(o))
      /\ read' = k /\ read < Len(case.options)
  BY DEF ReadOption
<1>3. IsSequence(case.options) /\ case \in Cases
  BY SectionAssumption DEF RulesetInv, ReadInv
<1>4. k \in DOMAIN case.options /\ k \in 0 .. Len(case.options)
  BY <1>2, <1>3, SequenceListed DEF RulesetInv, ReadInv
<1> HIDE DEF k
<1>5. OptionName(o) \in ListNames => IsList(OptionValue(o))
  BY <1>3, <1>4, ValueListed
<1> HIDE DEF o
<1>6. ListsKept(definition')
  BY <1>2, <1>5, ParsedKept DEF RulesetInv, ReadInv
<1>7. ReadInv'
  BY <1>1, <1>2, <1>3, <1>4, <1>6 DEF ReadInv
<1> QED  BY <1>1, <1>7 DEF RulesetInv, RulesInv, MarkInv, ChainInv, Complete

\* The rules are computed: they end with a reset or set nothing.
LEMMA ComputeKeeps ==
  ASSUME RulesetInv, Compute PROVE RulesetInv'
<1>1. /\ UNCHANGED <<case, definition, read, installed, mark, packet, place, size>>
      /\ rules = None
  BY DEF Compute, chain
<1>2. Resetting(rules')
  <2> DEFINE no == FALSE
             new == ComputeRules(definition, no, case.target, case.target_options)
  <2>1. rules' = new
    BY DEF Compute
  <2> HIDE DEF no
  <2>2. Resetting(new)
    BY RulesReset DEF RulesetInv, ReadInv
  <2> QED  BY <2>1, <2>2
<1>3. installed = 0 /\ mark.byte = {} /\ size = 0
  BY <1>1 DEF RulesetInv, RulesInv, MarkInv, ChainInv
<1>4. Len(rules') \in Nat
  BY <1>2, ListDomain DEF Resetting
<1>5. ReadInv'
  BY <1>1 DEF RulesetInv, ReadInv
<1>6. RulesInv'
  BY <1>1, <1>2, <1>3, <1>4 DEF RulesInv
<1>7. MarkInv' /\ ChainInv'
  BY <1>1, <1>3 DEF RulesetInv, MarkInv, ChainInv, Complete
<1> QED  BY <1>5, <1>6, <1>7 DEF RulesetInv

\* A rule is installed: packets in the chain do not see it.
LEMMA RunCommandKeeps ==
  ASSUME RulesetInv, RunCommand PROVE RulesetInv'
<1>1. /\ UNCHANGED <<case, definition, read, rules, mark, packet, place, size>>
      /\ installed' = installed + 1 /\ rules # None /\ installed < Len(rules)
  BY DEF RunCommand, chain
<1>2. Len(rules) \in Nat
  BY <1>1, ListDomain DEF RulesetInv, RulesInv, Resetting
<1>3. ReadInv' /\ MarkInv'
  BY <1>1 DEF RulesetInv, ReadInv, MarkInv
<1>4. RulesInv'
  BY <1>1, <1>2 DEF RulesetInv, RulesInv
<1>5. ChainInv'
  BY <1>1 DEF RulesetInv, RulesInv, ChainInv, Complete
<1> QED  BY <1>3, <1>4, <1>5 DEF RulesetInv

\* A packet comes in: where there are no rules the byte is clean.
LEMMA EnterKeeps ==
  ASSUME RulesetInv, Enter PROVE RulesetInv'
<1>1. /\ UNCHANGED <<case, definition, read, rules, installed, mark>>
      /\ place' = 1 /\ size' = installed
  BY DEF Enter, install
<1>2. ReadInv' /\ RulesInv' /\ MarkInv'
  BY <1>1 DEF RulesetInv, ReadInv, RulesInv, MarkInv
<1>3. ChainInv'
  <2>1. size' \in 0 .. installed' /\ place' \in 0 .. size' + 1 /\ place' > 0
    BY <1>1 DEF RulesetInv, RulesInv
  <2>2. ASSUME Complete', place' > size' PROVE mark.byte' = {}
    <3>1. Len(rules) = 0
      BY <1>1, <2>2 DEF RulesetInv, RulesInv, Complete
    <3> QED  BY <1>1, <3>1 DEF RulesetInv, MarkInv
  <2> QED  BY <2>1, <2>2 DEF ChainInv
<1> QED  BY <1>2, <1>3 DEF RulesetInv

\* A packet passes a rule: it cannot pass the reset.
LEMMA PassRuleKeeps ==
  ASSUME RulesetInv, PassRule PROVE RulesetInv'
<1>1. /\ UNCHANGED <<case, definition, read, rules, installed, mark, packet, size>>
      /\ place' = place + 1 /\ InChain /\ ~Matches(rules[place], packet)
  BY DEF PassRule, install
<1>2. ReadInv' /\ RulesInv' /\ MarkInv'
  BY <1>1 DEF RulesetInv, ReadInv, RulesInv, MarkInv
<1>3. ChainInv'
  <2>1. place \in 1 .. Len(rules) /\ place <= size /\ Len(rules) \in Nat
    BY <1>1, AtRule
  <2>2. size' \in 0 .. installed' /\ place' \in 0 .. size' + 1 /\ place' > 0
    BY <1>1, <2>1 DEF RulesetInv, ChainInv
  <2>3. ASSUME Complete', place' > size' PROVE mark.byte' = {}
    <3>1. place = Len(rules)
      BY <1>1, <2>1, <2>3 DEF RulesetInv, ChainInv, Complete
    <3>2. rules[Len(rules)] # Reset
      BY <1>1, <3>1, ResetTakesAll
    <3> QED  BY <1>1, <3>2 DEF RulesetInv, MarkInv
  <2> QED  BY <2>2, <2>3 DEF ChainInv
<1> QED  BY <1>2, <1>3 DEF RulesetInv

\* A rule sets its bits; the reset at the end takes them all away.
LEMMA MarkConnectionKeeps ==
  ASSUME RulesetInv, MarkConnection PROVE RulesetInv'
<1> DEFINE jump == rules[place].jump
           byte == (mark.byte \ jump.mask) \cup jump.bits
<1>1. /\ UNCHANGED <<case, definition, read, rules, installed, packet, size>>
      /\ place' = place + 1 /\ InChain /\ mark' = [mark EXCEPT !.byte = byte]
  BY DEF MarkConnection, install
<1>2. DOMAIN mark' = {"byte", "low"} /\ mark'.byte = byte
  BY <1>1 DEF RulesetInv, MarkInv
<1>3. place \in 1 .. Len(rules) /\ place <= size /\ Len(rules) \in Nat
      /\ Resetting(rules) /\ rules # None /\ jump.bits \subseteq HighByte
  BY <1>1, AtRule
<1>4. ReadInv' /\ RulesInv'
  BY <1>1 DEF RulesetInv, ReadInv, RulesInv
<1>5. MarkInv'
  <2>1. mark'.byte \subseteq HighByte
    BY <1>2, <1>3 DEF RulesetInv, MarkInv
  <2>2. ASSUME ~(Len(rules) > 0 /\ rules[Len(rules)] = Reset) PROVE mark'.byte = {}
    <3>1. mark.byte = {}
      BY <2>2 DEF RulesetInv, MarkInv
    <3>2. rules[place] \in ToSet(rules)
      BY <1>3, ListDomain DEF Resetting
    <3>3. jump.bits = {}
      BY <1>3, <2>2, <3>2 DEF Resetting
    <3> QED  BY <1>2, <3>1, <3>3
  <2> QED  BY <1>1, <1>2, <1>3, <2>1, <2>2 DEF MarkInv
<1>6. ChainInv'
  <2>1. size' \in 0 .. installed' /\ place' \in 0 .. size' + 1 /\ place' > 0
    BY <1>1, <1>3 DEF RulesetInv, ChainInv
  <2>2. ASSUME Complete', place' > size' PROVE mark'.byte = {}
    <3>1. place = Len(rules)
      BY <1>1, <1>3, <2>2 DEF RulesetInv, ChainInv, Complete
    <3>2. CASE rules[Len(rules)] = Reset
      <4>1. jump.mask = HighByte /\ jump.bits = {}
        BY <3>1, <3>2, ResetTakesAll
      <4> QED  BY <1>2, <4>1 DEF RulesetInv, MarkInv
    <3>3. CASE rules[Len(rules)] # Reset
      BY <1>1, <1>5, <3>3 DEF MarkInv
    <3> QED  BY <3>2, <3>3
  <2> QED  BY <2>1, <2>2 DEF ChainInv
<1> QED  BY <1>4, <1>5, <1>6 DEF RulesetInv

\* A packet is taken.
LEMMA TakePacketKeeps ==
  ASSUME RulesetInv, TakePacket PROVE RulesetInv'
<1>1. UNCHANGED <<case, definition, read, rules, installed, mark, packet, place, size>>
  BY DEF TakePacket, install
<1> QED  BY <1>1 DEF RulesetInv, ReadInv, RulesInv, MarkInv, ChainInv, Complete

\* A packet leaves, with the byte as it is.
LEMMA LeaveKeeps ==
  ASSUME RulesetInv, Leave PROVE RulesetInv'
<1>1. /\ UNCHANGED <<case, definition, read, rules, installed, mark>>
      /\ packet' = None /\ place' = 0 /\ size' = 0
  BY DEF Leave, install
<1>2. ReadInv' /\ RulesInv' /\ MarkInv'
  BY <1>1 DEF RulesetInv, ReadInv, RulesInv, MarkInv
<1>3. ChainInv'
  BY <1>1 DEF RulesetInv, RulesInv, ChainInv
<1> QED  BY <1>2, <1>3 DEF RulesetInv

\* Every step keeps the invariant.
LEMMA RulesetStep == RulesetInv /\ [IptNext]_iptVars => RulesetInv'
<1> SUFFICES ASSUME RulesetInv, [IptNext]_iptVars PROVE RulesetInv'
  OBVIOUS
<1>1. CASE UNCHANGED iptVars
  BY <1>1 DEF iptVars, RulesetInv, ReadInv, RulesInv, MarkInv, ChainInv, Complete
<1>2. CASE ReadOption
  BY <1>2, ReadOptionKeeps
<1>3. CASE Compute
  BY <1>3, ComputeKeeps
<1>4. CASE RunCommand
  BY <1>4, RunCommandKeeps
<1>5. CASE Enter
  BY <1>5, EnterKeeps
<1>6. CASE PassRule
  BY <1>6, PassRuleKeeps
<1>7. CASE MarkConnection
  BY <1>7, MarkConnectionKeeps
<1>8. CASE TakePacket
  BY <1>8, TakePacketKeeps
<1>9. CASE Leave
  BY <1>9, LeaveKeeps
<1> QED  BY <1>1, <1>2, <1>3, <1>4, <1>5, <1>6, <1>7, <1>8, <1>9 DEF IptNext

\* A packet that no rule has taken is behind the last one.
LEMMA RulesetClean == RulesetInv => LeavesClean
BY DEF RulesetInv, RulesInv, ChainInv, LeavesClean, Done, InChain, Complete

\* LeavesClean: whatever section is given, and whatever bits the packets that
\* passed while its rules were computed and run have left, a packet that comes
\* when all of them are there and is not taken leaves no bit of the high byte
\* to the next packet of its connection.
THEOREM ByteLeftClean == IptSpec => []LeavesClean
<1>1. IptSpec => []RulesetInv
  BY RulesetStart, RulesetStep, PTL DEF IptSpec
<1> QED  BY <1>1, RulesetClean, PTL
=============================================================================
