------------------------------ MODULE BwBackup ------------------------------
(***************************************************************************)
(* The counters of one quota rule through backups, restores and power      *)
(* losses.  backup_quotas asks the kernel for them (BwGet) and writes them *)
(* to a file; restore_quotas makes the rule anew, reads the file, drops    *)
(* the hosts that have a quota of their own and gives the rest to the      *)
(* kernel (BwSet).  The first is started by cron and when the WAN goes     *)
(* down, the second when it comes up; only their calls into the kernel     *)
(* exclude each other.                                                     *)
(*                                                                         *)
(* The file is a sequence of tokens.  What a power loss leaves of a file   *)
(* being written is a prefix of it, the last token possibly cut.           *)
(***************************************************************************)
EXTENDS BwSet, Sequences, SequencesExt

CONSTANTS
    Hosts,         \* addresses, as positive numbers
    Grouped,       \* hosts that have a quota of their own at a restore
    Chunk,         \* bytes a host transfers at a time
    MaxTraffic,    \* bound: chunks transferred in a behaviour
    MaxRestarts,   \* bound: restarts of the rule and power losses
    BlockLength,   \* bytes of a usage block
    NumberLimit,   \* inet_aton takes the plain numbers below as addresses
    Rule, Byte, PerReply   \* see BwGet

ASSUME BackupAssumption ==
    /\ Hosts \subseteq Nat \ {0} /\ Grouped \subseteq Hosts
    /\ Chunk \in Nat \ {0} /\ MaxTraffic \in Nat /\ MaxRestarts \in Nat
    /\ BlockLength \in Lengths /\ NumberLimit \in Nat
    \* an id in the request is never one made of bytes of numbers
    /\ Byte \in Nat /\ PerReply \in Nat \ {0} /\ Rule \notin {"", "number"}

VARIABLES
    backup,   \* backup_quotas: "idle", "get", "save"
    restore,  \* restore_quotas: "off" (no rule yet), "load", "set", "idle"
    table,    \* the hosts the kernel counts for the rule, in order
    usage,    \* the kernel's counters
    real,     \* history: what each host has transferred
    restarts, \* restarts and power losses so far
    snap,     \* the kernel's hosts and counters at the last reply
    file,     \* the backup file: whether it exists, its tokens
    entries,  \* what restore_backup_for_id has made of it
    floor,    \* history: the counters of the last file written to its end
    excused,  \* history: one of the events that may cost a backup
              \* (see BackupsKept) happened
    \* get_bandwidth_data (the variables of set_bandwidth_data are BwSet's)
    pc, request, reply, data, num_ips, data_index, error

getVars == <<pc, request, reply, data, num_ips, data_index, error>>
hist == <<real, floor, excused>>
kernel == <<table, usage>>
vars == <<backup, restore, kernel, hist, restarts, snap, file, entries,
          getVars, setVars>>

Get == INSTANCE BwGet
NoUsage == [h \in Hosts |-> 0]

Init ==
    /\ backup = "idle" /\ restore = "off"
    /\ table = <<>> /\ usage = NoUsage /\ real = NoUsage /\ restarts = 0
    /\ snap = [table |-> <<>>, usage |-> NoUsage]
    /\ file = [exists |-> FALSE, tokens |-> <<>>] /\ entries = <<>>
    /\ floor = NoUsage /\ excused = FALSE
    /\ pc = "done"
    /\ request = [ip |-> 0, index |-> 0, id |-> Rule]
    /\ reply = Get!NoReply /\ data = Get!NoData
    /\ num_ips = 0 /\ data_index = 0 /\ error = 0
    /\ total = 0 /\ length = <<>> /\ next_ip = 0 /\ ip_index = 0 /\ num = 0
    /\ used = 0 /\ spc = "end" /\ done = TRUE /\ sent = {} /\ lost = {}
    /\ twice = FALSE

-----------------------------------------------------------------------------
(* The kernel counts.                                                       *)

Sum(f) == FoldFunction(+, 0, f)

Traffic(h) ==
    /\ restore # "off" /\ Sum(real) < MaxTraffic * Chunk
    /\ table' = IF Contains(table, h) THEN table ELSE Append(table, h)
    /\ usage' = [usage EXCEPT ![h] = @ + Chunk]
    /\ real' = [real EXCEPT ![h] = @ + Chunk]
    /\ UNCHANGED <<backup, restore, restarts, snap, file, entries, floor,
                   excused, getVars, setVars>>

-----------------------------------------------------------------------------
(* backup_quota: query, then save_usage_to_file.                            *)

\* The query starts once the semaphore is free.
StartBackup ==
    /\ backup = "idle" /\ restore \notin {"off", "set"}
    /\ backup' = "get"
    /\ pc' = "open"
    /\ request' = [ip |-> 0, index |-> 0, id |-> Rule]
    /\ reply' = Get!NoReply /\ data' = Get!NoData
    /\ num_ips' = 0 /\ data_index' = 0 /\ error' = 0
    /\ UNCHANGED <<restore, kernel, hist, restarts, snap, file, entries,
                   setVars>>

\* The semaphore is with the backup until its query has returned.
Asking == backup = "get" /\ pc \in {"open", "ask", "reply"}

MakeSocket ==
    /\ backup = "get"
    /\ Get!Open \/ Get!NoSocket
    /\ UNCHANGED <<backup, restore, usage, hist, restarts, snap, file, entries,
                   setVars>>

\* The backup is killed by what it takes for a reply.
QueryDies ==
    /\ backup = "get"
    /\ Get!AskFails
    /\ backup' = "idle"
    /\ UNCHANGED <<restore, usage, hist, restarts, snap, file, entries, setVars>>

\* A backup that asks while the rule has not got its data back saves nothing.
Query ==
    /\ backup = "get"
    /\ Get!Ask
    /\ snap' = [table |-> table, usage |-> usage]
    /\ excused' = (excused \/ restore = "load")
    /\ UNCHANGED <<backup, restore, usage, real, floor, restarts, file,
                   entries, setVars>>

StoreReply ==
    /\ backup = "get"
    /\ Get!ReplyData \/ Get!ReplyError
    /\ UNCHANGED <<backup, restore, usage, hist, restarts, snap, file,
                   entries, setVars>>

\* The file is opened for writing, which empties it, and the time goes first:
\* also when there was no socket and nothing is going to follow.
OpenFile ==
    /\ backup = "get" /\ pc \in {"done", "nosocket"} /\ error = 0
    /\ backup' = "save"
    /\ excused' = (excused \/ pc = "nosocket")
    /\ file' = [exists |-> TRUE, tokens |-> <<[kind |-> "time", val |-> 0]>>]
    /\ UNCHANGED <<restore, kernel, real, floor, restarts, snap, entries, getVars,
                   setVars>>

QueryFailed ==
    /\ backup = "get" /\ pc = "done" /\ error # 0
    /\ backup' = "idle"
    /\ UNCHANGED <<restore, kernel, hist, restarts, snap, file, entries,
                   getVars, setVars>>

\* Mutant: the counter written is that of the next entry.
TokenNextHost(k) ==
    LET i == k \div 2
        next == IF k % 2 = 1 /\ i < num_ips THEN i + 1 ELSE i
    IN  IF k % 2 = 0 THEN [kind |-> "ip", val |-> data[i]]
        ELSE [kind |-> "bw", val |-> snap.usage[data[next]]]

\* Tokens 2 i and 2 i + 1 are the address and the counter of entry i.
Token(k) ==
    LET h == data[k \div 2]
    IN  IF k % 2 = 0 THEN [kind |-> "ip", val |-> h]
        ELSE [kind |-> "bw", val |-> snap.usage[h]]

WriteToken ==
    /\ backup = "save" /\ Len(file.tokens) < 2 * num_ips + 1
    /\ file' = [file EXCEPT !.tokens = Append(@, Token(Len(@) + 1))]
    /\ UNCHANGED <<backup, restore, kernel, hist, restarts, snap, entries,
                   getVars, setVars>>

CloseFile ==
    /\ backup = "save" /\ Len(file.tokens) = 2 * num_ips + 1
    /\ backup' = "idle"
    /\ floor' = IF pc = "nosocket" THEN floor
                ELSE [h \in Hosts |->
                        IF Contains(data, h) THEN snap.usage[h] ELSE 0]
    /\ UNCHANGED <<restore, kernel, real, excused, restarts, snap, file,
                   entries, getVars, setVars>>

-----------------------------------------------------------------------------
(* restore_quotas: new rule, load_usage_from_file, filter, set.             *)

\* inet_aton.  That of uClibc wants four numbers with dots; others also take a
\* plain number below 2^32, which is what the counters and the time mostly are.
IsAddress(t) == t.kind = "ip" \/ t.val < NumberLimit

\* load_usage_from_file: an address is followed by its counter; what is not an
\* address is taken for the time.  What follows a number that was taken for an
\* address is the counter of an address that nobody has, and left out here.
Load(f) ==
    LET From[i \in 1 .. Len(f) + 1] ==
          IF i > Len(f) THEN <<>>
          ELSE IF ~IsAddress(f[i]) THEN From[i + 1]
          ELSE IF i = Len(f) THEN <<>>
          ELSE IF f[i].kind # "ip" THEN From[i + 2]
          ELSE <<[ip |-> f[i].val, bw |-> f[i + 1].val]>> \o From[i + 2]
    IN  From[1]

\* A file whose last token is taken for an address makes sscanf() read from
\* NULL.
Died(f) ==
    LET From[i \in 1 .. Len(f) + 1] ==
          IF i > Len(f) THEN FALSE
          ELSE IF ~IsAddress(f[i]) THEN From[i + 1]
          ELSE IF i = Len(f) THEN TRUE
          ELSE From[i + 2]
    IN  From[1]

\* Mutant: the filter keeps what it should drop.
WithoutInverted(list, ips) == SelectSeq(list, LAMBDA e : e.ip \in ips)

\* filter_group_from_list: the entries of a list without those of some
\* addresses.
Without(list, ips) ==
    LET Kept[i \in 0 .. Len(list)] ==
          IF i = 0 THEN <<>>
          ELSE IF list[i].ip \in ips THEN Kept[i - 1]
          ELSE Append(Kept[i - 1], list[i])
    IN  Kept[Len(list)]

\* The chain is deleted and the rule made anew, with nothing counted.
Restart ==
    /\ restore \in {"off", "idle"} /\ restarts < MaxRestarts
    /\ restarts' = restarts + 1
    /\ restore' = "load"
    /\ table' = <<>> /\ usage' = NoUsage
    /\ UNCHANGED <<backup, hist, snap, file, entries, getVars, setVars>>

\* The restore dies in the file, or gives up waiting for the semaphore.
RestoreFails ==
    /\ restore = "load"
    /\ Died(file.tokens) \/ Asking
    /\ restore' = "idle"
    /\ excused' = TRUE
    /\ UNCHANGED <<backup, kernel, real, floor, restarts, snap, file, entries,
                   getVars, setVars>>

\* The file is read, whatever a backup has written of it so far, and the
\* semaphore taken.
StartSet ==
    /\ restore = "load" /\ file.exists /\ ~Died(file.tokens) /\ ~Asking
    /\ restore' = "set"
    /\ excused' = (excused \/ backup # "idle")
    /\ entries' = Without(Load(file.tokens), Grouped)
    /\ total' = Len(entries')
    /\ length' = [i \in 0 .. total' - 1 |-> BlockLength]
    /\ next_ip' = 0 /\ ip_index' = 0 /\ num' = 0 /\ used' = 0
    /\ spc' = "open" /\ done' = FALSE /\ sent' = {} /\ lost' = {}
    /\ twice' = FALSE
    /\ UNCHANGED <<backup, kernel, real, floor, restarts, snap, file, getVars>>

\* Nothing was ever saved.
NoFile ==
    /\ restore = "load" /\ ~file.exists
    /\ restore' = "idle"
    /\ excused' = (excused \/ backup # "idle")
    /\ UNCHANGED <<backup, kernel, real, floor, restarts, snap, file, entries,
                   getVars, setVars>>

\* What the call does that the kernel does not see, a buffer that does not get
\* to it included.
FillBuffer ==
    /\ restore = "set"
    /\ OpenSocket \/ NoSocket \/ Round \/ AddBlock \/ BufferFull \/ SendFails
    /\ UNCHANGED <<backup, restore, kernel, hist, restarts, snap, file,
                   entries, getVars>>

\* The kernel sets the hosts it is given and, at the first buffer, the others
\* to zero (zero_unset).
SendBuffer ==
    LET given == {entries[i + 1] : i \in next_ip .. next_ip + num - 1}
        old == IF next_ip = 0 THEN <<>> ELSE table
        new == Without(SubSeq(entries, next_ip + 1, next_ip + num), ToSet(old))
    IN  /\ restore = "set"
        /\ Send
        /\ usage' = [h \in Hosts |->
                       IF \E e \in given : e.ip = h
                       THEN (CHOOSE e \in given : e.ip = h).bw
                       ELSE IF next_ip = 0 THEN 0 ELSE usage[h]]
        /\ table' = old \o [i \in DOMAIN new |-> new[i].ip]
        /\ UNCHANGED <<backup, restore, hist, restarts, snap, file,
                       entries, getVars>>

\* set_bandwidth_data returns the same whether anything was sent or not, and
\* restore_quotas does not look at it.
RestoreEnds ==
    /\ restore = "set" /\ spc = "end"
    /\ restore' = "idle"
    /\ excused' = (excused \/ lost # {})
    /\ UNCHANGED <<backup, kernel, real, floor, restarts, snap, file, entries,
                   getVars, setVars>>

-----------------------------------------------------------------------------
\* What can be left of a token that was being written: a counter or a time
\* loses digits, a cut address may still be one.
Cut(t) ==
    {[kind |-> "time", val |-> t.val]} \cup
    (IF t.kind = "ip" THEN {[kind |-> "ip", val |-> h] : h \in Hosts}
     ELSE {[kind |-> t.kind, val |-> t.val \div 10]})

\* What can be left of a file: the last block may not have reached the disk.
TornFiles(f) ==
    {SubSeq(f, 1, n) : n \in 0 .. Len(f)} \cup
    UNION {{SubSeq(f, 1, n - 1) \o <<t>> : t \in Cut(f[n])} : n \in DOMAIN f}

PowerLoss ==
    /\ restore # "off" /\ restarts < MaxRestarts
    /\ restarts' = restarts + 1
    /\ restore' = "off" /\ backup' = "idle"
    /\ table' = <<>> /\ usage' = NoUsage
    /\ file' \in IF backup = "save"
                THEN {[file EXCEPT !.tokens = f] : f \in TornFiles(file.tokens)}
                ELSE {file}
    /\ excused' = (excused \/ backup = "save")
    /\ UNCHANGED <<real, floor, snap, entries, getVars, setVars>>

BackupStep ==
    MakeSocket \/ QueryDies \/ Query \/ StoreReply \/ OpenFile \/ QueryFailed
    \/ WriteToken \/ CloseFile
RestoreStep ==
    RestoreFails \/ StartSet \/ NoFile \/ FillBuffer \/ SendBuffer
    \/ RestoreEnds

Next ==
    \/ StartBackup \/ BackupStep \/ Restart \/ RestoreStep \/ PowerLoss
    \/ \E h \in Hosts : Traffic(h)

Spec == Init /\ [][Next]_vars
FairSpec == Spec /\ WF_vars(BackupStep) /\ WF_vars(RestoreStep)

-----------------------------------------------------------------------------
(* Properties.                                                              *)

\* No host is ever charged more than it has transferred, whatever is lost,
\* torn, read while it is written or sent in several buffers: nobody is cut
\* off for traffic of before or of others.
NeverOvercounted == \A h \in Hosts : usage[h] <= real[h]

\* A query that reports success has the counters of one moment for every host
\* of that moment, or no socket and nothing at all: never some of them, and
\* never an entry behind the array.
QueryComplete ==
    /\ Get!WritesInArray
    /\ backup = "save" /\ pc = "done" => data = snap.table
    /\ backup = "save" /\ pc # "done" => pc = "nosocket" /\ num_ips = 0

\* After any number of restarts and power losses a host that has no quota of
\* its own is charged at least what the last completed backup says, unless a
\* backup was cut by a power loss, taken or written while a restore was under
\* way or without a socket (it empties the file), or a restore did not get its
\* data to the kernel.
BackupsKept ==
    ~excused /\ restore = "idle" =>
        \A h \in Hosts \ Grouped : usage[h] >= floor[h]

\* A restore that has started ends, and so does a backup.
CallsReturn ==
    /\ restore \in {"load", "set"} ~> restore \in {"idle", "off"}
    /\ backup \in {"get", "save"} ~> backup = "idle"
=============================================================================
