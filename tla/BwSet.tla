------------------------------- MODULE BwSet -------------------------------
(***************************************************************************)
(* set_bandwidth_data (ipt_bwctl.c): the data of a rule is sent to the     *)
(* bandwidth kernel module in as many buffers as it takes.  An entry is a  *)
(* block whose length is known to set_ip_block: 12 bytes for an address's  *)
(* usage, 32 bytes and 8 more per node for its history.  What is in a      *)
(* block does not matter here and is left out.                             *)
(***************************************************************************)
EXTENDS Integers

CONSTANTS
    Capacity,  \* bytes for blocks in one buffer (16384 - 72 in the code)
    Lengths,   \* the block lengths that occur
    MaxIps     \* bound: addresses in one call

ASSUME SetAssumption ==
    Capacity \in Nat /\ Lengths \subseteq Nat \ {0} /\ MaxIps \in Nat

VARIABLES
    total,    \* *total_ips
    length,   \* length of each entry's block
    next_ip,  \* *next_ip_index of the buffer being filled
    ip_index, \* next entry to put into the buffer
    num,      \* *num_ips_in_buffer
    used,     \* bytes of the buffer that hold blocks
    spc,       \* "open", "round", "fill", "send" or "end"
    done,     \* the code's done flag
    sent,     \* history: entries the kernel was given
    lost,     \* history: entries of buffers that did not get to the kernel
    twice     \* history: an entry was given to the kernel again

setVars == <<total, length, next_ip, ip_index, num, used, spc, done, sent, lost,
             twice>>

SetInit ==
    /\ total \in 0 .. MaxIps
    /\ length \in [0 .. total - 1 -> Lengths]
    /\ next_ip = 0 /\ ip_index = 0 /\ num = 0 /\ used = 0
    /\ spc = "open" /\ done = FALSE
    /\ sent = {} /\ lost = {} /\ twice = FALSE

\* With the lock held a socket is made.
OpenSocket ==
    /\ spc = "open"
    /\ spc' = "round"
    /\ UNCHANGED <<total, length, next_ip, ip_index, num, used, done, sent, lost,
                   twice>>

\* There is no socket: nothing is sent, and the call returns what it returns
\* when everything was.
NoSocket ==
    /\ spc = "open"
    /\ spc' = "end"
    /\ lost' = 0 .. total - 1
    /\ UNCHANGED <<total, length, next_ip, ip_index, num, used, done, sent, twice>>

\* One round of the outer loop starts with an empty buffer.
Round ==
    /\ spc = "round"
    /\ ip_index' = next_ip /\ num' = 0 /\ used' = 0
    /\ done' = (next_ip >= total)
    /\ spc' = IF done' THEN "send" ELSE "fill"
    /\ UNCHANGED <<total, length, next_ip, sent, lost, twice>>

\* set_ip_block puts the next entry into the buffer.
AddBlock ==
    /\ spc = "fill" /\ used + length[ip_index] <= Capacity
    /\ used' = used + length[ip_index]
    /\ ip_index' = ip_index + 1
    /\ num' = num + 1
    /\ done' = (ip_index + 1 >= total)
    /\ spc' = IF done' THEN "send" ELSE "fill"
    /\ UNCHANGED <<total, length, next_ip, sent, lost, twice>>

\* Mutant: the block that did not fit is skipped.
BufferFullSkips ==
    /\ spc = "fill" /\ used + length[ip_index] > Capacity
    /\ ip_index' = ip_index + 1
    /\ done' = (ip_index + 1 >= total)
    /\ spc' = "send"
    /\ UNCHANGED <<total, length, next_ip, num, used, sent, lost, twice>>

\* set_ip_block finds no room: the entry waits for the next buffer.
BufferFull ==
    /\ spc = "fill" /\ used + length[ip_index] > Capacity
    /\ done' = (ip_index >= total)
    /\ spc' = "send"
    /\ UNCHANGED <<total, length, next_ip, ip_index, num, used, sent, lost,
                   twice>>

\* Mutant: the index of the next buffer is not moved on.
SendInPlace ==
    LET batch == next_ip .. next_ip + num - 1
    IN  /\ spc = "send"
        /\ twice' = (twice \/ batch \cap sent # {})
        /\ sent' = sent \cup batch
        /\ spc' = IF done THEN "end" ELSE "round"
        /\ UNCHANGED <<total, length, next_ip, ip_index, num, used, done, lost>>

\* setsockopt: the kernel takes num entries from next_ip on.
Send ==
    LET batch == next_ip .. next_ip + num - 1
    IN  /\ spc = "send"
        /\ twice' = (twice \/ batch \cap sent # {})
        /\ sent' = sent \cup batch
        /\ next_ip' = ip_index
        /\ spc' = IF done THEN "end" ELSE "round"
        /\ UNCHANGED <<total, length, ip_index, num, used, done, lost>>

\* setsockopt fails, and its result is not looked at: the next buffer follows
\* as if the kernel had taken this one.
SendFails ==
    /\ spc = "send"
    /\ lost' = lost \cup (next_ip .. next_ip + num - 1)
    /\ next_ip' = ip_index
    /\ spc' = IF done THEN "end" ELSE "round"
    /\ UNCHANGED <<total, length, ip_index, num, used, done, sent, twice>>

SetEnded == spc = "end" /\ UNCHANGED setVars

SetNext ==
    OpenSocket \/ NoSocket \/ Round \/ AddBlock \/ BufferFull \/ Send
    \/ SendFails \/ SetEnded
SetSpec == SetInit /\ [][SetNext]_setVars

-----------------------------------------------------------------------------
(* Properties.                                                              *)

\* The type invariant, with the bound the buffer puts on its blocks.
SetTypeOK ==
    /\ total \in 0 .. MaxIps /\ length \in [0 .. total - 1 -> Lengths]
    /\ next_ip \in 0 .. total /\ ip_index \in 0 .. total
    /\ num \in 0 .. total /\ used \in 0 .. Capacity
    /\ spc \in {"open", "round", "fill", "send", "end"} /\ done \in BOOLEAN
    /\ sent \subseteq 0 .. total - 1 /\ lost \subseteq 0 .. total - 1
    /\ twice \in BOOLEAN

\* When the call returns the kernel has been given every entry but those of
\* the buffers that did not get to it, for want of a socket or because
\* setsockopt failed: entries that did not fit into one buffer are in the next
\* one.
AllSent == spc = "end" => sent = (0 .. total - 1) \ lost

\* No entry is given to the kernel twice (its counter would be set again
\* after packets have been counted).
SentOnce == ~twice
=============================================================================
