------------------------------- MODULE BwGet -------------------------------
(***************************************************************************)
(* get_bandwidth_data (ipt_bwctl.c): the query protocol between the        *)
(* library and the bandwidth kernel module.  One buffer carries both the   *)
(* request and the reply, and a rule with more addresses than fit in one   *)
(* reply needs several rounds.  The kernel module is external; it answers  *)
(* as the reply format of ipt_bwctl.h and the library's use of it say.     *)
(*                                                                         *)
(* The buffer is modelled by what the kernel reads from it at the next     *)
(* request: address, index and id.  A reply overwrites them with its own *)
(* fields (Overlay), since the library writes them only once.              *)
(***************************************************************************)
EXTENDS Integers, Sequences

CONSTANTS
    Rule,          \* the rule id the caller asks for
    Byte,          \* 256 in the code: weight of one byte of the buffer
    PerReply       \* addresses that fit in one reply

VARIABLES
    table,      \* the addresses the kernel counts for the rule, in order
    pc,         \* "open", "ask", "reply", "done"; "nosocket" and "died" also end it
    request,    \* the buffer as the kernel reads it
    reply,      \* the buffer as the library reads it
    data,       \* *data: the entries stored, 0 in an entry never written
    num_ips,    \* *num_ips
    data_index, \* next entry of *data to write
    error       \* the error byte of the last reply

NoReply == [error |-> 0, total |-> 0, start |-> 0, ips |-> <<>>]

\* The data pointer is NULL before the first reply.
NoData == <<>>

-----------------------------------------------------------------------------
\* What the kernel answers to a request.
Answer(r) ==
    IF r.id # Rule THEN [NoReply EXCEPT !.error = 1]
    ELSE IF r.ip = 0
    THEN [error |-> 0, total |-> Len(table), start |-> r.index,
          ips |-> SubSeq(table, r.index + 1,
                         IF r.index + PerReply < Len(table)
                         THEN r.index + PerReply ELSE Len(table))]
    ELSE IF \E i \in DOMAIN table : table[i] = r.ip
    THEN [error |-> 0, total |-> 1, start |-> 0, ips |-> <<r.ip>>]
    ELSE [NoReply EXCEPT !.error = 2]

\* The request fields of a buffer that holds a reply: error and total are
\* where the address was, the start index is shifted by one byte against the
\* request index, and the id is made of bytes of other numbers.
Overlay(r) ==
    [ip |-> r.error + Byte * r.total,
     index |-> Byte * r.start,
     id |-> IF Len(r.ips) = 0 THEN "" ELSE "number"]

getVars == <<request, reply, data, num_ips, data_index, error>>

\* With the lock held a socket is made.
Open ==
    /\ pc = "open"
    /\ pc' = "ask"
    /\ UNCHANGED <<table, getVars>>

\* There is no socket: nothing is asked, and with error still 0 the call
\* reports success, without data.
NoSocket ==
    /\ pc = "open"
    /\ pc' = "nosocket"
    /\ UNCHANGED <<table, getVars>>

\* getsockopt fails, as where the kernel has no bandwidth module, and its
\* result is not looked at.  The buffer is still the request; read as a reply
\* it has no error, no addresses in all and, in the first bytes of the id, a
\* thousand million of them in this reply.  Reading them kills the process,
\* and the semaphore is given back for it.
AskFails ==
    /\ pc = "ask" /\ num_ips = 0
    /\ pc' = "died"
    /\ UNCHANGED <<table, getVars>>

Ask ==
    /\ pc = "ask"
    /\ reply' = Answer(request)
    /\ request' = Overlay(reply')
    /\ error' = reply'.error
    /\ pc' = "reply"
    /\ UNCHANGED <<table, data, num_ips, data_index>>

\* An error ends the query.  data_initialized is never set, so what was
\* stored before is neither freed nor taken back.
ReplyError ==
    /\ pc = "reply" /\ error # 0
    /\ pc' = "done"
    /\ UNCHANGED <<table, request, reply, data, num_ips,
                   data_index, error>>

\* Mutant: the entry index runs ahead by one with every reply.
ReplyDataAhead ==
    LET n == Len(reply.ips)
        index == request.index + n
    IN  /\ pc = "reply" /\ error = 0
        /\ num_ips' = reply.total
        /\ data' = [i \in 1 .. reply.total |->
                      IF i > data_index /\ i <= data_index + n
                      THEN reply.ips[i - data_index] ELSE 0]
        /\ data_index' = data_index + n + 1
        /\ request' = [request EXCEPT !.index = index]
        /\ pc' = IF index < reply.total THEN "ask" ELSE "done"
        /\ UNCHANGED <<table, reply, error>>

\* A reply with data: the array is allocated and zeroed (again), the entries
\* go behind those of the earlier replies, and the index for the next request
\* is computed from what the reply left at its place.
ReplyData ==
    LET n == Len(reply.ips)
        index == request.index + n
    IN  /\ pc = "reply" /\ error = 0
        /\ num_ips' = reply.total
        /\ data' = [i \in 1 .. reply.total |->
                      IF i > data_index /\ i <= data_index + n
                      THEN reply.ips[i - data_index] ELSE 0]
        /\ data_index' = data_index + n
        /\ request' = [request EXCEPT !.index = index]
        /\ pc' = IF index < reply.total THEN "ask" ELSE "done"
        /\ UNCHANGED <<table, reply, error>>

-----------------------------------------------------------------------------
(* Properties.                                                              *)

\* Entries are only written inside the array allocated for them.
WritesInArray == data_index <= Len(data)
=============================================================================
