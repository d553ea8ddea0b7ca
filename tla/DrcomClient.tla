---------------------------- MODULE DrcomClient ----------------------------
(***************************************************************************)
(* drcom, the campus network client, its server and drmonitor.sh.  The     *)
(* client asks for a challenge, logs in with it and then repeats three     *)
(* keep-alive exchanges.  Every exchange is a datagram sent and one        *)
(* awaited without a timeout, so a lost datagram blocks the client for     *)
(* ever and a duplicated one puts the answers out of step; the monitor     *)
(* restarts a client that is gone or leaves the router offline.            *)
(*                                                                         *)
(* A datagram is its kind.  Of the salts of the server only the one issued *)
(* last is "new"; issuing another makes it "old" wherever it is.  The      *)
(* server is external: it answers as the client's tests of its answers     *)
(* say.                                                                    *)
(***************************************************************************)
EXTENDS Integers, Bags

CONSTANTS
    ChallengeTry, LoginTry, AliveTry,   \* 10, 5 and 5 in the code
    Tools,     \* what the monitor may find installed to fetch a page with
    Offline,   \* what it may fetch from a router that is offline
    MaxFaults  \* bound: datagrams lost or duplicated, failed calls, odd
               \* answers and restarts of a client that is getting on

\* The page of the portal, with "Dr.COM" in it and status 200; a redirection to
\* it, which curl does not follow and wget does; another page with one of the
\* statuses that count; nothing.
Pages == {"portal", "redirect", "page", "nothing"}

ASSUME DrcomAssumption ==
    /\ {ChallengeTry, LoginTry, AliveTry, MaxFaults} \subseteq Nat
    /\ Tools \subseteq {"curl", "wget", "neither"}
    /\ Offline \subseteq Pages /\ Offline # {}

KeepAlive == {"alive", "misc1", "misc3"}
Steps == {"challenge", "login", "sleep"} \cup KeepAlive

\* The first byte of an answer.
First(k) == CASE k = "challenged" -> 2 [] k = "accepted" -> 4
              [] k = "refused" -> 5 [] OTHER -> 7

VARIABLES
    up,       \* "up", "failed" (exit) or "cutoff" (exit for lack of network)
    step,     \* the exchange the client is in
    waiting,  \* it has sent and is in recvfrom()
    try,      \* challenge_try or login_try
    fails,    \* alive_fail_count
    two,      \* recv_data begins with 0x02 (it starts uninitialised)
    salt,     \* the salt in the login data
    requests, \* on the way to the server; mine: from the present socket
    replies,  \* on the way to the present socket, or in its queue
    session,  \* the server lets the router through
    lost, dups,   \* faults so far: datagrams lost, duplicated,
    errs, hasty,  \* failed calls and odd answers, hasty restarts
    admitted, \* history: the server accepted a login of this client
    crossed   \* history: an answer was taken for that of another exchange

server == <<session, admitted>>
counts == <<lost, dups, errs, hasty>>
vars == <<up, step, waiting, try, fails, two, salt, requests, replies, server,
          counts, crossed>>

Init ==
    /\ up = "up" /\ step = "challenge" /\ waiting = FALSE
    /\ try = 0 /\ fails = 0 /\ two \in BOOLEAN /\ salt = "none"
    /\ requests = EmptyBag /\ replies = EmptyBag
    /\ session = FALSE /\ admitted = FALSE /\ crossed = FALSE
    /\ lost = 0 /\ dups = 0 /\ errs = 0 /\ hasty = 0

Put(bag, e) == bag (+) SetToBag({e})
Take(bag, e) == bag (-) SetToBag({e})

MayFail == lost + dups + errs + hasty < MaxFaults

-----------------------------------------------------------------------------
(* The client.                                                              *)

\* The tests at the head of the three loops.
Exhausted ==
    \/ step = "challenge" /\ try > ChallengeTry
    \/ step = "login" /\ try > LoginTry
    \/ step = "alive" /\ fails > AliveTry

GiveUp ==
    /\ up = "up" /\ ~waiting /\ Exhausted
    /\ up' = IF step = "alive" THEN "cutoff" ELSE "failed"
    /\ UNCHANGED <<step, waiting, try, fails, two, salt, requests, replies,
                   server, counts, crossed>>

\* In the keep-alive loop a successful send resets the count of failures.
FailsAfterSend == IF step \in KeepAlive THEN 0 ELSE fails

CountTry == IF step \in {"challenge", "login"} THEN try + 1 ELSE try

Send ==
    /\ up = "up" /\ ~waiting /\ step # "sleep" /\ ~Exhausted
    /\ requests' = Put(requests, [kind |-> step, mine |-> TRUE,
                                  salt |-> IF step = "login" THEN salt ELSE "none"])
    /\ waiting' = TRUE /\ try' = CountTry /\ fails' = FailsAfterSend
    /\ UNCHANGED <<up, step, two, salt, replies, server, counts, crossed>>

\* The next step of a loop left by continue: the keep-alive cycle starts
\* again, without the sleep; the challenge is over if the buffer happens to
\* begin with 0x02.
Continue ==
    CASE step \in KeepAlive ->
           /\ step' = "alive" /\ fails' = fails + 1
           /\ UNCHANGED <<try, salt, two>>
      [] step = "challenge" /\ two ->
           /\ step' = "login" /\ salt' = "garbage" /\ try' = 0 /\ two' = FALSE
           /\ UNCHANGED fails
      [] OTHER -> UNCHANGED <<step, fails, try, salt, two>>

SendFails ==
    /\ up = "up" /\ ~waiting /\ step # "sleep" /\ ~Exhausted
    /\ MayFail /\ errs' = errs + 1
    /\ IF step \in {"challenge", "login"} /\ ~(step = "challenge" /\ two)
       THEN try' = try + 1 /\ UNCHANGED <<step, fails, salt, two>>
       ELSE Continue
    /\ UNCHANGED <<up, waiting, requests, replies, server, lost, dups, hasty,
                   crossed>>

\* Mutant: the socket has a receive timeout.
RecvFailsLate ==
    /\ up = "up" /\ waiting
    /\ waiting' = FALSE
    /\ Continue
    /\ UNCHANGED <<up, requests, replies, server, counts, crossed>>

\* recvfrom() returns an error.
RecvFails ==
    /\ up = "up" /\ waiting
    /\ MayFail /\ errs' = errs + 1
    /\ waiting' = FALSE
    /\ Continue
    /\ UNCHANGED <<up, requests, replies, server, lost, dups, hasty, crossed>>

\* What the client does with answer r in each of its steps.
Challenged(r) ==
    /\ step = "challenge"
    /\ IF First(r.kind) = 2
       THEN step' = "login" /\ salt' = r.salt /\ try' = 0 /\ UNCHANGED up
       ELSE /\ up' = IF First(r.kind) = 7 THEN "failed" ELSE up
            /\ UNCHANGED <<step, salt, try>>
    /\ two' = FALSE
    /\ UNCHANGED <<fails, crossed>>

\* Mutant: everything but a refusal is a success.
LoginAnsweredAny(r) ==
    /\ step = "login"
    /\ CASE First(r.kind) # 5 -> step' = "alive" /\ UNCHANGED up
         [] First(r.kind) = 5 -> up' = "failed" /\ UNCHANGED step
    /\ UNCHANGED <<try, fails, salt, two, crossed>>

LoginAnswered(r) ==
    /\ step = "login"
    /\ CASE First(r.kind) = 4 -> step' = "alive" /\ UNCHANGED up
         [] First(r.kind) = 5 -> up' = "failed" /\ UNCHANGED step
         [] OTHER -> UNCHANGED <<step, up>>
    /\ UNCHANGED <<try, fails, salt, two, crossed>>

\* The tests are ret < 0 || *recv_data != 0x07 (&& recv_data[5] != ...): the
\* first byte suffices, and in the misc exchanges so does the sixth, five,
\* which an answer of another kind, even a refusal, may have by chance.
KeptAlive(r, five) ==
    /\ step \in KeepAlive
    /\ IF First(r.kind) = 7 \/ (five /\ step # "alive")
       THEN /\ step' = CASE step = "alive" -> "misc1"
                         [] step = "misc1" -> "misc3"
                         [] step = "misc3" -> "sleep"
            /\ crossed' = (crossed \/ r.kind \notin {step, "refused"})
            /\ fails' = 0
       ELSE step' = "alive" /\ fails' = fails + 1 /\ UNCHANGED crossed
    /\ UNCHANGED <<up, try, salt, two>>

Receive(r) ==
    /\ up = "up" /\ waiting
    /\ replies' = Take(replies, r)
    /\ waiting' = FALSE
    /\ Challenged(r) \/ LoginAnswered(r) \/ \E five \in BOOLEAN : KeptAlive(r, five)
    /\ UNCHANGED <<requests, server, counts>>

Sleep ==
    /\ up = "up" /\ step = "sleep"
    /\ step' = "alive"
    /\ UNCHANGED <<up, waiting, try, fails, two, salt, requests, replies,
                   server, counts, crossed>>

-----------------------------------------------------------------------------
(* The server and the network.                                              *)

Reply(q, k, s) == IF q.mine THEN Put(replies, [kind |-> k, salt |-> s]) ELSE replies

\* A salt is issued: the last one is old, wherever it is.
Age(e) == [e EXCEPT !.salt = IF @ = "new" THEN "old" ELSE @]
AgeBag(bag) ==
    LET aged == {Age(e) : e \in DOMAIN bag}
        Copies(e, x) == IF x \in DOMAIN bag /\ Age(x) = e THEN bag[x] ELSE 0
    IN  [e \in aged |-> Copies(e, e) + (IF e.salt = "old"
                                        THEN Copies(e, [e EXCEPT !.salt = "new"])
                                        ELSE 0)]

ServeChallenge(q) ==
    /\ q.kind = "challenge"
    /\ requests' = AgeBag(Take(requests, q))
    /\ salt' = IF salt = "new" THEN "old" ELSE salt
    /\ replies' = IF q.mine
                  THEN Put(AgeBag(replies), [kind |-> "challenged", salt |-> "new"])
                  ELSE AgeBag(replies)
    /\ UNCHANGED <<server, errs>>

\* An odd answer: 0x07 ("wrong challenge data") or a refusal.
Misserve(q) ==
    /\ MayFail /\ errs' = errs + 1
    /\ requests' = Take(requests, q)
    /\ \E k \in {"wrong", "refused"} : replies' = Reply(q, k, "none")
    /\ UNCHANGED <<salt, server>>

\* With the last salt a login is accepted; the server may take an older one.
ServeLogin(q) ==
    /\ q.kind = "login"
    /\ requests' = Take(requests, q)
    /\ \/ /\ q.salt # "garbage"
          /\ session' = TRUE /\ admitted' = (admitted \/ q.mine)
          /\ replies' = Reply(q, "accepted", "none")
       \/ /\ q.salt # "new"
          /\ replies' = Reply(q, "refused", "none")
          /\ UNCHANGED server
    /\ UNCHANGED <<salt, errs>>

\* Without a session the server says nothing or refuses.
ServeKeepAlive(q) ==
    /\ q.kind \in KeepAlive
    /\ requests' = Take(requests, q)
    /\ IF session THEN replies' = Reply(q, q.kind, "none")
       ELSE replies' \in {replies, Reply(q, "refused", "none")}
    /\ UNCHANGED <<salt, server, errs>>

Serve(q) ==
    /\ ServeChallenge(q) \/ Misserve(q) \/ ServeLogin(q) \/ ServeKeepAlive(q)
    /\ UNCHANGED <<up, step, waiting, try, fails, two, lost, dups, hasty,
                   crossed>>

Expire ==
    /\ session /\ session' = FALSE
    /\ UNCHANGED <<up, step, waiting, try, fails, two, salt, requests, replies,
                   admitted, counts, crossed>>

Lose ==
    /\ MayFail /\ lost' = lost + 1
    /\ \/ /\ \E q \in DOMAIN requests : requests' = Take(requests, q)
          /\ UNCHANGED replies
       \/ /\ \E r \in DOMAIN replies : replies' = Take(replies, r)
          /\ UNCHANGED requests
    /\ UNCHANGED <<up, step, waiting, try, fails, two, salt, server, dups,
                   errs, hasty, crossed>>

Duplicate ==
    /\ MayFail /\ dups' = dups + 1
    /\ \/ /\ \E q \in DOMAIN requests : requests' = Put(requests, q)
          /\ UNCHANGED replies
       \/ /\ \E r \in DOMAIN replies : replies' = Put(replies, r)
          /\ UNCHANGED requests
    /\ UNCHANGED <<up, step, waiting, try, fails, two, salt, server, lost,
                   errs, hasty, crossed>>

-----------------------------------------------------------------------------
(* drmonitor.sh, run by cron.                                               *)

Times == {"0810", "another"}
Fetched == IF session THEN {"page", "nothing"} ELSE Offline

\* Of curl's two pages one that counts is enough, and the page stands for it.
\* wget also counts no page, and a page of any status, unless it is the portal's.
Connected(tool, page) ==
    \/ tool = "curl" /\ page \in {"portal", "page"}
    \/ tool = "wget" /\ page \notin {"portal", "redirect"}

\* Mutant: the time is only compared with "810", which date never prints.
NeedsRestartNever(tool, page, time) == ~Connected(tool, page) \/ up # "up"

NeedsRestart(tool, page, time) ==
    ~Connected(tool, page) \/ up # "up" \/ time = "0810"

\* The client will not get on, or is past the login.  An exchange takes far
\* less than the time between two runs of the script.
Settled ==
    \/ up # "up" \/ step \in KeepAlive \cup {"sleep"}
    \/ waiting /\ replies = EmptyBag /\ \A q \in DOMAIN requests : ~q.mine

\* The new client has a new socket: what was on the way to the old one is gone,
\* what the old one has sent still reaches the server.
StartClient ==
    LET Old(q) == [q EXCEPT !.mine = FALSE]
    IN  /\ up' = "up" /\ step' = "challenge" /\ waiting' = FALSE
        /\ try' = 0 /\ fails' = 0 /\ two' \in BOOLEAN /\ salt' = "none"
        /\ requests' = SetToBag({Old(q) : q \in DOMAIN requests})
        /\ replies' = EmptyBag
        /\ admitted' = FALSE
        /\ UNCHANGED <<session, lost, dups, errs, crossed>>

\* What may be fetched now after which the script restarts the client.
Reasons(time) ==
    {f \in Tools \X Fetched : NeedsRestart(f[1], f[2], time)}
Certain(time) == Reasons(time) = Tools \X Fetched

Monitor(time) ==
    /\ Reasons(time) # {}
    /\ Settled /\ StartClient /\ UNCHANGED hasty

\* A slow client may be caught while it is getting on.
HastyMonitor(time) ==
    /\ Reasons(time) # {}
    /\ MayFail /\ hasty' = hasty + 1 /\ StartClient

Client == GiveUp \/ Send \/ Sleep \/ \E r \in DOMAIN replies : Receive(r)
Server == \E q \in DOMAIN requests : Serve(q)

Next ==
    \/ Client \/ SendFails \/ RecvFails \/ Server
    \/ Expire \/ Lose \/ Duplicate
    \/ \E time \in Times : Monitor(time) \/ HastyMonitor(time)

Spec == Init /\ [][Next]_vars

\* The programs run, what the network does not lose arrives, and cron starts the
\* script every day at 08:10.  Of its other runs nothing is assumed, nor of what
\* it fetches.
FairSpec ==
    /\ Spec /\ WF_vars(Client) /\ WF_vars(Server)
    /\ SF_vars(Certain("0810") /\ Monitor("0810"))

-----------------------------------------------------------------------------
(* Properties.                                                              *)

\* The client only keeps alive a session that the server has given it: no
\* late or doubled answer is taken for that to its login.
KeepsAliveWhatItGot ==
    up = "up" /\ step \in KeepAlive \cup {"sleep"} => admitted

\* As long as no datagram is doubled and no call fails, the answers taken in the
\* keep-alive exchanges are those to the datagrams just sent.
InStep == crossed => dups > 0 \/ errs > 0

\* Offline, the router gets online again, although the client itself waits for
\* ever for a lost datagram and the monitor may take whatever it fetched, or
\* that it fetched nothing, for being online: at 08:10 it restarts the client
\* without asking.
OnlineAgain == ~session ~> session
=============================================================================
