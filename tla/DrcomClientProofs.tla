------------------------- MODULE DrcomClientProofs -------------------------
(***************************************************************************)
(* What the drcom client may take for the answer to what, for any numbers  *)
(* of tries and faults.  An acceptance is on the way only to a client that *)
(* was admitted (Admitted), and as long as nothing was doubled and no call *)
(* failed at most one datagram of the present exchange is on the way, the  *)
(* request or the answer (OneOnTheWay).                                    *)
(***************************************************************************)
EXTENDS DrcomClient, TLAPS

Salts == {"none", "new", "old", "garbage"}
Requests ==
    [kind : {"challenge", "login"} \cup KeepAlive, mine : BOOLEAN, salt : Salts]
Replies ==
    [kind : {"challenged", "accepted", "refused", "wrong"} \cup KeepAlive,
     salt : Salts]

TypeOK ==
    /\ up \in {"up", "failed", "cutoff"} /\ step \in Steps
    /\ waiting \in BOOLEAN
    /\ salt \in Salts /\ session \in BOOLEAN
    /\ DOMAIN requests \subseteq Requests /\ DOMAIN replies \subseteq Replies
    /\ dups \in Nat /\ errs \in Nat
    /\ waiting => step # "sleep"

Admitted ==
    /\ \A r \in DOMAIN replies : r.kind = "accepted" => admitted
    /\ KeepsAliveWhatItGot

\* The answers that belong to an exchange.
Fits(k) ==
    CASE step = "challenge" -> k = "challenged"
      [] step = "login" -> k \in {"accepted", "refused"}
      [] OTHER -> k \in {step, "refused"}

Mine == {q \in DOMAIN requests : q.mine}

OneOnTheWay ==
    /\ \A q \in Mine : q.kind = step /\ requests[q] = 1 /\ DOMAIN replies = {}
    /\ \A q1, q2 \in Mine : q1 = q2
    /\ \A r \in DOMAIN replies : Fits(r.kind) /\ replies[r] = 1
    /\ \A r1, r2 \in DOMAIN replies : r1 = r2
    /\ ~waiting => Mine = {} /\ DOMAIN replies = {}

Undisturbed == dups = 0 /\ errs = 0

InOrder == Undisturbed => ~crossed /\ (up = "up" => OneOnTheWay)

IInv == TypeOK /\ Admitted /\ InOrder

-----------------------------------------------------------------------------
(* The bags that stand for the network.                                     *)

\* A datagram is added.
LEMMA PutBag ==
  ASSUME NEW bag, NEW e
  PROVE  /\ DOMAIN Put(bag, e) = DOMAIN bag \cup {e}
         /\ \A x \in DOMAIN bag \ {e} : bag[x] = 1 => Put(bag, e)[x] = 1
         /\ e \notin DOMAIN bag => Put(bag, e)[e] = 1
  BY DEF Put, (+), SetToBag

\* One copy of a datagram is taken away.
LEMMA TakeBag ==
  ASSUME NEW bag, NEW e
  PROVE  /\ DOMAIN Take(bag, e) \subseteq DOMAIN bag
         /\ \A x \in DOMAIN Take(bag, e) : x # e => Take(bag, e)[x] = bag[x]
         /\ bag[e] = 1 => e \notin DOMAIN Take(bag, e)
<1> DEFINE one == SetToBag({e})
           less == [x \in DOMAIN bag |-> IF x \in DOMAIN one
                                         THEN bag[x] - one[x] ELSE bag[x]]
<1>1. Take(bag, e) = [x \in {d \in DOMAIN less : less[d] > 0} |-> less[x]]
  BY DEF Take, (-)
<1>2. DOMAIN one = {e} /\ one[e] = 1
  BY DEF SetToBag
<1> HIDE DEF one
<1> QED  BY <1>1, <1>2

\* A datagram grows old without losing anything but its salt.
LEMMA AgeKeeps ==
  ASSUME NEW e \in Requests \cup Replies
  PROVE  /\ Age(e).kind = e.kind
         /\ e \in Requests => Age(e) \in Requests /\ Age(e).mine = e.mine
         /\ e \in Replies => Age(e) \in Replies
<1>1. CASE e \in Requests
  <2>1. PICK k \in {"challenge", "login"} \cup KeepAlive, m \in BOOLEAN,
             s \in Salts : e = [kind |-> k, mine |-> m, salt |-> s]
    BY <1>1 DEF Requests
  <2>2. PICK t \in Salts : Age(e) = [e EXCEPT !.salt = t]
    BY <2>1 DEF Age, Salts
  <2>3. Age(e) = [kind |-> k, mine |-> m, salt |-> t]
    BY <2>1, <2>2
  <2>4. e \notin Replies
    BY <2>1 DEF Replies
  <2> QED  BY <2>1, <2>3, <2>4 DEF Requests
<1>2. CASE e \in Replies
  <2>1. PICK k \in {"challenged", "accepted", "refused", "wrong"} \cup KeepAlive,
             s \in Salts : e = [kind |-> k, salt |-> s]
    BY <1>2 DEF Replies
  <2>2. PICK t \in Salts : Age(e) = [e EXCEPT !.salt = t]
    BY <2>1 DEF Age, Salts
  <2>3. Age(e) = [kind |-> k, salt |-> t]
    BY <2>1, <2>2
  <2>4. e \notin Requests
    BY <2>1 DEF Requests
  <2> QED  BY <2>1, <2>3, <2>4 DEF Replies
<1> QED  BY <1>1, <1>2

\* A datagram that is alone in growing to what it becomes stays single.
LEMMA AgeSingle ==
  ASSUME NEW bag, NEW e \in DOMAIN bag, bag[e] = 1,
         e \in Requests \cup Replies,
         \A x \in DOMAIN bag : Age(x) = Age(e) => x = e
  PROVE  AgeBag(bag)[Age(e)] = 1
<1> DEFINE a == Age(e)
           new == [a EXCEPT !.salt = "new"]
           Copies(x, y) == IF y \in DOMAIN bag /\ Age(y) = x THEN bag[y] ELSE 0
<1>1. AgeBag(bag)[a] = Copies(a, a) + (IF a.salt = "old" THEN Copies(a, new)
                                        ELSE 0)
  BY DEF AgeBag
<1>2. e \in DOMAIN bag /\ bag[e] = 1
  OBVIOUS
<1>3. \A x : Age(x) = a /\ x # e => x \notin DOMAIN bag
  OBVIOUS
<1>4. e.salt # "new" => a = e
  <2>1. CASE e \in Requests
    BY <2>1 DEF Age, Requests
  <2>2. CASE e \in Replies
    BY <2>2 DEF Age, Replies
  <2> QED  BY <2>1, <2>2
<1>5. e.salt = "new" => a # e /\ a.salt = "old" /\ new = e
  <2>1. CASE e \in Requests
    BY <2>1 DEF Age, Requests
  <2>2. CASE e \in Replies
    BY <2>2 DEF Age, Replies
  <2> QED  BY <2>1, <2>2
<1>6. a.salt = "old" /\ e.salt # "new" => new # e
  <2>1. CASE e \in Requests
    BY <2>1, <1>4 DEF Age, Requests
  <2>2. CASE e \in Replies
    BY <2>2, <1>4 DEF Age, Replies
  <2> QED  BY <2>1, <2>2
<1> HIDE DEF a, new
<1>7. CASE e.salt = "new"
  <2>1. Copies(a, a) = 0
    BY <1>3, <1>5, <1>7
  <2>2. Copies(a, new) = 1
    BY <1>2, <1>5, <1>7 DEF a
  <2> QED  BY <1>1, <1>5, <1>7, <2>1, <2>2 DEF a
<1>8. CASE e.salt # "new"
  <2>1. Copies(a, a) = 1
    BY <1>2, <1>4, <1>8 DEF a
  <2>2. a.salt = "old" => Copies(a, new) = 0
    BY <1>3, <1>6, <1>8
  <2> QED  BY <1>1, <2>1, <2>2 DEF a
<1> QED  BY <1>7, <1>8

-----------------------------------------------------------------------------
(* The steps of the client.                                                 *)

\* The kinds of datagrams and what their first bytes are.
LEMMA Kinds ==
  ASSUME TypeOK
  PROVE  /\ \A r \in DOMAIN replies : /\ First(r.kind) = 4 <=> r.kind = "accepted"
                                      /\ r.kind = "challenged" => First(r.kind) = 2
                                      /\ First(r.kind) = 2 => r.salt \in Salts
                                      /\ r.kind = "challenged" => First(r.kind) # 7
         /\ step \in KeepAlive => step \notin {"challenge", "login", "sleep"}
  BY DEF TypeOK, Replies, First, KeepAlive

\* The client sends the request of its step: nothing else is on the way.
LEMMA SendInv == ASSUME IInv, Send PROVE IInv'
<1> DEFINE q == [kind |-> step, mine |-> TRUE,
                 salt |-> IF step = "login" THEN salt ELSE "none"]
<1>1. /\ up = "up" /\ ~waiting /\ step # "sleep" /\ waiting'
      /\ requests' = Put(requests, q)
      /\ UNCHANGED <<up, step, salt, replies, session, admitted, dups, errs,
                     crossed>>
  BY DEF Send, server, counts
<1>2. q \in Requests
  <2>1. step \in {"challenge", "login"} \cup KeepAlive /\ q.salt \in Salts
    BY <1>1 DEF IInv, TypeOK, Steps, Salts
  <2> QED  BY <2>1 DEF Requests
<1>3. DOMAIN requests' = DOMAIN requests \cup {q}
      /\ (q \notin DOMAIN requests => requests'[q] = 1)
  <2> HIDE DEF q
  <2> QED  BY <1>1, PutBag
<1>4. TypeOK'
  BY <1>1, <1>2, <1>3 DEF IInv, TypeOK
<1>5. Admitted'
  BY <1>1 DEF IInv, Admitted, KeepsAliveWhatItGot
<1>6. ASSUME Undisturbed PROVE OneOnTheWay'
  <2>1. Mine = {} /\ DOMAIN replies = {}
    BY <1>1, <1>6 DEF IInv, InOrder, OneOnTheWay
  <2>2. q.mine /\ q.kind = step
    OBVIOUS
  <2> HIDE DEF q
  <2>3. Mine' = {q} /\ q \notin DOMAIN requests
    BY <1>3, <2>1, <2>2 DEF Mine
  <2> QED  BY <1>1, <1>3, <2>1, <2>2, <2>3 DEF OneOnTheWay
<1> QED  BY <1>1, <1>4, <1>5, <1>6 DEF IInv, InOrder, Undisturbed

\* A call fails: the next step of the loop, and order is no longer promised.
LEMMA FailureInv == ASSUME IInv, SendFails \/ RecvFails PROVE IInv'
<1>1. /\ up = "up" /\ step \in Steps /\ errs' = errs + 1 /\ waiting' = FALSE
      /\ UNCHANGED <<up, requests, replies, session, admitted, dups>>
      /\ UNCHANGED <<step, salt>> \/ Continue
  <2>1. waiting \in BOOLEAN /\ step \in Steps
    BY DEF IInv, TypeOK
  <2>2. CASE SendFails
    <3>1. ~waiting /\ waiting' = waiting
      BY <2>2 DEF SendFails
    <3> QED  BY <2>1, <2>2, <3>1 DEF SendFails, server
  <2>3. CASE RecvFails
    BY <2>1, <2>3 DEF RecvFails, server
  <2> QED  BY <2>2, <2>3
<1>2. \/ UNCHANGED <<step, salt>>
      \/ step \in KeepAlive /\ step' = "alive" /\ salt' = salt
      \/ step' = "login" /\ salt' = "garbage"
  BY <1>1 DEF Continue
<1>3. TypeOK' /\ errs' # 0
  <2>1. errs' \in Nat /\ errs' # 0
    BY <1>1 DEF IInv, TypeOK
  <2>2. step' \in Steps /\ salt' \in Salts /\ (waiting' => step' # "sleep")
    BY <1>1, <1>2 DEF IInv, TypeOK, Steps, KeepAlive, Salts
  <2> QED  BY <1>1, <2>1, <2>2 DEF IInv, TypeOK
<1>4. Admitted'
  BY <1>1, <1>2 DEF IInv, Admitted, KeepsAliveWhatItGot, KeepAlive
<1> QED  BY <1>3, <1>4 DEF IInv, InOrder, Undisturbed

\* What is received answers what was sent.
LEMMA ReceiveInv ==
  ASSUME IInv, NEW CONSTANT r \in DOMAIN replies, Receive(r) PROVE IInv'
<1>1. /\ up = "up" /\ waiting /\ waiting' = FALSE /\ replies' = Take(replies, r)
      /\ UNCHANGED <<requests, session, admitted, dups, errs>>
  BY DEF Receive, server, counts, IInv, TypeOK
<1>2. /\ DOMAIN replies' \subseteq DOMAIN replies
      /\ replies[r] = 1 => r \notin DOMAIN replies'
  BY <1>1, TakeBag
<1>3. /\ up' \in {"up", "failed"} /\ step' \in Steps /\ salt' \in Salts
      /\ up' = "up" /\ step' \in KeepAlive \cup {"sleep"}
            => admitted \/ step \in KeepAlive
  <2>1. CASE Challenged(r)
    BY <1>1, <2>1, Kinds DEF Challenged, IInv, TypeOK, Steps, KeepAlive
  <2>2. CASE LoginAnswered(r)
    BY <1>1, <2>2, Kinds
       DEF LoginAnswered, IInv, TypeOK, Admitted, Steps, KeepAlive
  <2>3. ASSUME NEW five \in BOOLEAN, KeptAlive(r, five)
        PROVE  up' = up /\ step' \in Steps /\ salt' = salt /\ step \in KeepAlive
    BY <2>3 DEF KeptAlive, Steps, KeepAlive
  <2> QED  BY <1>1, <2>1, <2>2, <2>3 DEF Receive, IInv, TypeOK
<1>4. TypeOK'
  BY <1>1, <1>2, <1>3 DEF IInv, TypeOK
<1>5. Admitted'
  BY <1>1, <1>2, <1>3 DEF IInv, Admitted, KeepsAliveWhatItGot
<1>6. ASSUME Undisturbed PROVE ~crossed' /\ OneOnTheWay'
  <2>1. OneOnTheWay /\ ~crossed
    BY <1>1, <1>6 DEF IInv, InOrder
  <2>2. Fits(r.kind) /\ DOMAIN replies = {r} /\ replies[r] = 1 /\ Mine = {}
    BY <2>1 DEF OneOnTheWay
  <2>3. DOMAIN replies' = {} /\ Mine' = {}
    BY <1>1, <1>2, <2>2 DEF Mine
  <2>4. ~crossed'
    <3>1. CASE Challenged(r) \/ LoginAnswered(r)
      BY <2>1, <3>1 DEF Challenged, LoginAnswered
    <3>2. ASSUME NEW five \in BOOLEAN, KeptAlive(r, five) PROVE ~crossed'
      <4>1. step \in KeepAlive /\ r.kind \in {step, "refused"}
        BY <2>2, <3>2 DEF KeptAlive, Fits, KeepAlive
      <4> QED  BY <2>1, <3>2, <4>1 DEF KeptAlive
    <3> QED  BY <3>1, <3>2 DEF Receive
  <2> QED  BY <1>1, <2>3, <2>4 DEF OneOnTheWay
<1> QED  BY <1>1, <1>4, <1>5, <1>6 DEF IInv, InOrder, Undisturbed

\* The client gives up, or sleeps.
LEMMA PauseInv == ASSUME IInv, GiveUp \/ Sleep PROVE IInv'
<1>1. /\ UNCHANGED <<waiting, salt, requests, replies, session, admitted,
                     dups, errs, crossed>>
      /\ \/ up' \in {"failed", "cutoff"} /\ step' = step
         \/ up' = up /\ up = "up" /\ step = "sleep" /\ step' = "alive"
  BY DEF GiveUp, Sleep, server, counts
<1>2. TypeOK' /\ Admitted'
  BY <1>1 DEF IInv, TypeOK, Admitted, KeepsAliveWhatItGot, Steps, KeepAlive
<1>3. InOrder'
  <2>1. CASE up' # "up"
    BY <1>1, <2>1 DEF IInv, InOrder, Undisturbed
  <2>2. CASE up' = "up"
    <3>1. up = "up" /\ ~waiting /\ ~waiting'
      BY <1>1, <2>2 DEF IInv, TypeOK
    <3> QED  BY <1>1, <3>1 DEF IInv, InOrder, Undisturbed, OneOnTheWay, Mine
  <2> QED  BY <2>1, <2>2
<1> QED  BY <1>2, <1>3 DEF IInv

-----------------------------------------------------------------------------
(* The steps of the server.                                                 *)

\* What the server may answer.
Answers(q) ==
    {k \in {"accepted", "refused", "wrong"} \cup KeepAlive :
        \/ q.kind = "login" /\ k \in {"accepted", "refused"}
        \/ q.kind \in KeepAlive /\ k \in {q.kind, "refused"}}

\* An exchange in which no salt is issued.
LEMMA AnswerInv ==
  ASSUME IInv, NEW CONSTANT q \in DOMAIN requests,
         Misserve(q) \/ ServeLogin(q) \/ ServeKeepAlive(q),
         UNCHANGED <<up, step, waiting, dups, crossed>>
  PROVE  IInv'
<1> DEFINE answer(k) == [kind |-> k, salt |-> "none"]
<1>1. /\ requests' = Take(requests, q) /\ salt' = salt /\ session' \in BOOLEAN
      /\ admitted => admitted'
      /\ errs' = errs \/ errs' = errs + 1
  <2>1. CASE Misserve(q)
    BY <2>1 DEF Misserve, server, IInv, TypeOK
  <2>2. CASE ServeLogin(q)
    <3>1. session \in BOOLEAN
      BY DEF IInv, TypeOK
    <3>2. \/ session' = TRUE /\ admitted' = (admitted \/ q.mine)
          \/ session' = session /\ admitted' = admitted
      BY <2>2 DEF ServeLogin, server
    <3>3. admitted => admitted'
      BY <3>2
    <3>4. session' \in BOOLEAN
      BY <3>1, <3>2
    <3> QED  BY <2>2, <3>3, <3>4 DEF ServeLogin
  <2>3. CASE ServeKeepAlive(q)
    BY <2>3 DEF ServeKeepAlive, server, IInv, TypeOK
  <2> QED  BY <2>1, <2>2, <2>3
<1>2. \/ replies' = replies
      \/ /\ q.mine
         /\ \E k \in {"accepted", "refused", "wrong"} \cup KeepAlive :
               /\ replies' = Put(replies, answer(k))
               /\ k = "accepted" => admitted'
               /\ errs' = errs => k \in Answers(q)
  <2> HIDE DEF answer
  <2>1. \A k : Reply(q, k, "none") = IF q.mine THEN Put(replies, answer(k))
                                     ELSE replies
    BY DEF Reply, answer
  <2>2. CASE Misserve(q)
    <3>1. errs' # errs
      BY <2>2 DEF Misserve, IInv, TypeOK
    <3> QED  BY <2>1, <2>2, <3>1 DEF Misserve
  <2>3. CASE ServeLogin(q)
    BY <2>1, <2>3 DEF ServeLogin, Answers
  <2>4. CASE ServeKeepAlive(q)
    BY <2>1, <2>4 DEF ServeKeepAlive, Answers, KeepAlive
  <2> QED  BY <2>2, <2>3, <2>4
<1>3. DOMAIN requests' \subseteq DOMAIN requests
      /\ (\A x \in DOMAIN requests' : x # q => requests'[x] = requests[x])
      /\ (requests[q] = 1 => q \notin DOMAIN requests')
  BY <1>1, TakeBag
<1>4. ASSUME NEW k \in {"accepted", "refused", "wrong"} \cup KeepAlive,
             replies' = Put(replies, answer(k))
      PROVE  /\ answer(k) \in Replies
             /\ DOMAIN replies' = DOMAIN replies \cup {answer(k)}
             /\ answer(k) \notin DOMAIN replies => replies'[answer(k)] = 1
  <2>1. answer(k) \in Replies
    BY DEF Replies, Salts
  <2> HIDE DEF answer
  <2> QED  BY <1>4, <2>1, PutBag
<1>5. TypeOK'
  <2>1. DOMAIN replies' \subseteq Replies
    BY <1>2, <1>4 DEF IInv, TypeOK
  <2>2. errs' \in Nat
    BY <1>1 DEF IInv, TypeOK
  <2> QED  BY <1>1, <1>3, <2>1, <2>2 DEF IInv, TypeOK
<1>6. Admitted'
  <2>1. \A r \in DOMAIN replies' : r.kind = "accepted" => admitted'
    <3>1. \A r \in DOMAIN replies : r.kind = "accepted" => admitted'
      BY <1>1 DEF IInv, Admitted
    <3>2. \A k : answer(k).kind = k
      OBVIOUS
    <3> HIDE DEF answer
    <3> QED  BY <1>2, <1>4, <3>1, <3>2
  <2> QED  BY <1>1, <2>1 DEF IInv, Admitted, KeepsAliveWhatItGot
<1>7. ASSUME Undisturbed', up' = "up" PROVE OneOnTheWay'
  <2>1. Undisturbed /\ errs' = errs
    BY <1>1, <1>7 DEF Undisturbed, IInv, TypeOK
  <2>2. OneOnTheWay
    BY <1>7, <2>1 DEF IInv, InOrder
  <2>3. Mine' \subseteq Mine \ {q}
    BY <1>3, <2>2 DEF Mine, OneOnTheWay
  <2>4. CASE replies' = replies
    BY <1>3, <2>2, <2>3, <2>4 DEF OneOnTheWay, Mine, Fits
  <2>5. ASSUME q.mine,
               NEW k \in {"accepted", "refused", "wrong"} \cup KeepAlive,
               replies' = Put(replies, answer(k)), k \in Answers(q)
        PROVE  OneOnTheWay'
    <3>1. q \in Mine
      BY <2>5 DEF Mine
    <3>2. /\ q.kind = step /\ DOMAIN replies = {} /\ Mine \ {q} = {}
          /\ waiting
      BY <2>2, <3>1 DEF OneOnTheWay
    <3>3. Mine' = {} /\ DOMAIN replies' = {answer(k)} /\ replies'[answer(k)] = 1
      BY <1>4, <2>3, <2>5, <3>2
    <3>4. Fits(k)' /\ answer(k).kind = k
      BY <2>5, <3>2 DEF Answers, Fits, KeepAlive
    <3> HIDE DEF answer
    <3> QED  BY <3>2, <3>3, <3>4 DEF OneOnTheWay
  <2> QED  BY <1>2, <2>1, <2>4, <2>5
<1>8. Undisturbed' => Undisturbed
  BY <1>1 DEF Undisturbed, IInv, TypeOK
<1> QED  BY <1>5, <1>6, <1>7, <1>8 DEF IInv, InOrder

\* The domain of a bag of aged datagrams.
LEMMA AgeDomain ==
  ASSUME NEW bag PROVE DOMAIN AgeBag(bag) = {Age(e) : e \in DOMAIN bag}
  BY DEF AgeBag

\* A salt is issued, and the other datagrams and the client's salt grow old.
LEMMA ChallengeInv ==
  ASSUME IInv, NEW CONSTANT q \in DOMAIN requests, ServeChallenge(q),
         UNCHANGED <<up, step, waiting, dups, crossed>>
  PROVE  IInv'
<1> DEFINE left == Take(requests, q)
           fresh == [kind |-> "challenged", salt |-> "new"]
<1>1. /\ q.kind = "challenge" /\ requests' = AgeBag(left)
      /\ replies' = IF q.mine THEN Put(AgeBag(replies), fresh)
                    ELSE AgeBag(replies)
      /\ UNCHANGED <<session, admitted, errs>> /\ salt' \in {salt, "old"}
  BY DEF ServeChallenge, server
<1>2. DOMAIN left \subseteq DOMAIN requests
      /\ (\A x \in DOMAIN left : x # q => left[x] = requests[x])
      /\ (requests[q] = 1 => q \notin DOMAIN left)
  BY TakeBag
<1>3. fresh \in Replies /\ fresh.kind = "challenged"
  BY DEF Replies, Salts
<1>4. DOMAIN requests \subseteq Requests /\ DOMAIN replies \subseteq Replies
      /\ DOMAIN left \subseteq Requests
  BY <1>2 DEF IInv, TypeOK
<1> HIDE DEF left, fresh
<1>5. DOMAIN requests' = {Age(e) : e \in DOMAIN left}
  BY <1>1, AgeDomain
<1>6. DOMAIN replies' = {Age(e) : e \in DOMAIN replies}
                        \cup (IF q.mine THEN {fresh} ELSE {})
  <2>1. DOMAIN AgeBag(replies) = {Age(e) : e \in DOMAIN replies}
    BY AgeDomain
  <2>2. CASE q.mine
    <3>1. DOMAIN replies' = DOMAIN AgeBag(replies) \cup {fresh}
      BY <1>1, <2>2, PutBag
    <3> QED  BY <2>1, <2>2, <3>1
  <2>3. CASE ~q.mine
    BY <1>1, <2>1, <2>3
  <2> QED  BY <2>2, <2>3
<1>7. TypeOK'
  <2>1. DOMAIN requests' \subseteq Requests
    BY <1>4, <1>5, AgeKeeps
  <2>2. DOMAIN replies' \subseteq Replies
    BY <1>3, <1>4, <1>6, AgeKeeps
  <2>3. salt' \in Salts
    BY <1>1 DEF IInv, TypeOK, Salts
  <2> QED  BY <1>1, <2>1, <2>2, <2>3 DEF IInv, TypeOK
<1>8. Admitted'
  <2>1. \A r \in DOMAIN replies' : r.kind = "accepted" => admitted'
    BY <1>1, <1>3, <1>4, <1>6, AgeKeeps DEF IInv, Admitted
  <2> QED  BY <1>1, <2>1 DEF IInv, Admitted, KeepsAliveWhatItGot
<1>9. ASSUME Undisturbed, up = "up" PROVE OneOnTheWay'
  <2>1. OneOnTheWay
    BY <1>9 DEF IInv, InOrder
  <2>2. \A x \in Mine' : \E e \in DOMAIN left : x = Age(e) /\ e \in Mine /\ e # q
    BY <1>2, <1>4, <1>5, <2>1, AgeKeeps DEF Mine, OneOnTheWay
  <2>3. \A x \in Mine' : x.kind = step /\ requests'[x] = 1 /\ DOMAIN replies' = {}
    <3> SUFFICES ASSUME NEW x \in Mine'
                 PROVE  x.kind = step /\ requests'[x] = 1 /\ DOMAIN replies' = {}
      OBVIOUS
    <3>1. PICK e \in DOMAIN left : x = Age(e) /\ e \in Mine /\ e # q
      BY <2>2
    <3>2. e.kind = step /\ requests[e] = 1 /\ DOMAIN replies = {} /\ q \notin Mine
      BY <2>1, <3>1 DEF OneOnTheWay
    <3>3. left[e] = 1 /\ x.kind = step
      BY <1>2, <1>4, <3>1, <3>2, AgeKeeps
    <3>4. \A y \in DOMAIN left : Age(y) = Age(e) => y = e
      BY <1>2, <1>4, <2>1, <3>1, AgeKeeps DEF Mine, OneOnTheWay
    <3>5. requests'[x] = 1
      BY <1>1, <1>4, <3>1, <3>3, <3>4, AgeSingle
    <3>6. DOMAIN replies' = {}
      BY <1>6, <3>2 DEF Mine
    <3> QED  BY <3>3, <3>5, <3>6
  <2>4. \A x, y \in Mine' : x = y
    BY <2>1, <2>2 DEF OneOnTheWay
  <2>5. CASE q.mine
    <3>1. q.kind = step /\ DOMAIN replies = {} /\ waiting /\ Mine = {q}
      BY <2>1, <2>5 DEF OneOnTheWay, Mine
    <3>2. Mine' = {} /\ DOMAIN replies' = {fresh}
      BY <1>6, <2>2, <2>5, <3>1
    <3>3. replies'[fresh] = 1
      <4>1. fresh \notin DOMAIN AgeBag(replies)
        BY <3>1, AgeDomain
      <4> QED  BY <1>1, <2>5, <4>1, PutBag
    <3>4. Fits(fresh.kind)'
      BY <1>1, <1>3, <3>1 DEF Fits
    <3> QED  BY <3>1, <3>2, <3>3, <3>4 DEF OneOnTheWay
  <2>6. CASE ~q.mine
    <3>1. replies' = AgeBag(replies)
          /\ DOMAIN replies' = {Age(e) : e \in DOMAIN replies}
      BY <1>1, <1>6, <2>6
    <3>2. \A r \in DOMAIN replies' : Fits(r.kind)' /\ replies'[r] = 1
      <4> SUFFICES ASSUME NEW e \in DOMAIN replies
                   PROVE  Fits(Age(e).kind)' /\ replies'[Age(e)] = 1
        BY <3>1
      <4>1. e.kind = Age(e).kind
        BY <1>4, AgeKeeps
      <4>2. Fits(e.kind) /\ replies[e] = 1
            /\ (\A y \in DOMAIN replies : Age(y) = Age(e) => y = e)
        BY <2>1 DEF OneOnTheWay
      <4>3. replies'[Age(e)] = 1
        BY <1>4, <3>1, <4>2, AgeSingle
      <4> QED  BY <4>1, <4>2, <4>3 DEF Fits
    <3>3. \A r1, r2 \in DOMAIN replies' : r1 = r2
      BY <2>1, <3>1 DEF OneOnTheWay
    <3>4. ~waiting' => Mine' = {} /\ DOMAIN replies' = {}
      BY <2>1, <2>2, <3>1 DEF OneOnTheWay
    <3> QED  BY <2>3, <2>4, <3>2, <3>3, <3>4 DEF OneOnTheWay
  <2> QED  BY <2>5, <2>6
<1> QED  BY <1>1, <1>7, <1>8, <1>9 DEF IInv, InOrder, Undisturbed

-----------------------------------------------------------------------------
(* The network and the monitor.                                             *)

\* A datagram is lost: fewer are on the way.
LEMMA LoseInv == ASSUME IInv, Lose PROVE IInv'
<1>1. UNCHANGED <<up, step, waiting, salt, session, admitted, dups, errs,
                  crossed>>
  BY DEF Lose, server
<1>2. /\ DOMAIN requests' \subseteq DOMAIN requests
      /\ DOMAIN replies' \subseteq DOMAIN replies
      /\ Undisturbed /\ up = "up" =>
            /\ \A x \in Mine' : requests'[x] = 1
            /\ \A x \in DOMAIN replies' : replies'[x] = 1
  <2>1. Undisturbed /\ up = "up" => OneOnTheWay
    BY DEF IInv, InOrder
  <2>2. ASSUME NEW q \in DOMAIN requests, requests' = Take(requests, q),
               replies' = replies
        PROVE  <1>2!:
    <3>1. /\ DOMAIN requests' \subseteq DOMAIN requests
          /\ \A x \in DOMAIN requests' : x # q => requests'[x] = requests[x]
          /\ requests[q] = 1 => q \notin DOMAIN requests'
      BY <2>2, TakeBag
    <3> QED  BY <2>1, <2>2, <3>1 DEF OneOnTheWay, Mine
  <2>3. ASSUME NEW r \in DOMAIN replies, replies' = Take(replies, r),
               requests' = requests
        PROVE  <1>2!:
    <3>1. /\ DOMAIN replies' \subseteq DOMAIN replies
          /\ \A x \in DOMAIN replies' : x # r => replies'[x] = replies[x]
          /\ replies[r] = 1 => r \notin DOMAIN replies'
      BY <2>3, TakeBag
    <3> QED  BY <2>1, <2>3, <3>1 DEF OneOnTheWay, Mine
  <2>4. \/ (\E q \in DOMAIN requests : requests' = Take(requests, q))
           /\ replies' = replies
        \/ (\E r \in DOMAIN replies : replies' = Take(replies, r))
           /\ requests' = requests
    BY DEF Lose
  <2> QED  BY <2>2, <2>3, <2>4
<1>3. TypeOK' /\ Admitted'
  BY <1>1, <1>2 DEF IInv, TypeOK, Admitted, KeepsAliveWhatItGot
<1>4. ASSUME Undisturbed, up = "up" PROVE OneOnTheWay'
  <2>1. OneOnTheWay /\ Mine' \subseteq Mine
    BY <1>2, <1>4 DEF IInv, InOrder, Mine
  <2> QED  BY <1>1, <1>2, <1>4, <2>1 DEF OneOnTheWay, Fits
<1> QED  BY <1>1, <1>3, <1>4 DEF IInv, InOrder, Undisturbed

\* A datagram is doubled: order is no longer promised.
LEMMA DuplicateInv == ASSUME IInv, Duplicate PROVE IInv'
<1>1. /\ UNCHANGED <<up, step, waiting, salt, session, admitted, errs>>
      /\ dups' = dups + 1
  BY DEF Duplicate, server
<1>2. DOMAIN requests' = DOMAIN requests /\ DOMAIN replies' = DOMAIN replies
  <2>1. ASSUME NEW q \in DOMAIN requests PROVE DOMAIN Put(requests, q) = DOMAIN requests
    <3>1. DOMAIN Put(requests, q) = DOMAIN requests \cup {q}
      BY PutBag
    <3> QED  BY <3>1
  <2>2. ASSUME NEW r \in DOMAIN replies PROVE DOMAIN Put(replies, r) = DOMAIN replies
    <3>1. DOMAIN Put(replies, r) = DOMAIN replies \cup {r}
      BY PutBag
    <3> QED  BY <3>1
  <2> QED  BY <2>1, <2>2 DEF Duplicate
<1>3. dups' \in Nat /\ dups' # 0
  BY <1>1 DEF IInv, TypeOK
<1>4. TypeOK' /\ Admitted'
  BY <1>1, <1>2, <1>3 DEF IInv, TypeOK, Admitted, KeepsAliveWhatItGot
<1> QED  BY <1>3, <1>4 DEF IInv, InOrder, Undisturbed

\* The server forgets the session.
LEMMA ExpireInv == ASSUME IInv, Expire PROVE IInv'
<1>1. session' \in BOOLEAN
      /\ UNCHANGED <<up, step, waiting, salt, requests, replies, admitted, dups,
                     errs, crossed>>
  BY DEF Expire, counts
<1>2. TypeOK' /\ Admitted'
  BY <1>1 DEF IInv, TypeOK, Admitted, KeepsAliveWhatItGot
<1>3. InOrder'
  BY <1>1 DEF IInv, InOrder, Undisturbed, OneOnTheWay, Mine, Fits
<1> QED  BY <1>2, <1>3 DEF IInv

\* The new client starts with a clean slate: what the old one has sent reaches
\* the server, but the answers do not reach the new socket.
LEMMA StartInv == ASSUME IInv, StartClient PROVE IInv'
<1> DEFINE Old(q) == [q EXCEPT !.mine = FALSE]
<1>1. /\ up' = "up" /\ step' = "challenge" /\ waiting' = FALSE /\ salt' = "none"
      /\ requests' = SetToBag({Old(q) : q \in DOMAIN requests})
      /\ replies' = EmptyBag
      /\ UNCHANGED <<session, dups, errs, crossed>>
  BY DEF StartClient
<1>2. \A q \in Requests : Old(q) \in Requests /\ ~Old(q).mine
  BY DEF Requests
<1>3. DOMAIN requests' = {Old(q) : q \in DOMAIN requests} /\ DOMAIN replies' = {}
  BY <1>1 DEF SetToBag, EmptyBag
<1>4. DOMAIN requests' \subseteq Requests /\ Mine' = {}
  BY <1>2, <1>3 DEF IInv, TypeOK, Mine
<1>5. TypeOK' /\ Admitted'
  BY <1>1, <1>3, <1>4
     DEF IInv, TypeOK, Admitted, KeepsAliveWhatItGot, Steps, KeepAlive, Salts
<1>6. InOrder'
  BY <1>1, <1>3, <1>4 DEF IInv, InOrder, Undisturbed, OneOnTheWay
<1> QED  BY <1>5, <1>6 DEF IInv

-----------------------------------------------------------------------------
(* The theorems.                                                            *)

LEMMA InitInv == Init => IInv
<1> SUFFICES ASSUME Init PROVE IInv
  OBVIOUS
<1>1. DOMAIN requests = {} /\ DOMAIN replies = {}
  BY DEF Init, EmptyBag, SetToBag
<1>2. TypeOK /\ Admitted
  BY <1>1 DEF Init, TypeOK, Admitted, KeepsAliveWhatItGot, Steps, KeepAlive, Salts
<1> QED  BY <1>1, <1>2 DEF Init, IInv, InOrder, OneOnTheWay, Mine

LEMMA StutterInv == ASSUME IInv, UNCHANGED vars PROVE IInv'
<1>1. UNCHANGED <<up, step, waiting, salt, session, requests, replies, admitted,
                  dups, errs, crossed>>
  BY DEF vars, server, counts
<1> QED
  BY <1>1 DEF IInv, TypeOK, Admitted, KeepsAliveWhatItGot, InOrder, Undisturbed,
              OneOnTheWay, Mine, Fits

LEMMA NextInv == IInv /\ [Next]_vars => IInv'
<1> SUFFICES ASSUME IInv, [Next]_vars PROVE IInv'
  OBVIOUS
<1>1. CASE GiveUp \/ Sleep
  BY <1>1, PauseInv
<1>2. CASE Send
  BY <1>2, SendInv
<1>3. CASE \E r \in DOMAIN replies : Receive(r)
  BY <1>3, ReceiveInv
<1>4. CASE SendFails \/ RecvFails
  BY <1>4, FailureInv
<1>5. CASE Server
  BY <1>5, ChallengeInv, AnswerInv DEF Server, Serve
<1>6. CASE Expire
  BY <1>6, ExpireInv
<1>7. CASE Lose
  BY <1>7, LoseInv
<1>8. CASE Duplicate
  BY <1>8, DuplicateInv
<1>9. CASE \E time \in Times : Monitor(time) \/ HastyMonitor(time)
  BY <1>9, StartInv DEF Monitor, HastyMonitor
<1>10. CASE UNCHANGED vars
  BY <1>10, StutterInv
<1> QED
  BY <1>1, <1>2, <1>3, <1>4, <1>5, <1>6, <1>7, <1>8, <1>9, <1>10
     DEF Next, Client

\* The invariant holds in every state of every execution.
THEOREM Invariance == Spec => []IInv
  BY InitInv, NextInv, PTL DEF Spec

\* The keep-alive loop of the client is only entered by a client to which the
\* server has granted the login, whatever the network loses, doubles or delays.
THEOREM OnlyAdmittedKeepAlive == Spec => []KeepsAliveWhatItGot
<1>1. IInv => KeepsAliveWhatItGot
  BY DEF IInv, Admitted
<1> QED  BY <1>1, Invariance, PTL

\* As long as nothing is doubled and no call fails, no answer is taken for that
\* to another exchange, although the client never checks what it receives.
THEOREM NeverCrossed == Spec => []InStep
<1>1. IInv => InStep
  BY DEF IInv, TypeOK, InOrder, Undisturbed, InStep
<1> QED  BY <1>1, Invariance, PTL
=============================================================================
