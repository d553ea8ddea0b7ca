------------------------------ MODULE MCDrcom ------------------------------
(* A view of DrcomClient that has of the counts of faults what its guards   *)
(* and properties tell apart: how many there were, and whether one of them  *)
(* excuses an answer to another exchange.                                   *)
EXTENDS DrcomClient

Excused == dups > 0 \/ errs > 0

MCView ==
    <<up, step, waiting, try, fails, two, salt, requests, replies, server,
      lost + dups + errs + hasty, Excused, ~Excused /\ crossed>>
=============================================================================
