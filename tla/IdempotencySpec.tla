--------------------------- MODULE IdempotencySpec ---------------------------
(***************************************************************************)
(* What an idempotency key promises: a key belongs to at most one message  *)
(* at a time, and passes to another only when the first one's term is over *)
(* for the request that takes it.                                          *)
(***************************************************************************)
EXTENDS Naturals

CONSTANTS Keys, TTL, None
VARIABLE owner    \* the row of each key: its message and the end of its term

Init == owner = [k \in Keys |-> None]

\* A request that came in TTL before the new term ends takes the key.
Claim(k) ==
  /\ \A other \in Keys \ {k} : owner'[other] = owner[other]
  /\ owner'[k] # None
  /\ owner[k] # None => owner'[k].expiresAt >= owner[k].expiresAt + TTL

Next == \E k \in Keys : Claim(k)

Spec == Init /\ [][Next]_owner

=============================================================================
