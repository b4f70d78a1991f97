----------------------------- MODULE AtMostOnce -----------------------------
(***************************************************************************)
(* What an idempotency key promises: while a key lives, the requests sent  *)
(* under it have one effect between them, and every answer with a body     *)
(* tells the effect of a request that asked for the same.                  *)
(***************************************************************************)
CONSTANTS Attempts, Hashes, Nobody

VARIABLES
  hash,    \* what each request asks for
  effects, \* requests that took effect since the key was last forgotten
  answer   \* the request whose effect each caller was told of

vars == <<hash, effects, answer>>

Init ==
  /\ hash \in [Attempts -> Hashes]
  /\ effects = {}
  /\ answer = [r \in Attempts |-> Nobody]

Perform(r) ==
  /\ effects = {}
  /\ answer[r] = Nobody
  /\ effects' = {r}
  /\ answer' = [answer EXCEPT ![r] = r]
  /\ UNCHANGED hash

Replay(r) ==
  /\ answer[r] = Nobody
  /\ \E s \in effects : hash[s] = hash[r] /\ answer' = [answer EXCEPT ![r] = s]
  /\ UNCHANGED <<hash, effects>>

Forget == effects' = {} /\ UNCHANGED <<hash, answer>>

Next == Forget \/ \E r \in Attempts : Perform(r) \/ Replay(r)

Spec == Init /\ [][Next]_vars

=============================================================================
