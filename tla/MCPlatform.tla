----------------------------- MODULE MCPlatform -----------------------------
(***************************************************************************)
(* What the other parts rely on, in one run: the outbox with its consumer, *)
(* requests under one idempotency key that reserve it first, and the       *)
(* import of an inventory, which the outbox delivers.                      *)
(*                                                                         *)
(* Each part keeps its own rows here, so nothing is gained by interleaving *)
(* them: `part`, chosen at the start, names the one that runs, the others  *)
(* rest.  The state space is the sum of theirs.                            *)
(***************************************************************************)
EXTENDS Outbox, Idempotency, Imports, TLC

VARIABLE part

Platforms == {"outbox", "keys", "imports"}

\* The rows of a file share a property and have a unit each.
MCNeeds(i) == <<"property", "unit" \o ToString(i)>>

-----------------------------------------------------------------------------
PlatformInit ==
  /\ part \in Platforms
  /\ Init /\ ImportInit
  /\ KeyInit
  /\ part # "keys" => \A r \in Attempts : hash[r] = (CHOOSE h \in Hashes : TRUE)

PlatformNext ==
  /\ UNCHANGED part
  /\ IF part = "outbox" THEN Next ELSE UNCHANGED vars
  /\ IF part = "keys" THEN KeyNext ELSE UNCHANGED keyVars
  /\ IF part = "imports" THEN ImportNext ELSE UNCHANGED importVars

\* The part that runs does so under the fairness of its module; an action of
\* another part is never enabled.
PlatformFairness ==
  /\ \A w \in Pollers : /\ WF_vars(part = "outbox" /\ Poll(w))
                       /\ WF_vars(part = "outbox" /\ Work(w))
  /\ \A e \in Events : WF_vars(part = "outbox" /\ BecomeDue(e))
  /\ \A r \in Attempts : WF_keyVars(part = "keys" /\ Step(r))
  /\ \A w \in Workers : /\ WF_importVars(part = "imports" /\ Start(w))
                        /\ WF_importVars(part = "imports" /\ WorkOn(w))

PlatformSpec ==
  PlatformInit /\ [][PlatformNext]_<<part, vars, keyVars, importVars>> /\ PlatformFairness

-----------------------------------------------------------------------------
\* Every row of every part fits its table.
PlatformTypeOK == part \in Platforms /\ TypeOK /\ KeyTypeOK /\ ImportTypeOK
=============================================================================
