------------------------------ MODULE MCLedger ------------------------------
(***************************************************************************)
(* What ends in the ledger, in one run: overlapping operations on          *)
(* receivables, requests that record their idempotency key last, the       *)
(* settlement of payment intents by provider events, the numbers of        *)
(* documents and the journals themselves.                                  *)
(*                                                                         *)
(* Each part keeps its own rows here, so nothing is gained by interleaving *)
(* them: `part`, chosen at the start, names the one that runs, the others  *)
(* rest.  The state space is the sum of theirs.                            *)
(***************************************************************************)
EXTENDS Receivables, Idempotency, Settlements, Numbering, Journals, TLC

VARIABLE part

Books == {"receivables", "keys", "settlements", "numbers", "journals"}

bookVars == <<vars, keyVars, settleVars, numberVars, journalVars>>

\* Staff members are interchangeable, and so are requests.
LedgerSymmetry == Permutations(Users) \cup Permutations(Requests)

-----------------------------------------------------------------------------
LedgerInit ==
  /\ part \in Books
  /\ Init /\ NumberInit /\ JournalInit
  /\ KeyInit
  /\ part # "keys" => \A r \in Attempts : hash[r] = (CHOOSE h \in Hashes : TRUE)
  /\ SettleInit
  /\ part # "settlements" => \A e \in ProviderEvents :
       content[e] = [success |-> FALSE, intent |-> NoId, payment |-> NoId]

LedgerNext ==
  /\ UNCHANGED part
  /\ IF part = "receivables" THEN Next ELSE UNCHANGED vars
  /\ IF part = "keys" THEN KeyNext ELSE UNCHANGED keyVars
  /\ IF part = "settlements" THEN SettleNext ELSE UNCHANGED settleVars
  /\ IF part = "numbers" THEN NumberNext ELSE UNCHANGED numberVars
  /\ IF part = "journals" THEN JournalNext ELSE UNCHANGED journalVars

LedgerSpec == LedgerInit /\ [][LedgerNext]_<<part, bookVars>>

-----------------------------------------------------------------------------
\* Every row of every part fits its table.
LedgerTypeOK ==
  /\ part \in Books
  /\ TypeOK /\ KeyTypeOK /\ SettleTypeOK /\ NumberTypeOK /\ JournalTypeOK
=============================================================================
