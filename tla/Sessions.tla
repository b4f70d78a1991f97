------------------------------ MODULE Sessions ------------------------------
(***************************************************************************)
(* The sessions of a user (apps/api/src/modules/identity/application/      *)
(* auth.service.ts): login with and without a second factor, refresh with  *)
(* rotation of the refresh token, logout, logout everywhere, the password  *)
(* reset, the switch of the organization, and what a suspension does.      *)
(*                                                                         *)
(* Passwords, proofs, cookies and signatures are left out: a login whose   *)
(* password is wrong changes nothing.  A call is a sequence of statements  *)
(* between which other calls run and after each of which it may fail.      *)
(***************************************************************************)
EXTENDS Naturals, FiniteSets

CONSTANTS
  SessionIds, RefreshTokens, Challenges,
  Callers,          \* calls that may run at once
  MaxTokenVersion   \* bound on the sign-outs everywhere

ASSUME SessionAssumption == MaxTokenVersion \in Nat \ {0}

VARIABLES
  account,    \* users.token_version, whether a second factor is active, membership status
  session,    \* rows of user_sessions; inOrg: a current membership is set
  refresh,    \* rows of refresh_tokens
  challenge,  \* one-time tokens of logins that wait for the second factor
  caller,     \* the next statement of each call, and what it has read
  opened,     \* history: sessions that each challenge has opened
  ended       \* history: sessions whose end a caller has been told of

sessionVars == <<account, session, refresh, challenge, caller, opened, ended>>

NoSession == [status |-> "NONE", inOrg |-> FALSE]
NoToken   == [exists |-> FALSE, consumed |-> FALSE, revoked |-> FALSE, session |-> "none"]
Rests     == [op |-> "rests"]

SessionInit ==
  /\ account \in [version : {1}, mfa : BOOLEAN, membership : {"ACTIVE"}]
  /\ session = [s \in SessionIds |-> NoSession]
  /\ refresh = [t \in RefreshTokens |-> NoToken]
  /\ challenge = [k \in Challenges |-> "NONE"]
  /\ caller = [c \in Callers |-> Rests]
  /\ opened = [k \in Challenges |-> {}]
  /\ ended = {}

Fresh(s)  == [NoToken EXCEPT !.exists = TRUE, !.session = s]
ActiveSessions    == {s \in SessionIds : session[s].status = "ACTIVE"}

Goes(c, step)  == caller' = [caller EXCEPT ![c] = step]
Begins(c, step) == caller[c] = Rests /\ Goes(c, step)

\* Any failure between two statements, a refusal, or a crash.
Breaks(c) ==
  /\ caller[c] # Rests
  /\ Goes(c, Rests)
  /\ UNCHANGED <<account, session, refresh, challenge, opened, ended>>

(***************************************************************************)
(* Login.                                                                  *)
(***************************************************************************)

\* The password was right, and no second factor is active.
Login(c) ==
  /\ ~account.mfa
  /\ Begins(c, [op |-> "login", by |-> {}])
  /\ UNCHANGED <<account, session, refresh, challenge, opened, ended>>

LoginChallenge(k) ==
  /\ account.mfa /\ challenge[k] = "NONE"
  /\ challenge' = [challenge EXCEPT ![k] = "OPEN"]
  /\ UNCHANGED <<account, session, refresh, caller, opened, ended>>

\* The challenge is found and the proof is right.
MfaRead(c, k) ==
  /\ challenge[k] = "OPEN"
  /\ Begins(c, [op |-> "mfa", challenge |-> k])
  /\ UNCHANGED <<account, session, refresh, challenge, opened, ended>>

\* A faulty variant of ChallengeOpen: it was open when it was read.
ChallengeKnown(k) == challenge[k] # "NONE"

\* What the claim of a challenge looks for.
ChallengeOpen(k) == challenge[k] = "OPEN"

MfaClaim(c) ==
  LET k == caller[c].challenge IN
  /\ caller[c].op = "mfa" /\ ChallengeOpen(k)
  /\ challenge' = [challenge EXCEPT ![k] = "CONSUMED"]
  /\ Goes(c, [op |-> "login", by |-> {k}])
  /\ UNCHANGED <<account, session, refresh, opened, ended>>

\* completeLogin reads the memberships that are active.
LoginRead(c) ==
  /\ caller[c].op = "login"
  /\ Goes(c, [op |-> "open", by |-> caller[c].by, inOrg |-> account.membership = "ACTIVE"])
  /\ UNCHANGED <<account, session, refresh, challenge, opened, ended>>

\* Its transaction inserts the session and its first refresh token.
LoginWrite(c, s, t) ==
  /\ caller[c].op = "open" /\ session[s] = NoSession /\ refresh[t] = NoToken
  /\ session' = [session EXCEPT ![s] = [status |-> "ACTIVE", inOrg |-> caller[c].inOrg]]
  /\ refresh' = [refresh EXCEPT ![t] = Fresh(s)]
  /\ opened' = [k \in Challenges |-> opened[k] \cup (IF k \in caller[c].by THEN {s} ELSE {})]
  /\ Goes(c, Rests)
  /\ UNCHANGED <<account, challenge, ended>>

(***************************************************************************)
(* Refresh.                                                                *)
(***************************************************************************)

\* A consumed token ends its family, which is the tokens of its session here.
RefreshRead(c, t) ==
  LET s == refresh[t].session IN
  /\ refresh[t].exists /\ ~refresh[t].revoked
  /\ \/ /\ refresh[t].consumed
        /\ Begins(c, [op |-> "family", session |-> s])
     \/ /\ ~refresh[t].consumed /\ session[s].status = "ACTIVE"
        /\ Begins(c, [op |-> "context", token |-> t, inOrg |-> session[s].inOrg])
  /\ UNCHANGED <<account, session, refresh, challenge, opened, ended>>

\* A session of a suspended member loses its organization.
RefreshContext(c) ==
  LET t == caller[c].token IN
  /\ caller[c].op = "context"
  /\ session' = IF caller[c].inOrg /\ account.membership = "SUSPENDED"
                THEN [session EXCEPT ![refresh[t].session].inOrg = FALSE] ELSE session
  /\ Goes(c, [op |-> "rotate", token |-> t])
  /\ UNCHANGED <<account, refresh, challenge, opened, ended>>

\* The transaction looks for the consumption again, without a lock.
RotateRead(c) ==
  LET t == caller[c].token IN
  /\ caller[c].op = "rotate" /\ ~refresh[t].consumed
  /\ Goes(c, [op |-> "replace", token |-> t])
  /\ UNCHANGED <<account, session, refresh, challenge, opened, ended>>

\* A token that has been revoked or consumed meanwhile is replaced as well.
RotateWrite(c, n) ==
  LET t == caller[c].token IN
  /\ caller[c].op = "replace" /\ refresh[n] = NoToken
  /\ refresh' = [refresh EXCEPT ![t].consumed = TRUE, ![n] = Fresh(refresh[t].session)]
  /\ Goes(c, Rests)
  /\ UNCHANGED <<account, session, challenge, opened, ended>>

(***************************************************************************)
(* The end of sessions.                                                    *)
(***************************************************************************)

\* A faulty variant of Listed: only sessions with an organization are found.
ListedInOrg(kept) == {s \in ActiveSessions \ kept : session[s].inOrg}

\* The sessions that logoutAll and resetPassword find.
ListedSessions(kept) == ActiveSessions \ kept

\* The steps of a call that revokes the sessions in `list` one by one; it has
\* promised to end those in `promised`.
Revoking(list, promised) ==
  IF list = {} THEN {[op |-> "told", promised |-> promised]}
  ELSE {[op |-> "revoke", session |-> s, rest |-> list \ {s}, promised |-> promised] : s \in list}

Logout(c, s) ==
  /\ session[s].status = "ACTIVE"
  /\ \E step \in Revoking({s}, {s}) : Begins(c, step)
  /\ UNCHANGED <<account, session, refresh, challenge, opened, ended>>

\* logoutAll and resetPassword first raise the token version, which access
\* tokens carry; logoutAll may except the current session.
SignOut(c, kept) ==
  /\ account.version < MaxTokenVersion
  /\ Cardinality(kept) <= 1 /\ \A s \in kept : session[s].status = "ACTIVE"
  /\ account' = [account EXCEPT !.version = @ + 1]
  /\ Begins(c, [op |-> "list", kept |-> kept, promised |-> ActiveSessions \ kept])
  /\ UNCHANGED <<session, refresh, challenge, opened, ended>>

SignOutList(c) ==
  /\ caller[c].op = "list"
  /\ \E step \in Revoking(ListedSessions(caller[c].kept), caller[c].promised) : Goes(c, step)
  /\ UNCHANGED <<account, session, refresh, challenge, opened, ended>>

\* The two statements of revokeSession; revokeFamily has them the other way round.
RevokeSession(c) ==
  /\ caller[c].op = "revoke"
  /\ session' = [session EXCEPT ![caller[c].session].status = "REVOKED"]
  /\ Goes(c, [caller[c] EXCEPT !.op = "tokens"])
  /\ UNCHANGED <<account, refresh, challenge, opened, ended>>

TokensRevoked(s) ==
  [t \in RefreshTokens |-> IF refresh[t].session = s
                           THEN [refresh[t] EXCEPT !.revoked = TRUE] ELSE refresh[t]]

RevokeTokens(c) ==
  /\ caller[c].op = "tokens"
  /\ refresh' = TokensRevoked(caller[c].session)
  /\ \E step \in Revoking(caller[c].rest, caller[c].promised) : Goes(c, step)
  /\ UNCHANGED <<account, session, challenge, opened, ended>>

\* The caller is told that it is signed out.
Tell(c) ==
  /\ caller[c].op = "told"
  /\ ended' = ended \cup caller[c].promised
  /\ Goes(c, Rests)
  /\ UNCHANGED <<account, session, refresh, challenge, opened>>

FamilyTokens(c) ==
  /\ caller[c].op = "family"
  /\ refresh' = TokensRevoked(caller[c].session)
  /\ Goes(c, [caller[c] EXCEPT !.op = "familySession"])
  /\ UNCHANGED <<account, session, challenge, opened, ended>>

FamilySession(c) ==
  /\ caller[c].op = "familySession"
  /\ session' = [session EXCEPT ![caller[c].session].status = "REVOKED"]
  /\ Goes(c, Rests)
  /\ UNCHANGED <<account, refresh, challenge, opened, ended>>

(***************************************************************************)
(* The organization of a session.                                          *)
(***************************************************************************)

\* switchOrganization, also after an invitation has been accepted.
SwitchRead(c, s) ==
  /\ account.membership = "ACTIVE" /\ session[s].status = "ACTIVE"
  /\ Begins(c, [op |-> "switch", session |-> s])
  /\ UNCHANGED <<account, session, refresh, challenge, opened, ended>>

SwitchWrite(c) ==
  /\ caller[c].op = "switch"
  /\ session' = [session EXCEPT ![caller[c].session].inOrg = TRUE]
  /\ Goes(c, Rests)
  /\ UNCHANGED <<account, refresh, challenge, opened, ended>>

\* patchMember, whose transaction also takes the organization from the sessions.
Suspend ==
  /\ account.membership = "ACTIVE"
  /\ account' = [account EXCEPT !.membership = "SUSPENDED"]
  /\ session' = [s \in SessionIds |-> IF session[s].status = "ACTIVE"
                                      THEN [session[s] EXCEPT !.inOrg = FALSE] ELSE session[s]]
  /\ UNCHANGED <<refresh, challenge, caller, opened, ended>>

Reinstate ==
  /\ account.membership = "SUSPENDED"
  /\ account' = [account EXCEPT !.membership = "ACTIVE"]
  /\ UNCHANGED <<session, refresh, challenge, caller, opened, ended>>

SessionNext ==
  \/ Suspend \/ Reinstate
  \/ \E k \in Challenges : LoginChallenge(k) \/ \E c \in Callers : MfaRead(c, k)
  \/ \E c \in Callers :
       \/ Login(c) \/ MfaClaim(c) \/ LoginRead(c) \/ RefreshContext(c) \/ RotateRead(c)
       \/ SignOutList(c) \/ RevokeSession(c) \/ RevokeTokens(c) \/ Tell(c)
       \/ FamilyTokens(c) \/ FamilySession(c) \/ SwitchWrite(c) \/ Breaks(c)
       \/ \E t \in RefreshTokens : RefreshRead(c, t) \/ RotateWrite(c, t)
       \/ \E s \in SessionIds : Logout(c, s) \/ SwitchRead(c, s) \/ \E t \in RefreshTokens : LoginWrite(c, s, t)
       \/ \E kept \in SUBSET SessionIds : SignOut(c, kept)

SessionSpec == SessionInit /\ [][SessionNext]_sessionVars

(***************************************************************************)
(* Properties.                                                             *)
(***************************************************************************)

\* Rows fit their tables.
SessionTypeOK ==
  /\ account \in [version : 1..MaxTokenVersion, mfa : BOOLEAN, membership : {"ACTIVE", "SUSPENDED"}]
  /\ session \in [SessionIds -> [status : {"NONE", "ACTIVE", "REVOKED"}, inOrg : BOOLEAN]]
  /\ refresh \in [RefreshTokens ->
       [exists : BOOLEAN, consumed : BOOLEAN, revoked : BOOLEAN, session : SessionIds \cup {"none"}]]
  /\ challenge \in [Challenges -> {"NONE", "OPEN", "CONSUMED"}]
  /\ opened \in [Challenges -> SUBSET SessionIds] /\ ended \subseteq SessionIds

\* A user with a second factor gets one session at most out of each challenge,
\* and none without one, however often and in whatever order it is answered.
ChallengeOnce ==
  /\ \A k \in Challenges : Cardinality(opened[k]) <= 1
  /\ account.mfa => \A s \in SessionIds :
                      session[s] # NoSession => \E k \in Challenges : s \in opened[k]

\* Whoever is told to be signed out is: every session that was active when the
\* call began has ended and stays so, although logins, refreshes, switches and
\* other sign-outs run between the statements of the call.
SignedOutStaysOut == \A s \in ended : session[s].status = "REVOKED"

\* The two ends of a session: it opens once per proof of identity and what was
\* ended stays ended, with every call cut into its statements.
SessionsSafe == ChallengeOnce /\ SignedOutStaysOut

=============================================================================
