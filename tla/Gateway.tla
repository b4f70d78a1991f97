------------------------------- MODULE Gateway -------------------------------
(***************************************************************************)
(* A request on its way to a handler: JwtAuthGuard, OrganizationPathGuard, *)
(* PermissionsGuard and the header checks of the controller, in the order  *)
(* Nest runs them, while administrators change the caller's membership and *)
(* the caller switches organization or signs out in another tab.           *)
(*                                                                         *)
(* Every guard reads the database for itself: the session and the          *)
(* membership in JwtAuthGuard, the membership and then the role keys in    *)
(* PermissionsGuard, so the four reads are four steps.  What the handler   *)
(* does is the other modules' business; here a request ends "handled" or   *)
(* refused with the answer's code.                                         *)
(*                                                                         *)
(* Bounds: one request in a behaviour, as requests only read the rights;   *)
(* MaxRightsChanges administrative or session changes, before the request  *)
(* arrives or between its guards.                                          *)
(***************************************************************************)
EXTENDS Naturals, FiniteSets, Routes, Calls

CONSTANTS
  Users,            \* the callers
  Orgs,             \* the organizations of their memberships
  Home,             \* the one they sign in to
  NoOrg,            \* no organization (a session or a token without one)
  CustomKeys,       \* the permission keys of a custom role
  RoleSets,         \* the sets of role keys a membership may be given
  MaxRightsChanges

ASSUME GateAssumption ==
  Home \in Orgs /\ NoOrg \notin Orgs /\ "ended" \notin Orgs /\ MaxRightsChanges \in Nat

VARIABLES
  rights,           \* per user and organization: is the membership ACTIVE, and its roles
  live,             \* per user: the session's current organization, or "ended"
  claims,           \* per user: the organizations its unexpired access tokens claim
  req,              \* the request in flight
  rightsChanges

gateVars == <<rights, live, claims, req, rightsChanges>>

-----------------------------------------------------------------------------
(* What a role is worth.  MAINTENANCE is seeded INACTIVE and grants nothing. *)

RoleKeys(role) ==
  CASE role = "OWNER" -> OWNER_KEYS
    [] role = "ADMIN" -> ADMIN_KEYS
    [] role = "PROPERTY_MANAGER" -> PROPERTY_MANAGER_KEYS
    [] role = "ACCOUNTANT" -> ACCOUNTANT_KEYS
    [] role = "AUDITOR" -> AUDITOR_KEYS
    [] role = "CUSTOM" -> CustomKeys
    [] OTHER -> {}

getEffectivePermissionKeys(u, o, R) == UNION {RoleKeys(k) : k \in R[u][o].roles}

\* The row of the route table a call reaches; a path no controller serves has none.
NoRoute == Route("none", "none", {}, FALSE, FALSE, FALSE)
RouteNames == {r.name : r \in Routes}
RouteOf == [n \in RouteNames |-> CHOOSE r \in Routes : r.name = n]
RowOf(name) == IF name \in RouteNames THEN RouteOf[name] ELSE NoRoute

NoRequest == [stage |-> "none"]
Row == RowOf(req.route)

\* What the caller has been since the request arrived: in the organization of the path (a live
\* session there and an active membership), a holder of one of the route's keys, a holder of a key
\* that makes a member more than a reader.
Seen(q, R, S) ==
  IF q.stage \in {"none", "handled", "refused"} THEN q
  ELSE LET keys == getEffectivePermissionKeys(q.user, q.org, R)
       IN  [q EXCEPT !.wasIn = @ \/ (S[q.user] = q.org /\ R[q.user][q.org].active),
                     !.held = @ \/ RowOf(q.route).keys \cap keys # {},
                     !.wrote = @ \/ ~isReadOnlyPermissionSet(keys)]

GateInit ==
  /\ \E roles \in RoleSets :
       rights = [u \in Users |-> [o \in Orgs |-> [active |-> TRUE, roles |-> roles]]]
  /\ live = [u \in Users |-> Home]
  /\ claims = [u \in Users |-> {Home}]
  /\ req = NoRequest
  /\ rightsChanges = 0

-----------------------------------------------------------------------------
\* A request arrives: a call of the web application with the headers its client sends, or one of
\* another client, which is taken to send both.
OtherCalls == {Call(r.name, TRUE, TRUE) : r \in Routes}

Arrive(u, c, o, claim) ==
  /\ claim \in claims[u]
  /\ req' = Seen([stage |-> "arrived", user |-> u, route |-> c.route, org |-> o,
                  claim |-> claim, web |-> c \in Calls, ifMatch |-> c.ifMatch, key |-> c.key,
                  actor |-> NoOrg, wasIn |-> FALSE, held |-> FALSE, wrote |-> FALSE,
                  answer |-> "none"], rights, live)
  /\ UNCHANGED <<rights, live, claims, rightsChanges>>

Refuse(code) == req' = [req EXCEPT !.stage = "refused", !.answer = code]
Advance(stage) == req' = [req EXCEPT !.stage = stage]

\* The router finds the handler; @Public handlers pass every guard.
MatchRoute ==
  /\ req.stage = "arrived"
  /\ IF Row = NoRoute THEN Refuse("404 no route")
     ELSE IF Row.scope = "public" THEN Advance("admitted") ELSE Advance("routed")
  /\ UNCHANGED <<rights, live, claims, rightsChanges>>

\* The live session's organization, unless the token claims another one.
ActorByToken == IF req.claim # NoOrg THEN req.claim ELSE live[req.user]
Actor ==
  IF req.claim # NoOrg /\ live[req.user] # req.claim THEN NoOrg ELSE live[req.user]

\* JwtAuthGuard: the user and the session.
ReadSession ==
  /\ req.stage = "routed"
  /\ IF live[req.user] = "ended" THEN Refuse("401 AUTH_REQUIRED")
     ELSE req' = [req EXCEPT !.stage = "known", !.actor = Actor]
  /\ UNCHANGED <<rights, live, claims, rightsChanges>>

\* JwtAuthGuard: the membership of the session; then OrganizationPathGuard.
ReadMembership ==
  /\ req.stage = "known"
  /\ LET actor == IF req.actor # NoOrg /\ ~rights[req.user][req.actor].active
                  THEN NoOrg ELSE req.actor
     IN  CASE Row.scope = "session" -> req' = [req EXCEPT !.stage = "admitted", !.actor = actor]
           [] actor # req.org -> Refuse("404 RESOURCE_NOT_FOUND")
           [] OTHER -> req' = [req EXCEPT !.stage = "placed", !.actor = actor]
  /\ UNCHANGED <<rights, live, claims, rightsChanges>>

\* PermissionsGuard: the membership must be ACTIVE in the actor's organization.
AssertMembership ==
  /\ req.stage = "placed"
  /\ IF rights[req.user][req.actor].active THEN Advance("member") ELSE Refuse("403 FORBIDDEN")
  /\ UNCHANGED <<rights, live, claims, rightsChanges>>

\* PermissionsGuard: one of the handler's keys is among the membership's keys.
AssertPermission ==
  /\ req.stage = "member"
  /\ IF Row.keys \cap getEffectivePermissionKeys(req.user, req.actor, rights) # {}
     THEN Advance("admitted") ELSE Refuse("403 FORBIDDEN")
  /\ UNCHANGED <<rights, live, claims, rightsChanges>>

\* The handler's own header checks, then the service call.
Handle ==
  /\ req.stage = "admitted"
  /\ CASE Row.ifMatch /\ ~req.ifMatch -> Refuse("428 PRECONDITION_REQUIRED")
       [] Row.key /\ ~req.key -> Refuse("400 IDEMPOTENCY_KEY_REQUIRED")
       [] OTHER -> req' = [req EXCEPT !.stage = "handled"]
  /\ UNCHANGED <<rights, live, claims, rightsChanges>>

-----------------------------------------------------------------------------
(* What happens meanwhile. *)

Change(R, S, C) ==
  /\ rightsChanges < MaxRightsChanges
  /\ rightsChanges' = rightsChanges + 1
  /\ rights' = R /\ live' = S /\ claims' = C
  /\ req' = Seen(req, R, S)

\* members.patchMember with roleKeys.
ReplaceRoles(u, o, roles) ==
  /\ roles # rights[u][o].roles
  /\ Change([rights EXCEPT ![u][o].roles = roles], live, claims)

\* members.patchMember to SUSPENDED clears the organization of the member's sessions.
SuspendMember(u, o) ==
  /\ rights[u][o].active
  /\ Change([rights EXCEPT ![u][o].active = FALSE],
            [live EXCEPT ![u] = IF @ = o THEN NoOrg ELSE @], claims)

ReinstateMember(u, o) ==
  /\ ~rights[u][o].active
  /\ Change([rights EXCEPT ![u][o].active = TRUE], live, claims)

\* auth.switchOrganization: the session moves and a token that claims the new one is issued;
\* the tokens issued before stay good until they expire.
SwitchOrganization(u, o) ==
  /\ live[u] \notin {"ended", o}
  /\ rights[u][o].active
  /\ Change(rights, [live EXCEPT ![u] = o], [claims EXCEPT ![u] = @ \cup {o}])

\* auth.logout.
EndSession(u) ==
  /\ live[u] # "ended"
  /\ Change(rights, [live EXCEPT ![u] = "ended"], claims)

GateNext ==
  \/ /\ req = NoRequest
     /\ \E u \in Users, c \in Calls \cup OtherCalls, o \in Orgs, claim \in Orgs :
          Arrive(u, c, o, claim)
  \/ MatchRoute \/ ReadSession \/ ReadMembership \/ AssertMembership \/ AssertPermission \/ Handle
  \/ \E u \in Users, o \in Orgs, roles \in RoleSets : ReplaceRoles(u, o, roles)
  \/ \E u \in Users, o \in Orgs :
       SuspendMember(u, o) \/ ReinstateMember(u, o) \/ SwitchOrganization(u, o)
  \/ \E u \in Users : EndSession(u)

GateSpec == GateInit /\ [][GateNext]_gateVars

-----------------------------------------------------------------------------
GateTypeOK ==
  /\ rights \in [Users -> [Orgs -> [active : BOOLEAN, roles : RoleSets]]]
  /\ live \in [Users -> Orgs \cup {NoOrg, "ended"}]
  /\ claims \in [Users -> SUBSET Orgs]
  /\ req.stage \in {"none", "arrived", "routed", "known", "placed", "member", "admitted",
                    "handled", "refused"}
  /\ rightsChanges \in 0..MaxRightsChanges

\* A handler behind the organization guards runs only for a caller who, at some moment since the
\* request arrived, had a live session in that organization as an active member, and at some
\* moment held one of the handler's permissions: a token issued before a switch, a suspension or
\* a sign-out carries nothing over (auth-user.validator.ts, permissions.guard.ts).
HandledWasAllowed ==
  (req.stage = "handled" /\ Row.scope = "organization") =>
    req.wasIn /\ req.held

\* docs/07-ui-design.md:113: "A visible read-only state for auditors and users lacking mutation
\* permissions."  Whom the application calls read-only (me.isReadOnly, which hides every control)
\* changes no record of the organization by any route.  The code keeps a list of the permissions
\* that change something, which lacks one: see ReadersOnlyPreview.
ReadOnlyChangesNothing ==
  (req.stage = "handled" /\ Row.scope = "organization" /\ ~req.wrote) =>
    ~Row.writes

\* A handler that writes, run for somebody who was a reader at each read of his rights, is one of
\* those that ask for the preview of billing runs, the one writing permission that
\* isReadOnlyPermissionSet does not know: no other route and no mixture of roles, read before and
\* after a change, lets a reader write.
ReadersOnlyPreview ==
  (req.stage = "handled" /\ Row.scope = "organization" /\ ~req.wrote /\ Row.writes) =>
    "finance.billing_run.preview" \in Row.keys

\* A call of the web application is never refused for a header its client does not send.
HeadersFit ==
  req.stage = "refused" /\ req.web =>
    req.answer \notin {"428 PRECONDITION_REQUIRED", "400 IDEMPOTENCY_KEY_REQUIRED"}

\* What the web application may take for granted about the API: that hiding its controls by
\* isReadOnly hides all but the creation and preview of billing runs, and that the headers its
\* clients know of are those the handlers ask for.
ClientsFit == ReadersOnlyPreview /\ HeadersFit

\* Every call of the web application reaches a handler of the API: docs/04-api-specification.md
\* lists the role reads of the admin screens among the routes.
CallsServed == req.stage = "refused" => req.answer # "404 no route"
=============================================================================
