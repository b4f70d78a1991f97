------------------------------- MODULE Routes -------------------------------
(***************************************************************************)
(* The route table of the API, read off the decorators and the first       *)
(* statements of every controller handler, and the permission catalog the  *)
(* system roles are seeded from.                                           *)
(*                                                                         *)
(* A route has a scope ("public": @Public; "session": any signed-in user;  *)
(* "organization": behind OrganizationPathGuard and PermissionsGuard), the *)
(* permission keys of @RequirePermissions / @RequireAnyPermissions (no     *)
(* handler asks for more than one of them at once, so the sets are read as *)
(* "any of"), whether the handler calls requireIfMatchVersion and          *)
(* idempotency.parseHeader, and whether the service behind it changes      *)
(* stored records (audit events do not count).                             *)
(***************************************************************************)

Route(n, scope, keys, ifMatch, key, writes) ==
  [name |-> n, scope |-> scope, keys |-> keys, ifMatch |-> ifMatch, key |-> key, writes |-> writes]

PublicRoutes(writes, N) == {Route(n, "public", {}, FALSE, FALSE, writes) : n \in N}
SessionRoutes(writes, N) == {Route(n, "session", {}, FALSE, FALSE, writes) : n \in N}
Reads(keys, N) == {Route(n, "organization", keys, FALSE, FALSE, FALSE) : n \in N}
Writes(keys, N) == {Route(n, "organization", keys, FALSE, FALSE, TRUE) : n \in N}
VersionedWrites(keys, N) == {Route(n, "organization", keys, TRUE, FALSE, TRUE) : n \in N}
KeyedWrites(keys, N) == {Route(n, "organization", keys, FALSE, TRUE, TRUE) : n \in N}
VersionedKeyedWrites(keys, N) == {Route(n, "organization", keys, TRUE, TRUE, TRUE) : n \in N}

-----------------------------------------------------------------------------
\* Billing.
RunRoutes ==
  Reads({"finance.billing_run.preview"}, {"runs.list", "runs.get"})
  \cup Writes({"finance.billing_run.preview"}, {"runs.create"})
  \cup VersionedWrites({"finance.billing_run.preview"}, {"runs.preview"})
  \cup VersionedWrites({"finance.billing_run.commit"}, {"runs.approve"})
  \cup VersionedKeyedWrites({"finance.billing_run.commit"}, {"runs.commit", "runs.retry"})

CreditNoteRoutes ==
  Reads({"finance.credit_notes.create"}, {"creditNotes.list"})
  \cup Writes({"finance.credit_notes.create"}, {"creditNotes.create"})
  \cup VersionedKeyedWrites({"finance.credit_notes.post"}, {"creditNotes.post"})

DepositRoutes ==
  Reads({"finance.deposits.view"}, {"deposits.list", "deposits.get"})

InvoiceRoutes ==
  Reads({"finance.invoices.list"}, {"invoices.list"})
  \cup Reads({"finance.invoices.view"}, {"invoices.get", "deleteLine"})
  \cup VersionedKeyedWrites({"finance.invoices.issue"}, {"invoices.post"})
  \cup VersionedKeyedWrites({"finance.charges.void"}, {"invoices.void"})

LedgerRoutes ==
  Reads({"finance.invoices.view", "finance.reports.view"}, {"ledger.list"})

MeterRoutes ==
  Reads({"meters.list"}, {"listMeters"})
  \cup Writes({"meters.create"}, {"createMeter"})
  \cup Reads({"meters.view"}, {"getMeter"})
  \cup Writes({"meters.readings.bulk"}, {"bulkReadings"})
  \cup Writes({"utilities.allocate"}, {"previewAllocation", "commitAllocation"})
  \cup Reads({"utilities.usage.view"}, {"getAllocation"})

\* Payments, refunds and deposit dispositions.
PaymentRoutes ==
  Reads({"finance.payments.list"}, {"listPayments"})
  \cup Reads({"finance.payments.view"}, {"getPayment"})
  \cup KeyedWrites({"finance.payments.record"}, {"recordPayment", "createIntent"})
  \cup KeyedWrites({"finance.payments.allocate"}, {"payments.allocate"})

RefundRoutes ==
  KeyedWrites({"finance.payments.refund"}, {"createRefund"})
  \cup KeyedWrites({"finance.payments.refund.approve"}, {"approveRefund"})
  \cup KeyedWrites({"finance.payments.refund.execute"}, {"executeRefund"})
  \cup Reads({"finance.payments.view"}, {"getReceipt"})
  \cup Reads({"finance.payments.list"}, {"listArrears", "financeDashboard"})
  \cup KeyedWrites({"finance.deposits.disposition"}, {"createDispositions"})
  \cup KeyedWrites({"finance.deposits.disposition.approve"}, {"approveDisposition"})
  \cup KeyedWrites({"finance.deposits.disposition.execute"}, {"executeDisposition"})

WebhookRoutes ==
  PublicRoutes(TRUE, {"handle"})

\* Reconciliation, periods, exports and reversal.
ReconciliationRoutes ==
  KeyedWrites({"finance.reconciliation.perform"}, {"reconciliation.createRun",
      "reconciliation.ingest", "reconciliation.complete", "resolveItem"})
  \cup Reads({"finance.reconciliation.view"}, {"reconciliation.listRuns", "reconciliation.getRun",
      "reconciliation.listItems"})

PeriodRoutes ==
  Reads({"finance.invoices.list", "finance.payments.list", "finance.reports.view"}, {"invoiceAging",
      "agingAlias"})
  \cup Reads({"finance.reconciliation.view"}, {"listPeriods"})
  \cup Writes({"finance.period.close"}, {"ensurePeriod", "closePeriod", "reopenPeriod"})
  \cup Reads({"finance.reconciliation.perform"}, {"parallelCompare"})
  \cup Reads({"finance.exports.create"}, {"financeExport"})
  \cup KeyedWrites({"finance.payments.refund.execute"}, {"reversePayment"})

\* Inventory.
PropertyRoutes ==
  Reads({"properties.list"}, {"listProperties"})
  \cup Writes({"properties.create"}, {"createProperty"})
  \cup Reads({"properties.view"}, {"getProperty", "listBuildings", "getBuilding"})
  \cup VersionedWrites({"properties.update"}, {"patchProperty", "patchBuilding"})
  \cup Writes({"properties.archive"}, {"archiveProperty", "archiveBuilding"})
  \cup Writes({"properties.update"}, {"restoreProperty", "createBuilding"})

UnitRoutes ==
  Reads({"units.list"}, {"listUnitsOrgWide", "listUnits"})
  \cup Writes({"units.create"}, {"createUnit"})
  \cup Reads({"units.view"}, {"getUnit"})
  \cup VersionedWrites({"units.update"}, {"patchUnit", "updateUnitStatus"})
  \cup Writes({"units.archive"}, {"archiveUnit"})
  \cup Writes({"units.update"}, {"restoreUnit"})

BedRoutes ==
  Reads({"beds.list"}, {"listBeds"})
  \cup Writes({"beds.create"}, {"createBed"})
  \cup Reads({"beds.view"}, {"getBed"})
  \cup VersionedWrites({"beds.update"}, {"patchBed"})
  \cup Writes({"beds.archive"}, {"archiveBed"})
  \cup Reads({"properties.view"}, {"listAmenities"})
  \cup Writes({"properties.update"}, {"createAmenity"})
  \cup VersionedWrites({"properties.update"}, {"replacePropertyAmenities"})
  \cup VersionedWrites({"units.update"}, {"replaceUnitAmenities"})
  \cup Reads({"occupancy.view"}, {"listAvailability"})

\* Leases and their lifecycle.
LeaseRoutes ==
  Reads({"leases.list"}, {"homeDashboard", "pendingActions", "listLeases"})
  \cup Writes({"leases.create"}, {"createLease"})
  \cup Reads({"leases.view"}, {"getLease", "reviewLease"})
  \cup VersionedWrites({"leases.update"}, {"patchLease"})
  \cup VersionedKeyedWrites({"leases.update"}, {"setAllocation"})
  \cup VersionedKeyedWrites({"leases.activate"}, {"activateLease"})

MoveRoutes ==
  VersionedKeyedWrites({"leases.move_in"}, {"moveIn"})
  \cup VersionedWrites({"leases.renew"}, {"renew"})
  \cup VersionedWrites({"leases.transfer"}, {"transfer"})
  \cup VersionedWrites({"leases.update"}, {"notice"})
  \cup VersionedWrites({"leases.move_out"}, {"startMoveOut", "patchMoveOut"})

EndRoutes ==
  VersionedKeyedWrites({"leases.move_out"}, {"completeMoveOut"})
  \cup VersionedKeyedWrites({"leases.terminate"}, {"terminate"})
  \cup Reads({"leases.view"}, {"occupancyEvents", "getHistory"})

\* Owners, ownerships and management agreements.
OwnerRoutes ==
  Reads({"property_owners.list"}, {"listOwners"})
  \cup Writes({"property_owners.create"}, {"createOwner"})
  \cup Reads({"property_owners.view"}, {"getOwner"})
  \cup VersionedWrites({"property_owners.update"}, {"patchOwner"})
  \cup Writes({"property_owners.update"}, {"archiveOwner"})
  \cup Reads({"property_ownerships.view"}, {"listOwnerships"})
  \cup Writes({"property_ownerships.create"}, {"createOwnership"})
  \cup Writes({"property_ownerships.end"}, {"endOwnership"})

AgreementRoutes ==
  Reads({"management_agreements.list"}, {"listAgreements"})
  \cup Writes({"management_agreements.create"}, {"createAgreement"})
  \cup Reads({"management_agreements.view"}, {"getAgreement"})
  \cup VersionedWrites({"management_agreements.update"}, {"patchAgreement"})
  \cup VersionedWrites({"management_agreements.activate"}, {"activateAgreement"})
  \cup VersionedWrites({"management_agreements.terminate"}, {"terminateAgreement"})

\* Residents and the waiting list.
ResidentRoutes ==
  Reads({"residents.list"}, {"listResidents"})
  \cup Reads({"residents.create"}, {"duplicateCheck"})
  \cup Writes({"residents.create"}, {"createResident"})
  \cup Reads({"residents.view"}, {"getResident"})
  \cup VersionedWrites({"residents.update"}, {"patchResident"})
  \cup Writes({"residents.archive"}, {"archiveResident"})
  \cup Writes({"residents.do_not_rent.manage"}, {"setDoNotRent", "clearDoNotRent"})

WaitlistRoutes ==
  Reads({"waitlist.list"}, {"listWaitlist"})
  \cup Writes({"waitlist.create"}, {"createWaitlist"})
  \cup Reads({"waitlist.view"}, {"getWaitlist"})
  \cup VersionedWrites({"waitlist.update"}, {"patchWaitlist"})
  \cup Writes({"waitlist.remove"}, {"removeWaitlist"})

\* Documents and imports.
\* A faulty variant of DocumentRoutes: the upload asks for the key of a reader.
DocumentRoutesForReaders ==
  Reads({"documents.list"}, {"listDocuments"})
  \cup Writes({"documents.view"}, {"createUploadIntent", "completeUpload", "createLink"})
  \cup Reads({"documents.view"}, {"getDocument", "createDownloadUrl", "getDocumentContent"})
  \cup Writes({"documents.delete"}, {"deleteDocument"})

DocumentRoutes ==
  Reads({"documents.list"}, {"listDocuments"})
  \cup Writes({"documents.upload"}, {"createUploadIntent", "completeUpload", "createLink"})
  \cup Reads({"documents.view"}, {"getDocument", "createDownloadUrl", "getDocumentContent"})
  \cup Writes({"documents.delete"}, {"deleteDocument"})

ImportRoutes ==
  Reads({"imports.inventory"}, {"getInventoryTemplate", "getImport", "getErrors"})
  \cup Writes({"imports.inventory"}, {"createImport", "imports.dryRun"})
  \cup KeyedWrites({"imports.inventory"}, {"imports.commit"})
  \cup Writes({"units.update"}, {"bulkUnitStatus"})
  \cup Reads({"operations.read"}, {"listOperations"})
  \cup Writes({"exports.inventory"}, {"createExport"})

\* Organization administration.
MemberRoutes ==
  SessionRoutes(TRUE, {"createOrganization"})
  \cup Reads({"organization.profile.view"}, {"getOrganization"})
  \cup Reads({"members.list"}, {"listMembers"})
  \cup Reads({"members.view"}, {"getMember"})
  \cup VersionedWrites({"members.update"}, {"patchMember"})
  \cup Reads({"members.roles.assign", "properties.assign_staff"}, {"listPropertyAccessGrants"})
  \cup Writes({"members.roles.assign", "properties.assign_staff"}, {"createPropertyAccessGrant",
      "endPropertyAccessGrant"})

RoleRoutes ==
  Reads({"roles.list"}, {"listRoles", "listPermissions"})
  \cup Writes({"roles.create"}, {"createRole"})
  \cup VersionedWrites({"roles.update"}, {"patchRole"})
  \cup Reads({"organization.profile.view"}, {"getSettings"})
  \cup VersionedWrites({"organization.profile.update"}, {"patchSettings"})
  \cup Writes({"members.invite"}, {"createInvitation", "revokeInvitation", "resendInvitation"})
  \cup Reads({"members.invite"}, {"listInvitations"})

\* Sign-in, invitations and the platform itself.
AuthRoutes ==
  PublicRoutes(TRUE, {"login", "mfaChallenge", "refresh", "forgotPassword", "resetPassword",
      "verifyEmail", "resendVerification"})
  \cup SessionRoutes(FALSE, {"switchOrganization", "getMe"})
  \cup SessionRoutes(TRUE, {"logout", "logoutAll"})

InvitationRoutes ==
  SessionRoutes(TRUE, {"acceptInvitation"})

MetaRoutes ==
  PublicRoutes(FALSE, {"version", "ping", "paginationExample", "operations"})
  \cup PublicRoutes(TRUE, {"idempotentEcho"})

HealthRoutes ==
  PublicRoutes(FALSE, {"health"})

ReadinessRoutes ==
  PublicRoutes(FALSE, {"ready"})

Routes ==
  UNION {RunRoutes, CreditNoteRoutes, DepositRoutes, InvoiceRoutes, LedgerRoutes, MeterRoutes,
         PaymentRoutes, RefundRoutes, WebhookRoutes, ReconciliationRoutes, PeriodRoutes,
         PropertyRoutes, UnitRoutes, BedRoutes, LeaseRoutes, MoveRoutes, EndRoutes, OwnerRoutes,
         AgreementRoutes, ResidentRoutes, WaitlistRoutes, DocumentRoutes, ImportRoutes,
         MemberRoutes, RoleRoutes, AuthRoutes, InvitationRoutes, MetaRoutes, HealthRoutes,
         ReadinessRoutes}

-----------------------------------------------------------------------------
\* The permission catalog, by domain.
ORGANIZATION_KEYS ==
  {"organization.profile.view", "organization.profile.update", "organization.security.view",
   "organization.security.update", "organization.ownership.transfer", "organization.delete",
   "members.list", "members.view", "members.invite", "members.update", "members.suspend",
   "members.remove", "members.roles.assign", "roles.list", "roles.view", "roles.create",
   "roles.update", "roles.delete", "audit.events.view"}

\* Properties, units, beds, owners, agreements, imports and operations.
PORTFOLIO_KEYS ==
  {"properties.list", "properties.view", "properties.create", "properties.update",
   "properties.archive", "properties.assign_staff", "units.list", "units.view", "units.create",
   "units.update", "units.archive", "beds.list", "beds.view", "beds.create", "beds.update",
   "beds.archive", "property_owners.list", "property_owners.view", "property_owners.create",
   "property_owners.update", "property_ownerships.view", "property_ownerships.create",
   "property_ownerships.end", "management_agreements.list", "management_agreements.view",
   "management_agreements.create", "management_agreements.update", "management_agreements.activate",
   "management_agreements.terminate", "occupancy.view", "imports.inventory", "exports.inventory",
   "operations.read"}

\* Residents, waiting list, documents, leases and keys.
LEASING_KEYS ==
  {"residents.list", "residents.view", "residents.create", "residents.update", "residents.archive",
   "residents.sensitive_data.view", "residents.do_not_rent.manage", "waitlist.list",
   "waitlist.view", "waitlist.create", "waitlist.update", "waitlist.remove", "documents.list",
   "documents.view", "documents.upload", "documents.delete", "leases.list", "leases.view",
   "leases.create", "leases.update", "leases.activate", "leases.override_do_not_rent",
   "leases.move_in", "leases.renew", "leases.transfer", "leases.move_out", "leases.terminate",
   "assets.keys.manage"}

\* Invoices, payments, reconciliation, meters and utilities.
FINANCE_KEYS ==
  {"finance.charges.create", "finance.charges.update", "finance.charges.void",
   "finance.invoices.list", "finance.invoices.view", "finance.invoices.issue",
   "finance.billing_run.preview", "finance.billing_run.commit", "finance.deposits.view",
   "finance.deposits.record", "finance.credit_notes.create", "finance.credit_notes.post",
   "finance.reports.view", "finance.payments.list", "finance.payments.view",
   "finance.payments.record", "finance.payments.allocate", "finance.payments.refund",
   "finance.payments.refund.approve", "finance.payments.refund.execute",
   "finance.deposits.disposition", "finance.deposits.disposition.approve",
   "finance.deposits.disposition.execute", "finance.reconciliation.view",
   "finance.reconciliation.perform", "finance.reconciliation.approve", "finance.period.close",
   "finance.exports.create", "meters.list", "meters.view", "meters.create", "meters.update",
   "meters.readings.record", "meters.readings.bulk", "utilities.allocate", "utilities.usage.view",
   "utilities.tariffs.view", "utilities.tariffs.manage"}

\* Keys no organization role may hold.
PLATFORM_PERMISSION_KEYS ==
  {"platform.organizations.list", "platform.support_access.use", "support.elevate"}

OWNER_ONLY_PERMISSION_KEYS == {"organization.ownership.transfer", "organization.delete"}

OWNER_KEYS == ORGANIZATION_KEYS \cup PORTFOLIO_KEYS \cup LEASING_KEYS \cup FINANCE_KEYS
ADMIN_KEYS == OWNER_KEYS \ (OWNER_ONLY_PERMISSION_KEYS \cup PLATFORM_PERMISSION_KEYS)

AUDITOR_KEYS ==
  {"organization.profile.view", "organization.security.view", "members.list", "members.view",
   "roles.list", "roles.view", "audit.events.view", "properties.list", "properties.view",
   "units.list", "units.view", "beds.list", "beds.view", "property_owners.list",
   "property_owners.view", "property_ownerships.view", "management_agreements.list",
   "management_agreements.view", "occupancy.view", "operations.read", "residents.list",
   "residents.view", "waitlist.list", "waitlist.view", "documents.list", "documents.view",
   "leases.list", "leases.view", "finance.invoices.list", "finance.invoices.view",
   "finance.payments.list", "finance.payments.view", "finance.reports.view",
   "finance.reconciliation.view"}

PROPERTY_MANAGER_KEYS ==
  {"properties.list", "properties.view", "properties.create", "properties.update",
   "properties.archive", "units.list", "units.view", "units.create", "units.update",
   "units.archive", "beds.list", "beds.view", "beds.create", "beds.update", "beds.archive",
   "occupancy.view", "property_owners.list", "property_owners.view", "property_ownerships.view",
   "management_agreements.list", "management_agreements.view", "operations.read",
   "exports.inventory", "residents.list", "residents.view", "residents.create", "residents.update",
   "residents.archive", "waitlist.list", "waitlist.view", "waitlist.create", "waitlist.update",
   "waitlist.remove", "documents.list", "documents.view", "documents.upload", "documents.delete",
   "leases.list", "leases.view", "leases.create", "leases.update", "leases.activate",
   "leases.move_in", "leases.renew", "leases.transfer", "leases.move_out", "leases.terminate",
   "assets.keys.manage", "finance.invoices.list", "finance.invoices.view", "finance.payments.list",
   "finance.payments.view", "finance.payments.record", "finance.reports.view"}

ACCOUNTANT_KEYS ==
  {"organization.profile.view", "audit.events.view", "leases.list", "leases.view",
   "finance.charges.create", "finance.charges.update", "finance.charges.void",
   "finance.invoices.list", "finance.invoices.view", "finance.invoices.issue",
   "finance.billing_run.preview", "finance.billing_run.commit", "finance.deposits.view",
   "finance.deposits.record", "finance.credit_notes.create", "finance.credit_notes.post",
   "finance.reports.view", "finance.payments.list", "finance.payments.view",
   "finance.payments.record", "finance.payments.allocate", "finance.payments.refund",
   "finance.deposits.disposition", "finance.deposits.disposition.execute",
   "finance.reconciliation.view", "finance.reconciliation.perform", "finance.exports.create",
   "meters.list", "meters.view", "utilities.usage.view"}

MUTATION_PERMISSION_PREFIXES ==
  {"members.invite", "members.update", "members.suspend", "members.remove", "members.roles.assign",
   "roles.create", "roles.update", "roles.delete", "organization.profile.update",
   "organization.security.update", "organization.ownership.transfer", "organization.delete",
   "properties.create", "properties.update", "properties.archive", "properties.assign_staff",
   "units.create", "units.update", "units.archive", "beds.create", "beds.update", "beds.archive",
   "property_owners.create", "property_owners.update", "property_ownerships.create",
   "property_ownerships.end", "management_agreements.create", "management_agreements.update",
   "management_agreements.activate", "management_agreements.terminate", "imports.inventory",
   "exports.inventory", "residents.create", "residents.update", "residents.archive",
   "residents.do_not_rent.manage", "waitlist.create", "waitlist.update", "waitlist.remove",
   "documents.upload", "documents.delete", "leases.create", "leases.update", "leases.activate",
   "leases.override_do_not_rent", "leases.move_in", "leases.renew", "leases.transfer",
   "leases.move_out", "leases.terminate", "assets.keys.manage", "finance.charges.create",
   "finance.charges.update", "finance.charges.void", "finance.invoices.issue",
   "finance.billing_run.commit", "finance.deposits.record", "finance.credit_notes.create",
   "finance.credit_notes.post", "finance.payments.record", "finance.payments.allocate",
   "finance.payments.refund", "finance.payments.refund.approve", "finance.payments.refund.execute",
   "finance.deposits.disposition", "finance.deposits.disposition.approve",
   "finance.deposits.disposition.execute", "finance.reconciliation.perform",
   "finance.reconciliation.approve", "finance.period.close", "finance.exports.create",
   "meters.create", "meters.update", "meters.readings.record", "meters.readings.bulk",
   "utilities.allocate", "utilities.tariffs.manage"}

\* What me.isReadOnly says of a set of keys: the web application then hides every control.
isReadOnlyPermissionSet(keys) == keys \cap MUTATION_PERMISSION_PREFIXES = {}
=============================================================================
