-------------------------------- MODULE Calls --------------------------------
(***************************************************************************)
(* The calls of the web application's API clients (apps/web/src/lib): for  *)
(* every exported function the route its verb and path name, and whether   *)
(* it sends If-Match and Idempotency-Key.  Two functions name a path no    *)
(* controller serves: getRole and listUtilityAllocationRuns.  A client     *)
(* whose version argument is optional is taken to have one, as every       *)
(* screen passes the version of the record it has loaded.                  *)
(***************************************************************************)

Call(r, ifMatch, key) == [route |-> r, ifMatch |-> ifMatch, key |-> key]

BareCalls(N) == {Call(r, FALSE, FALSE) : r \in N}
VersionedCalls(N) == {Call(r, TRUE, FALSE) : r \in N}
KeyedCalls(N) == {Call(r, FALSE, TRUE) : r \in N}
VersionedKeyedCalls(N) == {Call(r, TRUE, TRUE) : r \in N}

-----------------------------------------------------------------------------
AdminCalls ==
  BareCalls({"listMembers", "getMember", "listPropertyAccessGrants", "createPropertyAccessGrant",
      "endPropertyAccessGrant", "listInvitations", "revokeInvitation"})
  \cup VersionedCalls({"patchMember"})

RoleCalls ==
  BareCalls({"listRoles", "getRole", "createRole", "listPermissions", "getSettings"})
  \cup VersionedCalls({"patchRole", "patchSettings"})

AuthCalls ==
  BareCalls({"login", "mfaChallenge", "refresh", "logout", "getMe", "forgotPassword",
      "resetPassword", "verifyEmail", "resendVerification", "createOrganization",
      "acceptInvitation", "switchOrganization"})

InvoiceCalls ==
  BareCalls({"invoices.list", "invoices.get"})
  \cup VersionedKeyedCalls({"invoices.post", "invoices.void"})

RunCalls ==
  BareCalls({"runs.list", "runs.get"})
  \cup KeyedCalls({"runs.create"})
  \cup VersionedCalls({"runs.preview", "runs.approve"})
  \cup VersionedKeyedCalls({"runs.commit", "runs.retry"})

MeterCalls ==
  BareCalls({"deposits.list", "creditNotes.list", "listMeters", "previewAllocation",
      "getAllocation", "listUtilityAllocationRuns"})
  \cup VersionedKeyedCalls({"creditNotes.post"})
  \cup KeyedCalls({"bulkReadings", "commitAllocation"})

DocumentCalls ==
  BareCalls({"listDocuments", "getDocument", "createUploadIntent", "completeUpload",
      "createDownloadUrl", "createLink"})

ImportCalls ==
  BareCalls({"getInventoryTemplate", "createImport", "imports.dryRun", "getImport", "getErrors",
      "bulkUnitStatus", "listOperations", "createExport"})
  \cup KeyedCalls({"imports.commit"})

LeaseCalls ==
  BareCalls({"listLeases", "getLease", "createLease", "reviewLease"})
  \cup VersionedCalls({"patchLease"})
  \cup VersionedKeyedCalls({"setAllocation", "activateLease"})

MoveCalls ==
  BareCalls({"getHistory", "pendingActions", "homeDashboard", "occupancyEvents"})
  \cup VersionedKeyedCalls({"moveIn", "completeMoveOut", "terminate"})
  \cup VersionedCalls({"renew", "startMoveOut", "patchMoveOut"})

PaymentCalls ==
  BareCalls({"listPayments", "getPayment", "getReceipt", "listArrears", "financeDashboard"})
  \cup KeyedCalls({"recordPayment", "payments.allocate"})

RefundCalls ==
  KeyedCalls({"createDispositions", "executeDisposition", "approveDisposition", "createRefund",
      "approveRefund", "executeRefund", "reversePayment"})

PropertyCalls ==
  BareCalls({"listProperties", "getProperty", "createProperty", "archiveProperty", "listBuildings",
      "createBuilding"})
  \cup VersionedCalls({"patchProperty", "patchBuilding"})

UnitCalls ==
  BareCalls({"listUnitsOrgWide", "listUnits", "getUnit", "createUnit", "archiveUnit"})
  \cup VersionedCalls({"patchUnit", "updateUnitStatus"})

BedCalls ==
  BareCalls({"listBeds", "createBed", "listAvailability"})
  \cup VersionedCalls({"patchBed"})

OwnerCalls ==
  BareCalls({"listOwners", "getOwner", "createOwner", "listOwnerships", "createOwnership",
      "endOwnership"})
  \cup VersionedCalls({"patchOwner"})

AgreementCalls ==
  BareCalls({"listAgreements", "getAgreement", "createAgreement"})
  \cup VersionedCalls({"patchAgreement", "activateAgreement", "terminateAgreement"})

ReconciliationCalls ==
  BareCalls({"reconciliation.listRuns", "reconciliation.getRun", "reconciliation.listItems"})
  \cup KeyedCalls({"reconciliation.createRun", "reconciliation.ingest", "resolveItem",
      "reconciliation.complete"})

PeriodCalls ==
  BareCalls({"agingAlias", "listPeriods", "closePeriod", "parallelCompare", "financeExport"})

ResidentCalls ==
  BareCalls({"listResidents", "getResident", "createResident", "duplicateCheck", "setDoNotRent",
      "clearDoNotRent"})
  \cup VersionedCalls({"patchResident"})

WaitlistCalls ==
  BareCalls({"listWaitlist", "createWaitlist", "removeWaitlist"})
  \cup VersionedCalls({"patchWaitlist"})

Calls ==
  UNION {AdminCalls, RoleCalls, AuthCalls, InvoiceCalls, RunCalls, MeterCalls, DocumentCalls,
         ImportCalls, LeaseCalls, MoveCalls, PaymentCalls, RefundCalls, PropertyCalls, UnitCalls,
         BedCalls, OwnerCalls, AgreementCalls, ReconciliationCalls, PeriodCalls, ResidentCalls,
         WaitlistCalls}
=============================================================================
