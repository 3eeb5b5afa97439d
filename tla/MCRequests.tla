------------------------------ MODULE MCRequests ------------------------------
(* The components whose requests share nothing with each other, in one run.   *)
(* A behaviour is one of the component named by scenario; the variables of    *)
(* the others stay at their initial values.  Since no action of a component   *)
(* reads or writes a variable of another, the reachable states are those of   *)
(* the components one by one, not of their product.                           *)
EXTENDS Licences, Sessions, Memberships, Documents, Maintenance, Receipts,
        Hierarchy, ReportingLines, Usage, CustomFields, Listing, ImportFiles,
        Registration, TLC

CONSTANTS
  r1, r2,       \* requests
  x1, x2, x3,   \* records
  l1, h1, h2,   \* a licence, holders
  u1, u2,       \* users
  d1,           \* a document
  Scenarios     \* the components to follow

VARIABLE scenario

requestsVars == <<vars, sessionVars, membershipVars, documentVars,
                  maintenanceVars, receiptVars, hierarchyVars, reportingVars,
                  usageVars, fieldVars, listingVars, fileVars,
                  registrationVars, scenario>>

AllScenarios == {"licences", "sessions", "memberships", "documents", "maintenance",
                 "receipts", "units", "lines", "usage", "fields", "listing", "files",
                 "registration"}

ASSUME ScenariosAssumption == Scenarios \subseteq AllScenarios

\* A browser sends a small file that is what it says, or a larger one that is not.
MCFiles == {[size |-> 1, sound |-> TRUE], [size |-> 2, sound |-> FALSE]}

\* A workflow with a workshop that assets enter from stock and leave into stock.
MCEdges == {<<"in_stock", "maintenance">>, <<"maintenance", "in_stock">>}

\* Licences, Sessions and the rest name the same two requests and the same three
\* records, so that one permutation serves whichever component is followed.
Symmetry == Permutations({r1, r2}) \cup Permutations({x1, x2, x3}) \cup Permutations({h1, h2})

\* The file of the behaviours that follow another component.
AnyRow == [kind |-> "row", row |-> [named |-> TRUE, price |-> Unread, bought |-> Unread,
                                    order |-> "DMY"]]

RequestsInit ==
  /\ scenario \in Scenarios
  /\ FilesInit /\ (scenario # "files" => file = AnyRow)
  /\ Init /\ (scenario # "licences" => licence[l1].seats = Unlimited)
  /\ SessionsInit /\ MembershipsInit /\ DocumentsInit /\ MaintenanceInit
  /\ ReceiptsInit /\ HierarchyInit /\ ReportingInit /\ RegistrationInit
  /\ UsageInit /\ (scenario # "usage" => resource = "people")
  /\ FieldsInit /\ (scenario # "fields" => appliesTo = "person" /\ field[1].live = FieldOptions)
  /\ ListingInit /\ (scenario # "listing" => InList = {} /\ reader.limit = 1)

Following(s, others) == scenario = s /\ UNCHANGED <<others, scenario>>

RequestsNext ==
  \/ Following("licences", <<sessionVars, membershipVars, documentVars,
                             maintenanceVars, receiptVars, hierarchyVars,
                             reportingVars, usageVars, fieldVars, listingVars,
                             fileVars, registrationVars>>) /\ Next
  \/ Following("sessions", <<vars, membershipVars, documentVars,
                             maintenanceVars, receiptVars, hierarchyVars,
                             reportingVars, usageVars, fieldVars, listingVars,
                             fileVars, registrationVars>>) /\ SessionsNext
  \/ Following("memberships", <<vars, sessionVars, documentVars,
                                maintenanceVars, receiptVars, hierarchyVars,
                                reportingVars, usageVars, fieldVars,
                                listingVars, fileVars, registrationVars>>)
     /\ MembershipsNext
  \/ Following("documents", <<vars, sessionVars, membershipVars,
                              maintenanceVars, receiptVars, hierarchyVars,
                              reportingVars, usageVars, fieldVars, listingVars,
                              fileVars, registrationVars>>) /\ DocumentsNext
  \/ Following("maintenance", <<vars, sessionVars, membershipVars, documentVars,
                                receiptVars, hierarchyVars, reportingVars,
                                usageVars, fieldVars, listingVars, fileVars,
                                registrationVars>>) /\ MaintenanceNext
  \/ Following("receipts", <<vars, sessionVars, membershipVars, documentVars,
                             maintenanceVars, hierarchyVars, reportingVars,
                             usageVars, fieldVars, listingVars, fileVars,
                             registrationVars>>) /\ ReceiptsNext
  \/ Following("units", <<vars, sessionVars, membershipVars, documentVars,
                          maintenanceVars, receiptVars, reportingVars,
                          usageVars, fieldVars, listingVars, fileVars,
                          registrationVars>>) /\ HierarchyNext
  \/ Following("lines", <<vars, sessionVars, membershipVars, documentVars,
                          maintenanceVars, receiptVars, hierarchyVars,
                          usageVars, fieldVars, listingVars, fileVars,
                          registrationVars>>) /\ ReportingNext
  \/ Following("usage", <<vars, sessionVars, membershipVars, documentVars,
                          maintenanceVars, receiptVars, hierarchyVars,
                          reportingVars, fieldVars, listingVars, fileVars,
                          registrationVars>>) /\ UsageNext
  \/ Following("fields", <<vars, sessionVars, membershipVars, documentVars,
                           maintenanceVars, receiptVars, hierarchyVars,
                           reportingVars, usageVars, listingVars, fileVars,
                           registrationVars>>) /\ FieldsNext
  \/ Following("listing", <<vars, sessionVars, membershipVars, documentVars,
                            maintenanceVars, receiptVars, hierarchyVars,
                            reportingVars, usageVars, fieldVars, fileVars,
                            registrationVars>>) /\ ListingNext
  \/ Following("files", <<vars, sessionVars, membershipVars, documentVars,
                          maintenanceVars, receiptVars, hierarchyVars,
                          reportingVars, usageVars, fieldVars, listingVars,
                          registrationVars>>) /\ FilesNext
  \/ Following("registration", <<vars, sessionVars, membershipVars,
                                 documentVars, maintenanceVars, receiptVars,
                                 hierarchyVars, reportingVars, usageVars,
                                 fieldVars, listingVars, fileVars>>)
     /\ RegistrationNext

RequestsSpec == RequestsInit /\ [][RequestsNext]_requestsVars

\* Every variable of the component that is followed has its type.
RequestsTypeOK ==
  CASE scenario = "licences" -> TypeOK
    [] scenario = "sessions" -> SessionsTypeOK
    [] scenario = "memberships" -> MembershipsTypeOK
    [] scenario = "documents" -> DocumentsTypeOK
    [] scenario = "maintenance" -> MaintenanceTypeOK
    [] scenario = "receipts" -> ReceiptsTypeOK
    [] scenario = "units" -> HierarchyTypeOK
    [] scenario = "lines" -> ReportingTypeOK
    [] scenario = "usage" -> UsageTypeOK
    [] scenario = "fields" -> FieldsTypeOK
    [] scenario = "listing" -> ListingTypeOK
    [] scenario = "files" -> FilesTypeOK
    [] scenario = "registration" -> RegistrationTypeOK

=============================================================================
