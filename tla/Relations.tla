------------------------------ MODULE Relations ------------------------------
(***************************************************************************)
(* The relationships between SObjects: the lookups of the standard objects, *)
(* the names they go by in a query, and their use by the engine             *)
(* (standard_objects.go, schema.go, queryWithEnsure of engine.go,           *)
(* buildParentJoins of soql.go).  An object enters the schema, and its      *)
(* table is made, when it is first used.  A standard lookup is written      *)
(* without the "Id" its field ends in; "" is a lookup to no one object.     *)
(***************************************************************************)
EXTENDS Naturals, SequencesExt, FiniteSets

CONSTANTS
  Queried,   \* objects queried
  Projects,  \* sets of the lookups a project's own metadata may give
  MaxQueries \* bound

Blank == ""  \* the empty string, which is no name and names no object

ASSUME RelationAssumption == Blank \notin Queried

VARIABLES
  project,    \* the lookups of the project
  registered, \* the objects of the schema
  path, joins, \* the last query's path of parents, and the joins made of it
  queries     \* how many

relationVars == <<project, registered, path, joins, queries>>

\* A lookup of an object: its field, the suffix of the field's name, the object it refers to
\* and the name the metadata of the project gives it in the other direction.
Lookup(object, field, suffix, ref, child) ==
  [object |-> object, field |-> field, suffix |-> suffix, ref |-> ref, child |-> child]
-----------------------------------------------------------------------------
NoLookups == [f \in {} |-> Blank]

accountSchema == [Parent |-> "Account", MasterRecord |-> "Account",
                  DandbCompany |-> "DandBCompany"]
contactSchema == [Account |-> "Account", ReportsTo |-> "Contact", Individual |-> Blank,
                  MasterRecord |-> "Contact"]
leadSchema == [ConvertedAccount |-> "Account", ConvertedContact |-> "Contact",
               ConvertedOpportunity |-> "Opportunity", Individual |-> Blank,
               MasterRecord |-> "Lead"]
opportunitySchema == [Account |-> "Account", Campaign |-> "Campaign", Contact |-> "Contact",
                      Pricebook2 |-> "Pricebook2"]
opportunityLineItemSchema == [Opportunity |-> "Opportunity",
                              PricebookEntry |-> "PricebookEntry", Product2 |-> "Product2"]
caseSchema == [Contact |-> "Contact", Account |-> "Account", Asset |-> "Asset",
               Parent |-> "Case", MasterRecord |-> "Case"]
taskSchema == [Who |-> Blank, What |-> Blank, Account |-> "Account"]
eventSchema == [Who |-> Blank, What |-> Blank, Account |-> "Account"]
userSchema == [Profile |-> "Profile", UserRole |-> "UserRole", Manager |-> "User"]
profileSchema == [UserLicense |-> Blank]
userRoleSchema == [ParentRole |-> "UserRole"]
campaignSchema == [Parent |-> "Campaign"]
campaignMemberSchema == [Campaign |-> "Campaign", Lead |-> "Lead", Contact |-> "Contact",
                         LeadOrContact |-> Blank, LeadOrContactOwner |-> Blank]
contractSchema == [Account |-> "Account", CompanySigned |-> "User",
                   CustomerSigned |-> "Contact", ActivatedBy |-> "User",
                   Pricebook2 |-> "Pricebook2"]
orderSchema == [Contract |-> "Contract", Account |-> "Account", Pricebook2 |-> "Pricebook2",
                OriginalOrder |-> "Order", CustomerAuthorizedBy |-> "Contact",
                CompanyAuthorizedBy |-> "User", BillToContact |-> "Contact",
                ShipToContact |-> "Contact", ActivatedBy |-> "User"]
orderItemSchema == [Order |-> "Order", PricebookEntry |-> "PricebookEntry",
                    Product2 |-> "Product2", OriginalOrderItem |-> "OrderItem"]
product2Schema == NoLookups
pricebook2Schema == NoLookups
pricebookEntrySchema == [Pricebook2 |-> "Pricebook2", Product2 |-> "Product2"]
assetSchema == [Contact |-> "Contact", Account |-> "Account", Parent |-> "Asset",
                RootAsset |-> "Asset", Product2 |-> "Product2"]
contentDocumentSchema == [LatestPublishedVersion |-> "ContentVersion",
                          ArchivedBy |-> "User"]
contentVersionSchema == [ContentDocument |-> "ContentDocument"]
attachmentSchema == [Parent |-> Blank]
noteSchema == [Parent |-> Blank]
feedItemSchema == [Parent |-> Blank, RelatedRecord |-> Blank, InsertedBy |-> "User"]
emailMessageSchema == [Parent |-> "Case", Activity |-> "Task",
                       ReplyToEmailMessage |-> "EmailMessage", RelatedTo |-> Blank]
organizationSchema == NoLookups
groupSchema == [Related |-> Blank]
solutionSchema == NoLookups
opportunityContactRoleSchema == [Opportunity |-> "Opportunity", Contact |-> "Contact"]
accountContactRelationSchema == [Account |-> "Account", Contact |-> "Contact"]
recordTypeSchema == [BusinessProcess |-> Blank]
objectPermissionsSchema == [Parent |-> Blank]
fieldPermissionsSchema == [Parent |-> Blank]

StandardObjects ==
  [Account |-> accountSchema, Contact |-> contactSchema, Lead |-> leadSchema,
   Opportunity |-> opportunitySchema, OpportunityLineItem |-> opportunityLineItemSchema,
   Case |-> caseSchema, Task |-> taskSchema, Event |-> eventSchema, User |-> userSchema,
   Profile |-> profileSchema, UserRole |-> userRoleSchema, Campaign |-> campaignSchema,
   CampaignMember |-> campaignMemberSchema, Contract |-> contractSchema,
   Order |-> orderSchema, OrderItem |-> orderItemSchema, Product2 |-> product2Schema,
   Pricebook2 |-> pricebook2Schema, PricebookEntry |-> pricebookEntrySchema,
   Asset |-> assetSchema, ContentDocument |-> contentDocumentSchema,
   ContentVersion |-> contentVersionSchema, Attachment |-> attachmentSchema,
   Note |-> noteSchema, FeedItem |-> feedItemSchema, EmailMessage |-> emailMessageSchema,
   Organization |-> organizationSchema, Group |-> groupSchema, Solution |-> solutionSchema,
   OpportunityContactRole |-> opportunityContactRoleSchema,
   AccountContactRelation |-> accountContactRelationSchema, RecordType |-> recordTypeSchema,
   ObjectPermissions |-> objectPermissionsSchema,
   FieldPermissions |-> fieldPermissionsSchema]

\* The lookups among StandardFields, which carry their names.
StandardFields == [CreatedBy |-> "User", LastModifiedBy |-> "User", Owner |-> "User"]

accountChildren == [Parent |-> "ChildAccounts", MasterRecord |-> "MergedAccounts"]
contactChildren == [Account |-> "Contacts", ReportsTo |-> "DirectReports",
                    MasterRecord |-> "MergedContacts"]
leadChildren == [ConvertedAccount |-> "ConvertedLeads",
                 ConvertedContact |-> "ConvertedLeads",
                 ConvertedOpportunity |-> "ConvertedLeads", MasterRecord |-> "MergedLeads"]
opportunityChildren == [Account |-> "Opportunities", Campaign |-> "Opportunities",
                        Contact |-> "Opportunities", Pricebook2 |-> "Opportunities"]
opportunityLineItemChildren == [Opportunity |-> "OpportunityLineItems",
                                PricebookEntry |-> "OpportunityLineItems",
                                Product2 |-> "OpportunityLineItems"]
caseChildren == [Contact |-> "Cases", Account |-> "Cases", Asset |-> "Cases",
                 Parent |-> "ChildCases", MasterRecord |-> "MergedCases"]
taskChildren == [Account |-> "Tasks"]
eventChildren == [Account |-> "Events"]
userChildren == [Profile |-> "Users", UserRole |-> "Users", Manager |-> "DirectReports"]
userRoleChildren == [ParentRole |-> "ChildRoles"]
campaignChildren == [Parent |-> "ChildCampaigns"]
campaignMemberChildren == [Campaign |-> "CampaignMembers", Lead |-> "CampaignMembers",
                           Contact |-> "CampaignMembers"]
contractChildren == [Account |-> "Contracts"]
orderChildren == [Contract |-> "Orders", Account |-> "Orders", Pricebook2 |-> "Orders",
                  OriginalOrder |-> "ChildOrders"]
orderItemChildren == [Order |-> "OrderItems", PricebookEntry |-> "OrderItems",
                      Product2 |-> "OrderItems", OriginalOrderItem |-> "ChildOrderItems"]
pricebookEntryChildren == [Pricebook2 |-> "PricebookEntries",
                           Product2 |-> "PricebookEntries"]
assetChildren == [Contact |-> "Assets", Account |-> "Assets", Parent |-> "ChildAssets",
                  RootAsset |-> "DescendantAssets", Product2 |-> "Assets"]
contentVersionChildren == [ContentDocument |-> "ContentVersions"]
attachmentChildren == [Parent |-> "Attachments"]
noteChildren == [Parent |-> "Notes"]
feedItemChildren == [Parent |-> "Feeds"]
emailMessageChildren == [Parent |-> "EmailMessages", Activity |-> "EmailMessages",
                         ReplyToEmailMessage |-> "Replies"]
opportunityContactRoleChildren == [Opportunity |-> "OpportunityContactRoles",
                                   Contact |-> "OpportunityContactRoles"]
accountContactRelationChildren == [Account |-> "AccountContactRelations",
                                   Contact |-> "AccountContactRelations"]

childRelationshipNames ==
  [Account |-> accountChildren, Contact |-> contactChildren, Lead |-> leadChildren,
   Opportunity |-> opportunityChildren, OpportunityLineItem |-> opportunityLineItemChildren,
   Case |-> caseChildren, Task |-> taskChildren, Event |-> eventChildren,
   User |-> userChildren, UserRole |-> userRoleChildren, Campaign |-> campaignChildren,
   CampaignMember |-> campaignMemberChildren, Contract |-> contractChildren,
   Order |-> orderChildren, OrderItem |-> orderItemChildren,
   PricebookEntry |-> pricebookEntryChildren, Asset |-> assetChildren,
   ContentVersion |-> contentVersionChildren, Attachment |-> attachmentChildren,
   Note |-> noteChildren, FeedItem |-> feedItemChildren,
   EmailMessage |-> emailMessageChildren,
   OpportunityContactRole |-> opportunityContactRoleChildren,
   AccountContactRelation |-> accountContactRelationChildren]

-----------------------------------------------------------------------------
\* The standard lookups of an object: those of every object, and its own over them.
Standard(o) ==
  LET own == IF o \in DOMAIN StandardObjects THEN StandardObjects[o] ELSE NoLookups
  IN [f \in DOMAIN StandardFields \cup DOMAIN own |->
        IF f \in DOMAIN own THEN own[f] ELSE StandardFields[f]]

\* What a project's metadata gives: each field of an object once, as its files do; a standard
\* lookup it describes again refers to what it did, or leaves that out.
ASSUME ProjectsAssumption ==
  \A ls \in Projects :
    /\ \A l, m \in ls :
         l.object = m.object /\ l.field = m.field /\ l.suffix = m.suffix => l = m
    /\ \A l \in ls :
         /\ l = Lookup(l.object, l.field, l.suffix, l.ref, l.child)
         /\ l.object # Blank /\ l.suffix \in {"Id", "__c"}
         /\ l.suffix = "Id" /\ l.field \in DOMAIN Standard(l.object) =>
              l.ref \in {Blank, Standard(l.object)[l.field]}

\* What the schema holds of an object that is registered: GetStandardObject, or buildSObject
\* for one of the project, whose fields come over the standard ones of their names.
Lookups(o) ==
  LET own == {l \in project : l.object = o}
      again == {l.field : l \in {l \in own : l.suffix = "Id"}}
  IN own \cup {Lookup(o, f, "Id", Standard(o)[f], Blank) : f \in DOMAIN Standard(o) \ again}

\* PopulateRelationshipNames, of lookups that refer to an object.  A parent's name is the
\* field's without its suffix, and ends in "__r" if the field is custom.
M_ParentName(l) == [of |-> l.field, custom |-> FALSE]
ParentName(l) == [of |-> l.field, custom |-> l.suffix = "__c"]
ChildName(l) ==
  IF l.child # Blank THEN l.child
  ELSE IF l.suffix = "Id" /\ l.object \in DOMAIN childRelationshipNames
          /\ l.field \in DOMAIN childRelationshipNames[l.object]
       THEN childRelationshipNames[l.object][l.field] ELSE Blank

\* ResolveParentRelationship and ResolveChildRelationship: one of these, the first the map
\* happens to give.
ResolveParent(o, name, among) ==
  {l \in (IF o \in among THEN Lookups(o) ELSE {}) : l.ref # Blank /\ ParentName(l) = name}
ResolveChild(o, name, among) ==
  {l \in UNION {Lookups(c) : c \in among} : l.ref = o /\ name # Blank /\ ChildName(l) = name}
-----------------------------------------------------------------------------
\* queryWithEnsure: the object, then the parents hop by hop as far as they resolve.
M_Hops(o, p, among) ==
  LET hops[k \in 0 .. Len(p)] ==
        IF k = 0 THEN [at |-> o, met |-> among, joins |-> <<>>]
        ELSE LET before == hops[k - 1]
                 found == ResolveParent(before.at, p[k], before.met)
             IN IF before.at = Blank \/ found = {} THEN [before EXCEPT !.at = Blank]
                ELSE LET l == CHOOSE l \in found : TRUE
                     IN [at |-> l.ref, met |-> before.met,
                         joins |-> Append(before.joins, l)]
  IN hops[Len(p)]
Hops(o, p, among) ==
  LET hops[k \in 0 .. Len(p)] ==
        IF k = 0 THEN [at |-> o, met |-> among \cup {o}, joins |-> <<>>]
        ELSE LET before == hops[k - 1]
                 found == ResolveParent(before.at, p[k], before.met)
             IN IF before.at = Blank \/ found = {} THEN [before EXCEPT !.at = Blank]
                ELSE LET l == CHOOSE l \in found : TRUE
                     IN [at |-> l.ref, met |-> before.met \cup {l.ref},
                         joins |-> Append(before.joins, l)]
  IN hops[Len(p)]

RelationInit ==
  /\ project \in Projects
  /\ registered = {l.object : l \in project}
  /\ path = <<>> /\ joins = <<>> /\ queries = 0

\* SELECT with a path of parents and a child subquery.  A path that does not resolve is left
\* out of the SELECT.
QueryRelated(o, p, child) ==
  /\ queries < MaxQueries /\ queries' = queries + 1
  /\ LET walked == Hops(o, p, registered)
         kids == ResolveChild(o, child, walked.met)
     IN /\ registered' = walked.met \cup {l.object : l \in kids}
        /\ joins' = walked.joins
        /\ path' = <<o>> \o p
  /\ UNCHANGED project

\* The paths a query may name: any parent names of its object, and one object on.
Named(o) == {ParentName(l) : l \in Lookups(o)}
Beyond(o, name) == {l.ref : l \in {l \in Lookups(o) : l.ref # Blank /\ ParentName(l) = name}}
Paths(o) ==
  {<<>>} \cup {<<n>> : n \in Named(o)}
  \cup UNION {{<<n, m>> : m \in UNION {Named(x) : x \in Beyond(o, n)}} : n \in Named(o)}
ChildNames == {Blank, "Contacts", "Kids"}

RelationNext ==
  \E o \in Queried : \E p \in Paths(o), child \in ChildNames : QueryRelated(o, p, child)
RelationSpec == RelationInit /\ [][RelationNext]_relationVars
-----------------------------------------------------------------------------
\* The names the project gives are its own responsibility.
GivenByProject(o, name) == \E l \in project : l.ref = o /\ l.child = name

\* A relationship name means one lookup: over the whole table of standard lookups, with those
\* of the project, no name resolves two ways, in either direction, though the search goes
\* through maps in whatever order they are in (schema.go:144-184), unless the project's
\* metadata takes a child name that is taken.
RelationshipsAreUnambiguous ==
  \A o \in registered :
    /\ \A name \in Named(o) : \A l, m \in ResolveParent(o, name, registered) : l = m
    /\ \A name \in {ChildName(l) : l \in UNION {Lookups(c) : c \in registered}} :
         Cardinality(ResolveChild(o, name, registered)) > 1 => GivenByProject(o, name)

\* A path of parents reaches the objects its names lead to, whether or not any of them was in
\* the schema before the query; it is dropped without an error only past a lookup that refers
\* to no object (engine.go:141-160, soql.go:79-132).
PathsReachTheirObjects ==
  path # <<>> =>
    /\ \A k \in DOMAIN joins :
         /\ joins[k].object = (IF k = 1 THEN path[1] ELSE joins[k - 1].ref)
         /\ ParentName(joins[k]) = path[k + 1]
         /\ joins[k].ref \in registered
    /\ Len(joins) < Len(path) - 1 =>
         LET at == IF joins = <<>> THEN path[1] ELSE Last(joins).ref
         IN \E l \in Lookups(at) : ParentName(l) = path[Len(joins) + 2] /\ l.ref = Blank

=============================================================================
