--------------------------- MODULE ThingpediaApi ---------------------------
(***************************************************************************)
(* What Thingpedia shows: the queries of src/src/model/device.ts,          *)
(* schema.ts and example.ts, and the endpoints of the Thingpedia API       *)
(* (src/src/util/thingpedia-client.ts, src/src/routes/thingpedia_api.ts)   *)
(* and of the website that are built from them.  A query is an operator on *)
(* the tables, and its result the set of rows it selects: which kinds, and *)
(* which version of each.                                                  *)
(*                                                                         *)
(* A reader is an organization, NoOrg when there is no developer key, or   *)
(* AdminOrg (orgId = -1, org.is_admin).                                    *)
(***************************************************************************)
EXTENDS Thingpedia

AdminOrg == "admin"
NoOrg == "anonymous"
Readers == Orgs \cup {AdminOrg, NoOrg}

\* getOrgId of the website and _getOrgId of the API client: admins read as
\* AdminOrg, the others as their organization.
GetOrgId(u) == IF IsAdmin(u) THEN AdminOrg ELSE OrgOf[u]

\* The version of a row that the three variants of each versioned query
\* select: the newest one for admins and for the owner, and otherwise the
\* approved one (None selects no row).
VersionFor(row, o) ==
  IF o = AdminOrg \/ row.owner = o THEN row.dev ELSE row.appr

\* The condition of the queries on unversioned columns.
RowVisible(row, o) == o = AdminOrg \/ row.owner = o \/ row.appr # None

DevicesWhere(P(_)) == {k \in Kinds : Exists(device[k]) /\ P(device[k])}
SchemasWhere(P(_)) == {k \in Kinds : Exists(schema[k]) /\ P(schema[k])}

\* The rows of device_code_version that a reader gets for these kinds.
CodeFor(ks, o) ==
  {[kind |-> k, id |-> device[k].id, ver |-> VersionFor(device[k], o)] :
     k \in {j \in ks : Exists(device[j]) /\ VersionFor(device[j], o) # None
                       /\ CodeOf(device[j].id, VersionFor(device[j], o)) # {}}}

-----------------------------------------------------------------------------
(* src/src/model/device.ts                                                 *)

GetByOwner(o) == DevicesWhere(LAMBDA d : d.owner = o)
GetFullCodeByPrimaryKind(k, o) == CodeFor({k}, o)
GetFullCodeByPrimaryKinds(ks, o) == CodeFor(ks, o)
GetByFuzzySearch(matches, o) == matches \cap DevicesWhere(LAMBDA d : RowVisible(d, o))
GetByCategoryWithCode(cat, o) == CodeFor(DevicesWhere(LAMBDA d : d.category = cat), o)
GetBySubcategoryWithCode(ks, o) == CodeFor(ks, o)
GetAllApprovedWithCode(o) == CodeFor(Kinds, o)
GetByField(ks, o) == ks \cap DevicesWhere(LAMBDA d : RowVisible(d, o))
GetByCategory(cat, o) == GetByField(DevicesWhere(LAMBDA d : d.category = cat), o)
GetBySubcategory(ks, o) == GetByField(ks, o)
GetAllApproved(o) == GetByField(Kinds, o)
GetAllApprovedByOwner(o) == DevicesWhere(LAMBDA d : d.appr # None /\ d.owner = o)
GetReviewQueue == DevicesWhere(LAMBDA d : d.appr = None \/ d.appr # d.dev)

\* getDownloadVersion: the only query that fails when it selects no row.
GetDownloadVersion(k, o) == CodeFor({k}, o)

\* getDevicesForSetup: the devices with one of these kinds, those that extend
\* one of them, and those that extend a device that does.
GetDevicesForSetup(ks, o) ==
  CodeFor({k \in Kinds : Exists(device[k]) /\
             \/ k \in ks
             \/ device[k].kinds \cap ks # {}
             \/ \E p \in device[k].kinds : Exists(device[p]) /\ device[p].kinds \cap ks # {}},
          o)

-----------------------------------------------------------------------------
(* src/src/model/schema.ts                                                 *)

\* Schema rows of a table (device_schema or a snapshot of it) joined with the
\* channels of the version that the reader may see.
SchemasFor(table, ks, o) ==
  {[kind |-> k, id |-> table[k].id, ver |-> VersionFor(table[k], o),
    metas |-> MetasAt(table[k].id, VersionFor(table[k], o))] :
     k \in {j \in ks : Exists(table[j]) /\ RowVisible(table[j], o)}}

\* The metadata variants join the names in a language as well.
WithNames(rows, lang) ==
  {[kind |-> s.kind, id |-> s.id, ver |-> s.ver, metas |-> s.metas,
    named |-> lang = "en" \/ <<s.id, s.ver, lang>> \in canonicals] : s \in rows}

FindNonExisting(ks, o) == ks \ SchemasWhere(LAMBDA s : RowVisible(s, o))
GetAllApprovedSchemas(o) == SchemasWhere(LAMBDA s : RowVisible(s, o))
GetCurrentSnapshotTypes(o) == SchemasFor(schema, Kinds, o)
GetCurrentSnapshotMeta(lang, o) == WithNames(SchemasFor(schema, Kinds, o), lang)
GetTypesAndNamesByKinds(ks, o) == SchemasFor(schema, ks, o)
GetMetasByKinds(ks, o, lang) == WithNames(SchemasFor(schema, ks, o), lang)

\* Some version, whoever asks.
GetMetasByKindAtVersion(k, ver, lang) ==
  IF ~Exists(schema[k]) \/ ver = None THEN {}
  ELSE WithNames({[kind |-> k, id |-> schema[k].id, ver |-> ver,
                   metas |-> MetasAt(schema[k].id, ver)]}, lang)

\* A snapshot.  For admins the condition on the snapshot is part of the join
\* with the channels (getSnapshotTypes) or with the names (getSnapshotMeta)
\* and not of the WHERE clause, so the rows of every snapshot come back.
GetSnapshotTypes(n, o) ==
  IF o = AdminOrg
  THEN UNION {{[s EXCEPT !.metas = IF m = n THEN @ ELSE {}] :
                 s \in SchemasFor(snaps[m], Kinds, o)} : m \in DOMAIN snaps}
  ELSE SchemasFor(snaps[n], Kinds, o)
GetSnapshotMeta(n, lang, o) ==
  IF o = AdminOrg
  THEN UNION {WithNames(SchemasFor(snaps[m], Kinds, o), lang) : m \in DOMAIN snaps}
  ELSE WithNames(SchemasFor(snaps[n], Kinds, o), lang)

-----------------------------------------------------------------------------
(* src/src/model/example.ts: the examples of a device go with its schema,  *)
(* and a reader gets them by kind.                                         *)

ExamplesOf(o) == SchemasWhere(LAMBDA s : RowVisible(s, o))
GetBaseByLanguage(o) == IF o = AdminOrg THEN SchemasWhere(LAMBDA s : TRUE) ELSE ExamplesOf(o)
GetExamplesByKey(matches, o) == matches \cap ExamplesOf(o)

\* The examples of these kinds and of the kinds that they extend.
GetExamplesByKinds(ks, o) ==
  ExamplesOf(o) \cap
    (ks \cup UNION {device[k].kinds : k \in ks \cap DevicesWhere(LAMBDA d : RowVisible(d, o))})

GetCommands == SchemasWhere(LAMBDA s : s.appr # None)
GetCheatsheet == SchemasWhere(LAMBDA s : s.appr # None)
\* The searches of Commandpedia have no condition on approved_version, and are
\* no part of NoUnapprovedCode.
GetCommandsByFuzzySearch(matches) == matches \cap SchemasWhere(LAMBDA s : TRUE)

-----------------------------------------------------------------------------
(* ThingpediaClientCloud: a class, a category or a set of kinds ks that     *)
(* matches, and the organization of the developer key.                     *)

Categories == {"online", "physical", "data", "system"}

GetDeviceCode(ks, o) == GetFullCodeByPrimaryKinds(ks, o)
GetSchemas(ks, o, meta) ==
  IF meta THEN GetMetasByKinds(ks, o, "en") ELSE GetTypesAndNamesByKinds(ks, o)
GetDeviceSetup(ks, o) == GetDevicesForSetup(ks, o)
\* Only the rows that have a factory.
GetDeviceFactories(class, ks, o) ==
  {c \in (IF class = None THEN GetAllApprovedWithCode(o)
          ELSE IF class \in Categories THEN GetByCategoryWithCode(class, o)
          ELSE GetBySubcategoryWithCode(ks, o)) :
     \E d \in CodeOf(c.id, c.ver) : d.cls.factory}
GetDeviceList(class, ks, o) ==
  IF class = None THEN GetAllApproved(o)
  ELSE IF class \in Categories THEN GetByCategory(class, o)
  ELSE GetBySubcategory(ks, o)
SearchDevice(matches, o) == GetByFuzzySearch(matches, o)
GetAllDeviceNames(o) == GetAllApprovedSchemas(o)
GetAllExamples(o) == GetBaseByLanguage(o)

\* A snapshot, or without one (n = 0) what the tables hold now.
GetThingpediaSnapshot(n, o) ==
  IF n = 0 THEN GetCurrentSnapshotTypes(o) ELSE GetSnapshotTypes(n, o)

\* getModuleLocation: the newest version the reader may see, or an
\* older one on request; None when there is no such version or no package.
GetModuleLocation(k, o, asked) ==
  LET rows == GetDownloadVersion(k, o) IN
  IF rows = {} THEN None
  ELSE LET c == CHOOSE r \in rows : TRUE
           row == CHOOSE d \in CodeOf(c.id, c.ver) : TRUE
       IN IF ~IsDownloadable(row.cls) \/ (asked # None /\ asked > c.ver) THEN None
          ELSE [kind |-> k, ver |-> IF asked = None THEN c.ver ELSE asked]

-----------------------------------------------------------------------------
(* The endpoints of /thingpedia/api/v3, and how long their answers may be  *)
(* kept by clients.                                                        *)

SchemaEndpoint(ks, o, meta) ==
  {[kind |-> s.kind, id |-> s.id, ver |-> s.ver, metas |-> s.metas] : s \in GetSchemas(ks, o, meta)}
CodeEndpoint(k, o) == GetDeviceCode({k}, o)
SetupEndpoint(ks, o) == GetDeviceSetup(ks, o)
FactoriesEndpoint(class, ks, o) == GetDeviceFactories(class, ks, o)
PackageEndpoint(k, o, asked) == GetModuleLocation(k, o, asked)
AllDevicesEndpoint(class, ks, o) == GetDeviceList(class, ks, o)
SearchEndpoint(matches, o) == SearchDevice(matches, o)
CommandsEndpoint == GetCommands
ExamplesByKindsEndpoint(ks, o) == GetExamplesByKinds(ks, o)
AllExamplesEndpoint(o) == GetAllExamples(o)
ExamplesSearchEndpoint(matches, o) == GetExamplesByKey(matches, o)

\* GET /snapshot/:id: a snapshot that has rows may be kept for six months.
SnapshotEndpoint(n, o) == GetThingpediaSnapshot(n, o)
KeptForMonths(n, o) == n # 0 /\ SnapshotEndpoint(n, o) # {}

-----------------------------------------------------------------------------
(* The pages of the website.                                               *)

\* GET /thingpedia/devices/by-id/:kind, where only admins choose a version.
GetDetails(u, k, asked) ==
  LET d == device[k] IN
  IF ~Exists(d) THEN {}
  ELSE LET ver == IF asked # None /\ IsAdmin(u) THEN asked
                  ELSE IF MayEdit(u, d) THEN d.dev ELSE d.appr
       IN {[kind |-> k, id |-> d.id, ver |-> c.ver] : c \in CodeOf(d.id, ver)}

\* GET /thingpedia/classes/by-id/:kind: the code, if there is metadata as well.
GetClassPage(u, k) ==
  IF GetMetasByKinds({k}, GetOrgId(u), "en") = {} THEN {} ELSE GetFullCodeByPrimaryKind(k, GetOrgId(u))

\* GET /profiles/organization/:id_hash, and the review queue of the admins.
GetOrgProfile(org) == GetAllApprovedByOwner(org)
GetReview(u) == IF IsAdmin(u) THEN GetReviewQueue ELSE {}

\* GET /thingpedia/upload/update/:kind, the form with the newest code.
GetUpdateForm(u, k) ==
  IF Exists(device[k]) /\ MayEdit(u, device[k])
  THEN {[kind |-> k, id |-> device[k].id, ver |-> device[k].dev]} ELSE {}

\* GET /thingpedia/translate/by-id/:kind: the newest version whose translation
\* is shown.  The owner and the users that are NOT admins get the newest one.
TranslateVersion(u, k) ==
  LET s == schema[k] IN
  IF ~Exists(s) THEN None
  ELSE IF s.owner = OrgOf[u] \/ ~IsAdmin(u) THEN s.dev ELSE s.appr

\* The page goes through the English names that the user's organization reads,
\* and fails on a device of which it reads none.
TranslatePage(u, k) ==
  IF TranslateVersion(u, k) = None THEN "not found"
  ELSE IF GetMetasByKinds({k}, OrgOf[u], "en") = {} THEN "error" ELSE "shown"

-----------------------------------------------------------------------------
(* Properties.                                                             *)

DeviceRows == [id : Ids, owner : Orgs, dev : Versions, appr : Versions \cup {None},
               kinds : SUBSET Kinds, category : {"system", "data", "physical", "online"}]
SchemaRows == [id : Ids, owner : Orgs, dev : Versions, appr : Versions \cup {None}]

\* SQL null is no version and no row.
ASSUME NoneAssumption ==
  None \notin Versions /\ None \notin DeviceRows /\ None \notin SchemaRows

\* Type correctness of the tables and of the uploads in progress.
TypeOK ==
  /\ device \in [Kinds -> DeviceRows \cup {None}]
  /\ schema \in [Kinds -> SchemaRows \cup {None}]
  /\ \A c \in code : c.id \in Ids /\ c.ver \in Versions
  /\ \A c \in channels : c.id \in Ids /\ c.ver \in Versions
  /\ canonicals \subseteq Ids \X Versions \X Languages
  /\ Len(snaps) \in 0 .. MaxSnapshots
  /\ \A r \in Reqs : req[r].pc \in {"idle", "read", "stored", "committed"}
  /\ booted \in BOOLEAN
  /\ nextId \in 1 .. MaxId + 1

\* May an organization see this version of the code or of the schema, and may
\* it know of the kind at all?
MayReadCode(o, c) ==
  \/ o = AdminOrg
  \/ <<"device", c.id, c.ver>> \in blessed
  \/ Exists(device[c.kind]) /\ device[c.kind].owner = o
MayReadSchema(o, table, s) ==
  \/ o = AdminOrg
  \/ s.metas = {}
  \/ <<"schema", s.id, s.ver>> \in blessed
  \/ Exists(table[s.kind]) /\ table[s.kind].owner = o
MayList(o, k) ==
  \/ o = AdminOrg
  \/ Exists(device[k]) /\ device[k].owner = o
  \/ \E what \in {"device", "schema"}, id \in Ids, v \in Versions :
       /\ <<what, id, v>> \in blessed
       /\ \/ Exists(schema[k]) /\ schema[k].id = id
          \/ Exists(device[k]) /\ device[k].id = id

\* A version of a package that was asked for by its number: there is as new a
\* version that the organization may see.
MayDownload(o, c) == \E v \in Versions : c.ver <= v /\ MayReadCode(o, [c EXCEPT !.ver = v])

\* Everything the endpoints serve to a reader.
PackagesServed(o, asked) ==
  {[kind |-> k, id |-> device[k].id, ver |-> PackageEndpoint(k, o, asked).ver] :
     k \in {j \in Kinds : PackageEndpoint(j, o, asked) # None}}
CodeServed(o) ==
  PackagesServed(o, None) \cup (UNION {CodeEndpoint(k, o) \cup GetDownloadVersion(k, o) : k \in Kinds})
    \cup SetupEndpoint(Kinds, o)
    \cup UNION {FactoriesEndpoint(class, Kinds, o) : class \in {None, "data", "online", "media"}}
SchemasServed(o) ==
  (UNION {SchemaEndpoint(Kinds, o, meta) : meta \in BOOLEAN}) \cup SnapshotEndpoint(0, o)
    \cup {[kind |-> s.kind, id |-> s.id, ver |-> s.ver, metas |-> s.metas] : s \in GetCurrentSnapshotMeta("it", o)}
KindsListed(o) ==
  (UNION {AllDevicesEndpoint(class, Kinds, o) : class \in {None, "data", "media"}})
    \cup SearchEndpoint(Kinds, o) \cup GetAllDeviceNames(o) \cup (Kinds \ FindNonExisting(Kinds, o))
    \cup AllExamplesEndpoint(o) \cup ExamplesSearchEndpoint(Kinds, o)
    \cup ExamplesByKindsEndpoint(Kinds, o) \cup CommandsEndpoint \cup GetCheatsheet
    \cup GetByOwner(o) \cup UNION {GetOrgProfile(org) : org \in Orgs}

\* What the endpoints above hand out was approved: no version of a device or
\* of its schema that neither an admin nor a trusted developer ever approved,
\* and no kind of which nothing was, goes to anybody but its owner and the
\* admins, through approvals, uploads that race with them, deletions and
\* snapshots (the approved_version conditions of model/device.ts, schema.ts and
\* example.ts, and the approve flag of uploadDevice).  Three ways are weaker or
\* not in it.  A package that is asked for by its version is only not newer
\* than one that the reader may see (getModuleLocation): an older version that
\* was never approved is served.  The searches of Commandpedia have no
\* condition on approved_version (getCommandsByFuzzySearch), and the
\* translation page shows the newest translation to users that are not admins
\* (TranslatePage).
NoUnapprovedCode ==
  /\ \A o \in Readers :
       /\ \A c \in CodeServed(o) : MayReadCode(o, c)
       /\ \A asked \in Versions : \A c \in PackagesServed(o, asked) : MayDownload(o, c)
       /\ \A s \in SchemasServed(o) : MayReadSchema(o, schema, s)
       /\ \A n \in DOMAIN snaps : \A s \in SnapshotEndpoint(n, o) :
            MayReadSchema(o, snaps[n], s)
       /\ \A k \in KindsListed(o) : MayList(o, k)
  /\ \A u \in Users, k \in Kinds : \A c \in GetDetails(u, k, 0) \cup GetUpdateForm(u, k) \cup GetClassPage(u, k) :
       MayReadCode(GetOrgId(u), c)
  /\ \A u \in Users, k \in Kinds : k \in GetReview(u) => MayList(GetOrgId(u), k)

\* Every version that a row points to is there: the code of the newest and of
\* the approved version, the channels of the schema, and for each downloadable
\* version the very package its upload sent or inherited, whatever uploads ran
\* at the same time, failed or were rolled back after storing their file
\* (uploadDevice stores the zip inside the transaction).
RowsComplete ==
  \A k \in Kinds : Exists(device[k]) =>
    LET d == device[k]
        s == schema[k]
    IN /\ \A v \in {d.dev, d.appr} \ {None} : Cardinality(CodeOf(d.id, v)) = 1
       /\ Exists(s)
       /\ \A v \in {s.dev, s.appr} \ {None} : Cardinality(MetasAt(s.id, v)) = 1
       /\ \A c \in code : c.id = d.id /\ IsDownloadable(c.cls) /\ c.pkg # None =>
            zips[k][c.ver] = c.pkg

\* The schema that the owner of a device gets has the metadata of the code
\* that the owner gets: ensurePrimarySchema may skip the new version of the
\* schema only when nothing changed.  A device and its schema have one owner.
DeveloperSchemaMatches ==
  \A k \in Kinds : Exists(device[k]) =>
    /\ Exists(schema[k]) /\ schema[k].owner = device[k].owner
    /\ \A c \in CodeOf(device[k].id, device[k].dev) :
         MetasAt(schema[k].id, schema[k].dev) = {c.cls.metas}

\* Together: the rows of a device agree, whatever raced to write them.
RowsConsistent == RowsComplete /\ DeveloperSchemaMatches

\* What an organization reads of a snapshot never changes again: uploads only
\* add versions, and deleting a device leaves its channels (the API lets
\* clients cache a snapshot for six months).
SnapshotImmutable ==
  [][\A n \in DOMAIN snaps : \A o \in Readers \ {AdminOrg} :
       KeptForMonths(n, o) => SnapshotEndpoint(n, o)' = SnapshotEndpoint(n, o)]_vars

\* A device that is "not yet approved for general use"
\* (views/thingpedia_device_details.pug:30) becomes approved only when somebody
\* approves it, which approves its newest version (thingpedia_devices.ts,
\* import_device.ts): the upload of a developer never brings back an approval
\* that was withdrawn.  It does (import_device.ts:585), so no run has this.
OnlyApprovalsApprove ==
  [][\A k \in Kinds :
       /\ Exists(device[k]) /\ Exists(device'[k]) /\ device'[k].id = device[k].id
       /\ device[k].appr = None /\ device'[k].appr # None
       => device'[k].appr = device'[k].dev]_vars

\* "pretend the device does not exist if it is not visible"
\* (thingpedia_translate.ts:141): the translation page of a device is not found
\* by those who may not see the device, and by nobody else.  No run has this,
\* since the test of line 136 is inverted.
TranslateHidden ==
  \A u \in Users, k \in Kinds :
    Exists(schema[k]) =>
      (TranslatePage(u, k) = "not found" <=> ~RowVisible(schema[k], GetOrgId(u)))
=============================================================================
