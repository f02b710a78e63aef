----------------------------- MODULE Thingpedia -----------------------------
(***************************************************************************)
(* The Thingpedia repository of device classes: the tables device_class,   *)
(* device_code_version, device_class_kind, device_schema,                  *)
(* device_schema_channels and their snapshot, the zip files kept next to   *)
(* them, and every operation of the website that changes them: uploading a *)
(* device (src/src/util/import_device.ts), approving, unapproving and      *)
(* deleting one (src/src/routes/thingpedia_devices.ts), translating one    *)
(* (thingpedia_translate.ts) and taking a snapshot.                        *)
(*                                                                         *)
(* uploadDevice is the only operation that spans several steps: it runs in *)
(* a "repeatable read" transaction, which reads from a snapshot taken at   *)
(* its first query, takes row locks when it writes, stores the zip file    *)
(* before it commits and queues the retraining after.  The other           *)
(* operations are single serializable transactions and one action each.    *)
(***************************************************************************)
EXTENDS Naturals, Sequences, FiniteSets

CONSTANTS
  None,         \* SQL null: no row, no version, no file
  Kinds,        \* primary kinds of devices
  Users,        \* users of the website
  OrgOf,        \* [Users -> Orgs]: users.developer_org
  Admins,       \* users with Role.THINGPEDIA_ADMIN
  Trusted,      \* users with Role.TRUSTED_DEVELOPER
  RootOrg,      \* the organization with id 1
  TagForm,      \* [Kinds -> ...]: the shape of a kind, see ValidTag
  Uploads,      \* the upload forms that may be submitted
  Imports,      \* the devices that the bootstrap may import, as forms
  BaseEntities, \* entity types every installation has
  StringTypes,  \* string types every installation has
  Languages,    \* languages a device can be translated to (English apart)
  Reqs,         \* upload requests the website serves at the same time
  MaxVersion,   \* bound on developer_version
  MaxId,        \* bound on the ids of the tables
  MaxSnapshots, \* bound on the number of snapshots
  MaxTranslations \* bound on the number of translations

Orgs == {OrgOf[u] : u \in Users}
Versions == 0 .. MaxVersion
Ids == 1 .. MaxId

\* An upload form: who submits it, and the checked fields of its body.
\* Its class (form.cls) keeps of the ThingTalk code what the database and
\* the validation tell apart.
ASSUME UploadsAssumption ==
  \A f \in Uploads \cup Imports : /\ f.user \in Users
                     /\ f.kind \in Kinds
                     /\ {f.approve, f.zip, f.icon} \subseteq BOOLEAN
                     /\ f.cls.extends \subseteq Kinds

ASSUME BoundsAssumption ==
  {MaxVersion, MaxId, MaxSnapshots, MaxTranslations} \subseteq Nat

VARIABLES
  device,      \* device_class joined with device_class_kind
  code,        \* device_code_version: records [id, ver, cls, pkg]
  schema,      \* device_schema
  channels,    \* device_schema_channels: records [id, ver, metas]
  canonicals,  \* device_schema_channel_canonicals not in English
  entities,    \* entity_names
  snaps,       \* device_schema_snapshot, one copy of schema per snapshot
  zips,        \* the zip files of FILE_STORAGE_DIR/devices
  req,         \* the uploads in progress
  booted,      \* has the bootstrap ended and the website started?
  nextId,      \* AUTO_INCREMENT of the tables
  blessed      \* history: versions that an admin or trusted developer approved

vars == <<device, code, schema, channels, canonicals, entities, snaps, zips,
          req, booted, nextId, blessed>>

IsAdmin(u) == u \in Admins

-----------------------------------------------------------------------------
(* Validation of an upload (src/src/util/validation.ts).                   *)

\* A kind must be a well-formed name; outside the admins it needs a dot, and
\* org.thingpedia is reserved to the root organization, its test part apart.
ValidTag(k, u) ==
  /\ TagForm[k] # "malformed"
  /\ \/ IsAdmin(u)
     \/ /\ TagForm[k] # "single"
        /\ OrgOf[u] = RootOrg \/ TagForm[k] # "reserved"

\* What validateInvocation requires of each function of a class.
ValidFunction(fn, cls) ==
  /\ ~fn.forbidden
  /\ cls.abstract \/ fn.what # "query" \/ ~fn.monitorable \/ fn.poll
  /\ cls.abstract \/ cls.loader # "rest" \/ fn.url

EntitiesUsed(cls) == cls.parents \cup UNION {fn.entities : fn \in cls.functions}
StringsUsed(cls) == UNION {fn.strings : fn \in cls.functions}

ValidateDevice(u, k, cls) ==
  /\ ValidTag(k, u)
  /\ cls.abstract \/ cls.loader # None
  /\ \A fn \in cls.functions : ValidFunction(fn, cls)
  /\ EntitiesUsed(cls) \ cls.declares \subseteq entities
  /\ StringsUsed(cls) \subseteq StringTypes

\* Only JavaScript modules that are not built in come as a zip file.
IsDownloadable(cls) == ~cls.abstract /\ cls.loader = "js"

GetCategory(cls) ==
  CASE cls.system \/ cls.abstract -> "system"
    [] cls.config = "none" -> "data"
    [] cls.config = "discovery" -> "physical"
    [] OTHER -> "online"

-----------------------------------------------------------------------------
(* The rows of the tables.                                                 *)

Exists(row) == row # None

DeviceRow(id, owner, dev, appr, cls) ==
  [id |-> id, owner |-> owner, dev |-> dev, appr |-> appr,
   kinds |-> cls.extends, category |-> GetCategory(cls)]

SchemaRow(id, owner, dev, appr) ==
  [id |-> id, owner |-> owner, dev |-> dev, appr |-> appr]

CodeOf(id, ver) == {c \in code : c.id = id /\ c.ver = ver}
MetasAt(id, ver) == {c.metas : c \in {d \in channels : d.id = id /\ d.ver = ver}}

\* Has the user the right to replace or delete this row?
MayEdit(u, row) == row.owner = OrgOf[u] \/ IsAdmin(u)

\* uploadDevice honours the approve box of trusted developers and admins.
Approver(u) == u \in Trusted \/ IsAdmin(u)
Approves_Mut(form) == form.approve
Approves(form) == form.approve /\ Approver(form.user)

\* The row locks of a kind are held from the first write of an upload until
\* its transaction ends.  The foreign key of device_class_kind keeps the
\* schemas of the classes it extends as well.
Holding(r) == req[r].pc = "stored"
Locked(k) == \E r \in Reqs : Holding(r) /\ req[r].form.kind = k
Referenced(k) == \E r \in Reqs : Holding(r) /\ k \in req[r].form.cls.extends

Idle == [pc |-> "idle"]

-----------------------------------------------------------------------------
(* Uploading a device.                                                     *)

\* The transaction starts: it reads the device and its schema, checks the
\* owner of both, and validates the new code against what it read.
UploadBegin(r, form) ==
  LET old == device[form.kind]
      oldSchema == schema[form.kind]
  IN /\ booted /\ req[r].pc = "idle"
     /\ IF Exists(old) THEN MayEdit(form.user, old) ELSE form.icon
     /\ ValidateDevice(form.user, form.kind, form.cls)
     /\ Exists(oldSchema) => MayEdit(form.user, oldSchema)
     /\ req' = [req EXCEPT ![r] = [pc |-> "read", form |-> form, old |-> old,
                                   oldSchema |-> oldSchema]]
     /\ UNCHANGED <<device, code, schema, channels, canonicals, entities,
                    snaps, zips, booted, nextId, blessed>>

\* developer_version of the device that this upload creates or updates.
NewVersion(q) == IF Exists(q.old) THEN q.old.dev + 1 ELSE 0

\* Would the writes of the upload meet a duplicate key or a foreign key that
\* is gone?  The database checks the keys against the rows committed by now,
\* not against the snapshot the transaction reads from.
KeysHold_Mut(q) ==
  /\ Exists(q.old) <=> Exists(device[q.form.kind])
  /\ Exists(q.oldSchema) <=> Exists(schema[q.form.kind])
KeysHold(q) ==
  LET k == q.form.kind IN
  /\ IF Exists(q.old)
     THEN /\ Exists(device[k]) /\ device[k].id = q.old.id
          /\ CodeOf(q.old.id, NewVersion(q)) = {}
     ELSE ~Exists(device[k])
  /\ IF Exists(q.oldSchema)
     THEN Exists(schema[k]) /\ schema[k].id = q.oldSchema.id
     ELSE ~Exists(schema[k])
  /\ \A p \in q.form.cls.extends : Exists(schema[p])

\* The package of the new version: the file of the form, or the one stored
\* for the version before (code_storage.downloadZipFile).
Package(q) ==
  IF q.form.zip THEN <<q.form.kind, NewVersion(q), q.form.cls>>
  ELSE IF Exists(q.old) THEN zips[q.form.kind][q.old.dev]
  ELSE None

\* The first write waits for the row locks of the kind, and from there on the
\* other writers of the kind wait for this transaction.  uploadZipFile and
\* uploadJavaScript then store the package, still inside the transaction, with
\* the number of the version in its name.
UploadWrite(r) ==
  LET q == req[r]
      pkg == IF IsDownloadable(q.form.cls) THEN Package(q) ELSE None
  IN /\ q.pc = "read" /\ ~Locked(q.form.kind)
     /\ NewVersion(q) <= MaxVersion
     /\ KeysHold(q)
     /\ IsDownloadable(q.form.cls) => pkg # None
     /\ zips' = IF pkg = None THEN zips
                ELSE [zips EXCEPT ![q.form.kind][NewVersion(q)] = pkg]
     /\ req' = [req EXCEPT ![r] = [pc |-> "stored", form |-> q.form, old |-> q.old,
                                   oldSchema |-> q.oldSchema, pkg |-> pkg]]
     /\ UNCHANGED <<device, code, schema, channels, canonicals, entities, snaps,
                    booted, nextId, blessed>>

\* areMetaIdentical: the metadata of the new class is the one of the newest
\* version of the schema.
MetaIdentical(q) == q.form.cls.metas \in MetasAt(q.oldSchema.id, q.oldSchema.dev)

\* ensurePrimarySchema: a schema that is identical to the newest version
\* stays as it is, and is approved only if no version of it was; otherwise
\* it gets a new version.
EnsurePrimarySchema_Mut(q) ==
  IF ~Exists(q.oldSchema)
  THEN SchemaRow(nextId, OrgOf[q.form.user], 0, IF Approves(q.form) THEN 0 ELSE None)
  ELSE LET cur == schema[q.form.kind] IN
       [cur EXCEPT !.appr = IF Approves(q.form) THEN cur.dev ELSE @]
EnsurePrimarySchema(q) ==
  IF ~Exists(q.oldSchema)
  THEN SchemaRow(nextId, OrgOf[q.form.user], 0, IF Approves(q.form) THEN 0 ELSE None)
  ELSE LET cur == schema[q.form.kind] IN
       IF MetaIdentical(q)
       THEN [cur EXCEPT !.appr = IF q.oldSchema.appr = None /\ Approves(q.form)
                                 THEN cur.dev ELSE @]
       ELSE [cur EXCEPT !.dev = q.oldSchema.dev + 1,
                        !.appr = IF Approves(q.form) THEN q.oldSchema.dev + 1 ELSE @]

\* The device row: a version more, approved if the upload approves, and
\* otherwise as approved as the row that the transaction READ.
NewDevice(q) ==
  DeviceRow(IF Exists(q.old) THEN q.old.id ELSE nextId,
            IF Exists(q.old) THEN q.old.owner ELSE OrgOf[q.form.user],
            NewVersion(q),
            IF Approves(q.form) THEN NewVersion(q)
            ELSE IF Exists(q.old) THEN q.old.appr ELSE None,
            q.form.cls)

SchemaChanged(q) == ~Exists(q.oldSchema) \/ ~MetaIdentical(q)

\* The transaction commits: everything it wrote appears at once.
UploadCommit(r) ==
  LET q == req[r]
      k == q.form.kind
      d == NewDevice(q)
      s == EnsurePrimarySchema(q)
  IN /\ q.pc = "stored" /\ d.id <= MaxId
     /\ device' = [device EXCEPT ![k] = d]
     /\ code' = code \cup {[id |-> d.id, ver |-> d.dev, cls |-> q.form.cls, pkg |-> q.pkg]}
     /\ schema' = [schema EXCEPT ![k] = s]
     /\ channels' = IF SchemaChanged(q)
                    THEN channels \cup {[id |-> s.id, ver |-> s.dev, metas |-> q.form.cls.metas]}
                    ELSE channels
     /\ entities' = entities \cup q.form.cls.declares
     /\ nextId' = IF Exists(q.old) THEN nextId ELSE nextId + 1
     /\ blessed' = IF q.form.approve /\ Approver(q.form.user)
                   THEN blessed \cup {<<"device", d.id, d.dev>>, <<"schema", s.id, s.dev>>}
                   ELSE blessed
     /\ req' = [req EXCEPT ![r] = IF SchemaChanged(q) \/ q.form.cls.dataset
                                  THEN [pc |-> "committed", form |-> q.form]
                                  ELSE Idle]
     /\ UNCHANGED <<canonicals, snaps, zips, booted>>

\* After the transaction: the training server is asked for an update-dataset
\* job of the kind (TrainingDaemon takes it from there), and the engine of the
\* user is told to reload the device.
UploadRetrain(r) ==
  /\ req[r].pc = "committed"
  /\ req' = [req EXCEPT ![r] = Idle]
  /\ UNCHANGED <<device, code, schema, channels, canonicals, entities, snaps,
                 zips, booted, nextId, blessed>>

\* A key does not hold, the zip file is bad, the database breaks a deadlock,
\* or the website crashes: the transaction is rolled back, and a file that it
\* stored stays.  A crash after the commit loses the retraining.
UploadAbort(r) ==
  /\ req[r].pc # "idle"
  /\ req' = [req EXCEPT ![r] = Idle]
  /\ UNCHANGED <<device, code, schema, channels, canonicals, entities, snaps,
                 zips, booted, nextId, blessed>>

\* importDevice, which the bootstrap of an installation runs on the devices it
\* ships: one transaction that creates version 0, approved or not.
ImportDevice(form) ==
  LET k == form.kind
      appr == IF form.approve THEN 0 ELSE None
  IN /\ ~booted /\ nextId <= MaxId
     /\ ~Exists(device[k]) /\ ~Exists(schema[k])
     /\ ValidateDevice(form.user, k, form.cls)
     /\ \A p \in form.cls.extends : Exists(schema[p])
     /\ device' = [device EXCEPT ![k] = DeviceRow(nextId, OrgOf[form.user], 0, appr, form.cls)]
     /\ schema' = [schema EXCEPT ![k] = SchemaRow(nextId, OrgOf[form.user], 0, appr)]
     /\ channels' = channels \cup {[id |-> nextId, ver |-> 0, metas |-> form.cls.metas]}
     /\ LET stores == IsDownloadable(form.cls) /\ form.zip
            pkg == <<k, 0, form.cls>>
        IN /\ zips' = IF stores THEN [zips EXCEPT ![k][0] = pkg] ELSE zips
           /\ code' = code \cup {[id |-> nextId, ver |-> 0, cls |-> form.cls,
                                  pkg |-> IF stores THEN pkg ELSE None]}
     /\ entities' = entities \cup form.cls.declares
     /\ blessed' = IF form.approve
                   THEN blessed \cup {<<"device", nextId, 0>>, <<"schema", nextId, 0>>}
                   ELSE blessed
     /\ nextId' = nextId + 1
     /\ UNCHANGED <<canonicals, snaps, req, booted>>

\* The bootstrap is over and the website starts.
StartWebsite ==
  /\ ~booted /\ booted' = TRUE
  /\ UNCHANGED <<device, code, schema, channels, canonicals, entities, snaps,
                 zips, req, nextId, blessed>>

-----------------------------------------------------------------------------
(* The other operations of the website.                                    *)

WithApproved_Mut(row, ver) == [row EXCEPT !.appr = row.dev + 1]
WithApproved(row, ver) == [row EXCEPT !.appr = ver]

\* POST /thingpedia/devices/approve: both rows take their newest version.
ApproveDevice(u, k) ==
  /\ booted /\ IsAdmin(u) /\ ~Locked(k)
  /\ device' = [device EXCEPT ![k] = IF Exists(@) THEN WithApproved(@, @.dev) ELSE @]
  /\ schema' = [schema EXCEPT ![k] = IF Exists(@) THEN WithApproved(@, @.dev) ELSE @]
  /\ blessed' = blessed \cup {<<"device", d.id, d.dev>> : d \in {device[k]} \ {None}}
                        \cup {<<"schema", s.id, s.dev>> : s \in {schema[k]} \ {None}}
  /\ UNCHANGED <<code, channels, canonicals, entities, snaps, zips, req,
                 booted, nextId>>

\* POST /thingpedia/devices/unapprove
UnapproveDevice(u, k) ==
  /\ booted /\ IsAdmin(u) /\ ~Locked(k)
  /\ device' = [device EXCEPT ![k] = IF Exists(@) THEN WithApproved(@, None) ELSE @]
  /\ schema' = [schema EXCEPT ![k] = IF Exists(@) THEN WithApproved(@, None) ELSE @]
  /\ UNCHANGED <<code, channels, canonicals, entities, snaps, zips, req,
                 booted, nextId, blessed>>

\* POST /thingpedia/devices/delete: the code goes with the device and the
\* uses of the kind with the schema (ON DELETE CASCADE); the channels, which
\* have no foreign key, and the zip files stay.
DeleteDevice(u, k) ==
  /\ booted /\ Exists(device[k]) /\ MayEdit(u, device[k])
  /\ ~Locked(k) /\ ~Referenced(k)
  /\ device' = [j \in Kinds |->
                  IF j = k \/ ~Exists(device[j]) THEN IF j = k THEN None ELSE device[j]
                  ELSE [device[j] EXCEPT !.kinds = @ \ {k}]]
  /\ schema' = [schema EXCEPT ![k] = None]
  /\ code' = {c \in code : c.id # device[k].id}
  /\ UNCHANGED <<channels, canonicals, entities, snaps, zips, req, booted,
                 nextId, blessed>>

\* POST /thingpedia/translate/by-id/:kind: a logged in user translates a
\* schema whose English names it may read, at the newest version.
TranslateDevice(u, k, lang) ==
  LET s == schema[k] IN
  /\ booted /\ Exists(s) /\ ~Locked(k)
  /\ Cardinality(canonicals) < MaxTranslations
  /\ s.owner = OrgOf[u] \/ s.appr # None
  /\ canonicals' = canonicals \cup {<<s.id, s.dev, lang>>}
  /\ UNCHANGED <<device, code, schema, channels, entities, snaps, zips, req,
                 booted, nextId, blessed>>

\* POST /thingpedia/snapshots/create: a copy of the rows of device_schema.
CreateSnapshot(u) ==
  /\ booted /\ IsAdmin(u) /\ Len(snaps) < MaxSnapshots
  /\ \A k \in Kinds : ~Locked(k)
  /\ snaps' = Append(snaps, schema)
  /\ UNCHANGED <<device, code, schema, channels, canonicals, entities, zips,
                 req, booted, nextId, blessed>>

-----------------------------------------------------------------------------
Init ==
  /\ device = [k \in Kinds |-> None]
  /\ code = {}
  /\ schema = [k \in Kinds |-> None]
  /\ channels = {}
  /\ canonicals = {}
  /\ entities = BaseEntities
  /\ snaps = <<>>
  /\ zips = [k \in Kinds |-> [v \in Versions |-> None]]
  /\ req = [r \in Reqs |-> Idle]
  /\ booted = FALSE
  /\ nextId = 1
  /\ blessed = {}

Next ==
  \/ \E r \in Reqs, form \in Uploads : UploadBegin(r, form)
  \/ \E r \in Reqs : \/ UploadWrite(r)
                     \/ UploadCommit(r)
                     \/ UploadRetrain(r)
                     \/ UploadAbort(r)
  \/ \E u \in Users, k \in Kinds : \/ ApproveDevice(u, k)
                                   \/ UnapproveDevice(u, k)
                                   \/ DeleteDevice(u, k)
                                   \/ \E lang \in Languages : TranslateDevice(u, k, lang)
  \/ \E u \in Users : CreateSnapshot(u)
  \/ \E form \in Imports : ImportDevice(form)
  \/ StartWebsite

Spec == Init /\ [][Next]_vars
=============================================================================
