-------------------------- MODULE ThingpediaProofs --------------------------
(***************************************************************************)
(* Proofs about Thingpedia: the tables keep their types, no endpoint hands *)
(* out what nobody approved, the rows of a device agree, and a snapshot    *)
(* never changes, for all kinds, users, organizations, upload forms,       *)
(* numbers of concurrent uploads and bounds.                               *)
(***************************************************************************)
EXTENDS ThingpediaApi, TLAPS, FiniteSetTheorems, SequenceTheorems

-----------------------------------------------------------------------------
(* The inductive invariant.                                                *)

Classes == {f.cls : f \in Uploads \cup Imports}
Packages == Kinds \X Versions \X Classes
CodeRows == [id : Ids, ver : Versions, cls : Classes, pkg : Packages \cup {None}]
ChannelRows == [id : Ids, ver : Versions, metas : {c.metas : c \in Classes}]

\* An upload before, between and after its two transactions' steps.
ReqStates ==
  {Idle}
  \cup [pc : {"read"}, form : Uploads, old : DeviceRows \cup {None},
        oldSchema : SchemaRows \cup {None}]
  \cup [pc : {"stored"}, form : Uploads, old : DeviceRows \cup {None},
        oldSchema : SchemaRows \cup {None}, pkg : Packages \cup {None}]
  \cup [pc : {"committed"}, form : Uploads]

TablesTyped ==
  /\ device \in [Kinds -> DeviceRows \cup {None}]
  /\ schema \in [Kinds -> SchemaRows \cup {None}]
  /\ code \subseteq CodeRows
  /\ channels \subseteq ChannelRows
  /\ canonicals \subseteq Ids \X Versions \X Languages
  /\ snaps \in Seq([Kinds -> SchemaRows \cup {None}])
  /\ Len(snaps) <= MaxSnapshots
  /\ zips \in [Kinds -> [Versions -> Packages \cup {None}]]
  /\ req \in [Reqs -> ReqStates]
  /\ booted \in BOOLEAN
  /\ nextId \in 1 .. MaxId + 1

\* AUTO_INCREMENT gives every id once, and the primary keys of the tables.
DeviceKeys ==
  \A k \in Kinds : Exists(device[k]) =>
    /\ device[k].id < nextId
    /\ \A j \in Kinds : Exists(device[j]) /\ device[j].id = device[k].id => j = k
CodeKeys ==
  \A c \in code : c.id < nextId /\ \A d \in code : d.id = c.id /\ d.ver = c.ver => d = c
ChannelKeys ==
  \A c \in channels :
    c.id < nextId /\ \A d \in channels : d.id = c.id /\ d.ver = c.ver => d = c

\* A device and its schema come and go together, and what is approved of them
\* is one of their versions.
Pair(d, s) ==
  /\ Exists(d) <=> Exists(s)
  /\ Exists(d) => /\ s.id = d.id /\ s.owner = d.owner /\ s.dev <= d.dev
                  /\ Exists(d.appr) => d.appr <= d.dev
                  /\ Exists(s.appr) => s.appr <= s.dev
Paired == \A k \in Kinds : Pair(device[k], schema[k])

HasCode(id, ver) == \E c \in code : c.id = id /\ c.ver = ver
HasMetas(id, ver) == \E c \in channels : c.id = id /\ c.ver = ver

\* No version of the code is missing, so that an upload which read an old row
\* finds its version taken; the package of a version is the one stored.
CodeKept ==
  \A k \in Kinds : Exists(device[k]) =>
    /\ \A v \in 0 .. device[k].dev : HasCode(device[k].id, v)
    /\ \A c \in code : c.id = device[k].id /\ IsDownloadable(c.cls) /\ c.pkg # None =>
         zips[k][c.ver] = c.pkg
\* The versions of the schema have channels, none are newer than the newest,
\* which has those of the newest code.
MetasKept ==
  \A k \in Kinds : Exists(device[k]) =>
    /\ HasMetas(schema[k].id, schema[k].dev)
    /\ Exists(schema[k].appr) => HasMetas(schema[k].id, schema[k].appr)
    /\ \A m \in channels : m.id = schema[k].id => m.ver <= schema[k].dev
    /\ \A c \in code, m \in channels :
         /\ c.id = device[k].id /\ c.ver = device[k].dev
         /\ m.id = schema[k].id /\ m.ver = schema[k].dev
         => m.metas = c.cls.metas

\* What an upload read is of this device, not newer, and still right about the
\* schema if no other upload got in between.
ReadsOld(q) ==
  /\ Pair(q.old, q.oldSchema)
  /\ Exists(q.old) =>
       /\ q.old.id < nextId
       /\ Exists(q.old.appr) => <<"device", q.old.id, q.old.appr>> \in blessed
       /\ LET k == q.form.kind IN
          Exists(device[k]) /\ device[k].id = q.old.id =>
            /\ device[k].owner = q.old.owner
            /\ q.old.dev <= device[k].dev
            /\ q.old.dev = device[k].dev => schema[k].dev = q.oldSchema.dev
\* Once it wrote, what it read is what is there, and its file is stored.
WroteNew(q) ==
  LET k == q.form.kind IN
  /\ ~Exists(q.old) => ~Exists(device[k])
  /\ Exists(q.old) => /\ Exists(device[k])
                      /\ device[k].id = q.old.id /\ device[k].dev = q.old.dev
                      /\ ~HasCode(q.old.id, q.old.dev + 1)
  /\ NewVersion(q) <= MaxVersion
  /\ q.pkg # None => zips[k][NewVersion(q)] = q.pkg
UploadsSound ==
  \A r \in Reqs : /\ req[r].pc \in {"read", "stored"} => ReadsOld(req[r])
                  /\ req[r].pc = "stored" => WroteNew(req[r])
OneWriter ==
  \A r, s \in Reqs : Holding(r) /\ Holding(s) /\ req[r].form.kind = req[s].form.kind => r = s
BootstrapAlone == ~booted => \A r \in Reqs : req[r] = Idle

\* What the approved versions of rows and snapshots point to was approved.
SchemaBlessed(s) ==
  Exists(s) /\ Exists(s.appr) => <<"schema", s.id, s.appr>> \in blessed
DeviceBlessed(d) ==
  Exists(d) /\ Exists(d.appr) => <<"device", d.id, d.appr>> \in blessed
RowsBlessed == \A k \in Kinds : DeviceBlessed(device[k]) /\ SchemaBlessed(schema[k])
SnapsBlessed == \A n \in 1 .. Len(snaps), k \in Kinds : SchemaBlessed(snaps[n][k])

\* Deleting a device leaves the channels that snapshots of it need.
SnapsKept ==
  \A n \in 1 .. Len(snaps), k \in Kinds : Exists(snaps[n][k]) =>
    /\ HasMetas(snaps[n][k].id, snaps[n][k].dev)
    /\ Exists(snaps[n][k].appr) => HasMetas(snaps[n][k].id, snaps[n][k].appr)

Keys == DeviceKeys /\ CodeKeys /\ ChannelKeys
Rows == Paired /\ CodeKept /\ MetasKept
UploadsInv == UploadsSound /\ OneWriter /\ BootstrapAlone
Blessings == RowsBlessed /\ SnapsBlessed /\ SnapsKept
IInv == TablesTyped /\ Keys /\ Rows /\ UploadsInv /\ Blessings

-----------------------------------------------------------------------------
(* The initial state.                                                      *)

LEMMA InitInv == Init => IInv
<1> SUFFICES ASSUME Init PROVE IInv
    OBVIOUS
<1>1. TablesTyped
  <2>1. snaps = <<>> /\ Len(<<>>) = 0
    BY DEF Init
  <2>2. <<>> \in Seq([Kinds -> SchemaRows \cup {None}])
    OBVIOUS
  <2>3. 1 \in 1 .. MaxId + 1 /\ 0 <= MaxSnapshots
    BY BoundsAssumption
  <2> QED
    BY <2>1, <2>2, <2>3 DEF TablesTyped, Init, ReqStates
<1>2. Keys
  BY DEF Init, Keys, DeviceKeys, CodeKeys, ChannelKeys, Exists
<1>3. Rows
  BY DEF Init, Rows, Paired, Pair, CodeKept, MetasKept, Exists
<1>4. UploadsInv
  BY DEF Init, UploadsInv, UploadsSound, OneWriter, BootstrapAlone, Holding, Idle
<1>5. Blessings
  BY DEF Init, Blessings, RowsBlessed, SnapsBlessed, SnapsKept, DeviceBlessed, SchemaBlessed,
         Exists
<1> QED
  BY <1>1, <1>2, <1>3, <1>4, <1>5 DEF IInv

-----------------------------------------------------------------------------
(* Types.                                                                  *)

\* The forms of uploads and of imports.
LEMMA FormTyped ==
  ASSUME NEW form \in Uploads \cup Imports
  PROVE  /\ form.user \in Users /\ form.kind \in Kinds
         /\ OrgOf[form.user] \in Orgs
         /\ form.cls \in Classes /\ form.cls.extends \subseteq Kinds
         /\ form.cls.metas \in {c.metas : c \in Classes}
BY UploadsAssumption DEF Orgs, Classes

LEMMA NewRows ==
  ASSUME NEW id \in Ids, NEW owner \in Orgs, NEW dev \in Versions,
         NEW appr \in Versions \cup {None}, NEW cls, cls.extends \subseteq Kinds
  PROVE  /\ DeviceRow(id, owner, dev, appr, cls) \in DeviceRows
         /\ SchemaRow(id, owner, dev, appr) \in SchemaRows
BY DEF DeviceRow, SchemaRow, DeviceRows, SchemaRows, GetCategory

\* Rows are not null.
LEMMA RowsExist ==
  /\ \A d \in DeviceRows : Exists(d)
  /\ \A s \in SchemaRows : Exists(s)
  /\ \A v \in Versions : Exists(v)
BY NoneAssumption DEF Exists

\* An upload that read or wrote is a record of its form and its old rows.
LEMMA UploadTyped ==
  ASSUME TablesTyped, NEW r \in Reqs
  PROVE  /\ req[r].pc \in {"read", "stored"} =>
              /\ req[r].form \in Uploads
              /\ req[r].old \in DeviceRows \cup {None}
              /\ req[r].oldSchema \in SchemaRows \cup {None}
         /\ req[r].pc = "stored" => req[r].pkg \in Packages \cup {None}
         /\ req[r].pc \in {"idle", "read", "stored", "committed"}
         /\ req[r].pc = "idle" => req[r] = Idle
BY DEF TablesTyped, ReqStates, Idle

-----------------------------------------------------------------------------
(* Writing the rows of a device: what the commit of an upload and an       *)
(* import have in common.                                                  *)

NewCode(d, cls, pkg) == [id |-> d.id, ver |-> d.dev, cls |-> cls, pkg |-> pkg]
NewChannel(s, cls) == [id |-> s.id, ver |-> s.dev, metas |-> cls.metas]

\* A new device, with a new id.
Fresh(k, d, s) ==
  /\ ~Exists(device[k]) /\ d.id = nextId /\ nextId' = nextId + 1
  /\ d.dev = 0 /\ s.dev = 0
  /\ Exists(s.appr) => s.appr = 0
\* A new version of a device.
Bump(k, d, s) ==
  /\ Exists(device[k]) /\ d.id = device[k].id /\ nextId' = nextId
  /\ d.dev = device[k].dev + 1 /\ d.owner = device[k].owner
  /\ s.dev \in {schema[k].dev, schema[k].dev + 1}
  /\ Exists(s.appr) => s.appr \in {s.dev, schema[k].appr}
  /\ ~HasCode(d.id, d.dev)
\* The channels of the new code are new, or those of the newest version.
ChannelsWritten(k, s, cls) ==
  \/ /\ Exists(schema[k]) /\ s.dev = schema[k].dev
     /\ cls.metas \in MetasAt(s.id, s.dev)
     /\ channels' = channels
  \/ /\ ~Exists(schema[k]) \/ s.dev = schema[k].dev + 1
     /\ channels' = channels \cup {NewChannel(s, cls)}
Written(k, d, s, cls, pkg) ==
  /\ device' = [device EXCEPT ![k] = d]
  /\ schema' = [schema EXCEPT ![k] = s]
  /\ code' = code \cup {NewCode(d, cls, pkg)}
  /\ Pair(d, s)
  /\ Fresh(k, d, s) \/ Bump(k, d, s)
  /\ ChannelsWritten(k, s, cls)
  /\ pkg # None => zips'[k][d.dev] = pkg
  /\ \A j \in Kinds, v \in Versions : j # k \/ Exists(device[k]) => zips'[j][v] = zips[j][v]
  /\ snaps' = snaps /\ blessed \subseteq blessed'
  /\ Exists(d.appr) => <<"device", d.id, d.appr>> \in blessed'
  /\ Exists(s.appr) => <<"schema", s.id, s.appr>> \in blessed'

\* Every id and every key is new.
LEMMA WrittenKeys ==
  ASSUME TablesTyped, Keys, Rows, NEW k \in Kinds, NEW d \in DeviceRows,
         NEW s \in SchemaRows, NEW cls \in Classes, NEW pkg, Written(k, d, s, cls, pkg)
  PROVE  Keys'
<1> USE RowsExist
<1>1. DeviceKeys'
  <2>1. nextId \in Nat /\ nextId' \in {nextId, nextId + 1} /\ d.id < nextId'
    BY DEF TablesTyped, Written, Fresh, Bump, Keys, DeviceKeys, Ids
  <2>2. \A j \in Kinds : Exists(device[j]) /\ device[j].id = d.id => j = k
    BY DEF TablesTyped, Written, Fresh, Bump, Keys, DeviceKeys, Ids
  <2>3. device'[k] = d /\ \A j \in Kinds \ {k} : device'[j] = device[j]
    BY DEF TablesTyped, Written
  <2>4. \A j \in Kinds : Exists(device[j]) => device[j].id \in Nat
    BY DEF TablesTyped, DeviceRows, Ids, Exists
  <2> QED
    BY <2>1, <2>2, <2>3, <2>4 DEF DeviceKeys, Keys, Exists
<1>2. CodeKeys'
  <2>1. \A c \in code : c.id \in Nat /\ c.id < nextId /\ ~(c.id = d.id /\ c.ver = d.dev)
    BY DEF TablesTyped, Written, Fresh, Bump, Keys, CodeKeys, CodeRows, Ids, HasCode
  <2>2. nextId \in Nat /\ nextId' \in {nextId, nextId + 1} /\ d.id < nextId'
    BY DEF TablesTyped, Written, Fresh, Bump, Keys, DeviceKeys, Ids
  <2>3. NewCode(d, cls, pkg).id = d.id /\ NewCode(d, cls, pkg).ver = d.dev
    BY DEF NewCode
  <2> QED
    BY <2>1, <2>2, <2>3 DEF CodeKeys, Keys, Written
<1>3. ChannelKeys'
  <2>1. nextId \in Nat /\ nextId' \in {nextId, nextId + 1} /\ s.id < nextId' /\ s.id = d.id
    BY DEF TablesTyped, Written, Fresh, Bump, Keys, DeviceKeys, Ids, Pair
  <2>2. \A c \in channels : c.id \in Nat /\ c.id < nextId
    BY DEF TablesTyped, Keys, ChannelKeys, ChannelRows, Ids
  <2>3. CASE channels' = channels
    BY <2>1, <2>2, <2>3 DEF Keys, ChannelKeys
  <2>4. CASE channels' = channels \cup {NewChannel(s, cls)}
             /\ (~Exists(schema[k]) \/ s.dev = schema[k].dev + 1)
    <3>1. \A c \in channels : ~(c.id = s.id /\ c.ver = s.dev)
      <4>1. CASE Fresh(k, d, s)
        BY <2>1, <2>2, <4>1 DEF Fresh
      <4>2. CASE Bump(k, d, s)
        <5>1. Exists(device[k]) /\ Exists(schema[k]) /\ schema[k].id = s.id
          BY <4>2, <2>1 DEF Bump, Rows, Paired, Pair
        <5>2. \A m \in channels : m.id = s.id => m.ver <= schema[k].dev
          BY <5>1 DEF Rows, MetasKept
        <5>3. schema[k].dev \in Nat
          BY <5>1 DEF TablesTyped, SchemaRows, Versions, Exists
        <5> QED
          BY <2>4, <5>1, <5>2, <5>3
      <4> QED
        BY <4>1, <4>2 DEF Written
    <3>2. NewChannel(s, cls).id = s.id /\ NewChannel(s, cls).ver = s.dev
      BY DEF NewChannel
    <3> QED
      BY <2>1, <2>2, <2>4, <3>1, <3>2 DEF Keys, ChannelKeys
  <2> QED
    BY <2>3, <2>4 DEF Written, ChannelsWritten
<1> QED
  BY <1>1, <1>2, <1>3 DEF Keys

\* What was there stays there.
LEMMA WrittenGrows ==
  ASSUME NEW k \in Kinds, NEW d, NEW s, NEW cls, NEW pkg, Written(k, d, s, cls, pkg)
  PROVE  /\ \A id, ver : HasCode(id, ver) => HasCode(id, ver)'
         /\ \A id, ver : HasMetas(id, ver) => HasMetas(id, ver)'
         /\ HasCode(d.id, d.dev)' /\ HasMetas(s.id, s.dev)'
<1>1. code \subseteq code' /\ channels \subseteq channels' /\ NewCode(d, cls, pkg) \in code'
  BY DEF Written, ChannelsWritten
<1>2. NewCode(d, cls, pkg).id = d.id /\ NewCode(d, cls, pkg).ver = d.dev
  BY DEF NewCode
<1>3. NewChannel(s, cls).id = s.id /\ NewChannel(s, cls).ver = s.dev
  BY DEF NewChannel
<1>4. HasMetas(s.id, s.dev)'
  BY <1>3 DEF Written, ChannelsWritten, HasMetas, MetasAt
<1> QED
  BY <1>1, <1>2, <1>4 DEF HasCode, HasMetas

\* The rows of every kind agree again.
LEMMA WrittenRows ==
  ASSUME TablesTyped, Keys, Rows, NEW k \in Kinds, NEW d \in DeviceRows,
         NEW s \in SchemaRows, NEW cls \in Classes, NEW pkg, Written(k, d, s, cls, pkg)
  PROVE  Rows'
<1> USE RowsExist
<1>1. /\ device'[k] = d /\ schema'[k] = s
      /\ \A j \in Kinds \ {k} : device'[j] = device[j] /\ schema'[j] = schema[j]
  BY DEF TablesTyped, Written
<1>2. /\ \A j \in Kinds : Exists(device[j]) => device[j] \in DeviceRows /\ schema[j] \in SchemaRows
      /\ \A j \in Kinds : Exists(device[j]) => /\ device[j].id = schema[j].id
                                               /\ device[j].dev \in Nat /\ schema[j].dev \in Nat
      /\ d.dev \in Nat /\ s.dev \in Nat /\ s.id = d.id
  BY DEF TablesTyped, Rows, Paired, Pair, Written, Exists, DeviceRows, SchemaRows, Versions
<1>3. Paired'
  BY <1>1 DEF Rows, Paired, Written, Pair, Exists
<1>4. \A j \in Kinds \ {k} : Exists(device[j]) => device[j].id # d.id
  <2> SUFFICES ASSUME NEW j \in Kinds \ {k}, Exists(device[j]) PROVE device[j].id # d.id
      OBVIOUS
  <2>1. device[j].id < nextId /\ device[j].id \in Nat /\ nextId \in Nat
    BY <1>2 DEF Keys, DeviceKeys, TablesTyped, DeviceRows, Ids
  <2>2. CASE Fresh(k, d, s)
    BY <2>1, <2>2 DEF Fresh
  <2>3. CASE Bump(k, d, s)
    BY <2>3 DEF Bump, Keys, DeviceKeys
  <2> QED
    BY <2>2, <2>3 DEF Written
<1>5. /\ \A c \in code' : c \in code \/ c = NewCode(d, cls, pkg)
      /\ \A m \in channels' : m \in channels \/ m = NewChannel(s, cls)
      /\ code \subseteq code' /\ channels \subseteq channels'
  BY DEF Written, ChannelsWritten
<1>6. /\ NewCode(d, cls, pkg) = [id |-> d.id, ver |-> d.dev, cls |-> cls, pkg |-> pkg]
      /\ NewChannel(s, cls) = [id |-> s.id, ver |-> s.dev, metas |-> cls.metas]
  BY DEF NewCode, NewChannel
<1>7. /\ \A c \in code : c.id \in Nat /\ c.id < nextId /\ c.ver \in Versions
      /\ \A m \in channels : m.id \in Nat /\ m.id < nextId /\ m.ver \in Nat
  BY DEF TablesTyped, Keys, CodeKeys, ChannelKeys, CodeRows, ChannelRows, Ids, Versions
<1>8. CodeKept'
  <2>1. ASSUME NEW j \in Kinds \ {k}, Exists(device[j])
        PROVE  /\ \A v \in 0 .. device[j].dev : HasCode(device[j].id, v)'
               /\ \A c \in code' : c.id = device[j].id /\ IsDownloadable(c.cls) /\ c.pkg # None =>
                    zips'[j][c.ver] = c.pkg
    <3>1. \A v \in 0 .. device[j].dev : HasCode(device[j].id, v)
      BY <2>1 DEF Rows, CodeKept
    <3>2. \A c \in code' : c.id = device[j].id => c \in code
      BY <1>4, <1>5, <1>6, <2>1
    <3>3. \A c \in code : zips'[j][c.ver] = zips[j][c.ver]
      BY <1>7 DEF Written
    <3> QED
      BY <1>1, <2>1, <3>1, <3>2, <3>3, WrittenGrows DEF Rows, CodeKept
  <2>2. \A v \in 0 .. d.dev : HasCode(d.id, v)'
    <3>1. HasCode(d.id, d.dev)'
      BY WrittenGrows
    <3>2. CASE Fresh(k, d, s)
      BY <1>2, <3>1, <3>2 DEF Fresh
    <3>3. CASE Bump(k, d, s)
      <4>1. \A v \in 0 .. device[k].dev : HasCode(d.id, v)
        BY <3>3 DEF Bump, Rows, CodeKept
      <4>2. \A v \in 0 .. d.dev : v \in 0 .. device[k].dev \/ v = d.dev
        BY <1>2, <3>3 DEF Bump
      <4> QED
        BY <3>1, <4>1, <4>2, WrittenGrows
    <3> QED
      BY <3>2, <3>3 DEF Written
  <2>3. \A c \in code' : c.id = d.id /\ IsDownloadable(c.cls) /\ c.pkg # None =>
          zips'[k][c.ver] = c.pkg
    <3>1. NewCode(d, cls, pkg).pkg # None => zips'[k][NewCode(d, cls, pkg).ver] = NewCode(d, cls, pkg).pkg
      BY <1>6 DEF Written
    <3>2. CASE Fresh(k, d, s)
      <4>1. \A c \in code : c.id # d.id
        BY <1>7, <3>2 DEF Fresh
      <4> QED
        BY <1>5, <3>1, <4>1
    <3>3. CASE Bump(k, d, s)
      <4>1. \A c \in code : zips'[k][c.ver] = zips[k][c.ver]
        BY <1>7, <3>3 DEF Written, Bump
      <4>2. \A c \in code : c.id = d.id /\ IsDownloadable(c.cls) /\ c.pkg # None =>
              zips[k][c.ver] = c.pkg
        BY <3>3 DEF Bump, Rows, CodeKept
      <4> QED
        BY <1>5, <3>1, <4>1, <4>2
    <3> QED
      BY <3>2, <3>3 DEF Written
  <2> QED
    BY <1>1, <2>1, <2>2, <2>3 DEF CodeKept
<1>9. MetasKept'
  <2>1. ASSUME NEW j \in Kinds \ {k}, Exists(device[j])
        PROVE  /\ HasMetas(schema[j].id, schema[j].dev)'
               /\ Exists(schema[j].appr) => HasMetas(schema[j].id, schema[j].appr)'
               /\ \A m \in channels' : m.id = schema[j].id => m.ver <= schema[j].dev
               /\ \A c \in code', m \in channels' :
                    /\ c.id = device[j].id /\ c.ver = device[j].dev
                    /\ m.id = schema[j].id /\ m.ver = schema[j].dev
                    => m.metas = c.cls.metas
    <3>1. schema[j].id # s.id
      BY <1>2, <1>4, <2>1
    <3>2. /\ \A c \in code' : c.id = device[j].id => c \in code
          /\ \A m \in channels' : m.id = schema[j].id => m \in channels
      BY <1>4, <1>5, <1>6, <2>1, <3>1
    <3> QED
      BY <1>1, <2>1, <3>2, WrittenGrows DEF Rows, MetasKept
  <2>2. HasMetas(s.id, s.dev)'
    BY WrittenGrows
  <2>3. Exists(s.appr) => HasMetas(s.id, s.appr)'
    <3>1. CASE Fresh(k, d, s)
      BY <2>2, <3>1 DEF Fresh
    <3>2. CASE Bump(k, d, s)
      BY <1>2, <2>2, <3>2, WrittenGrows DEF Bump, Rows, MetasKept
    <3> QED
      BY <3>1, <3>2 DEF Written
  <2>4. \A m \in channels' : m.id = s.id => m.ver <= s.dev
    <3>1. CASE Fresh(k, d, s)
      BY <1>2, <1>5, <1>6, <1>7, <3>1 DEF Fresh
    <3>2. CASE Bump(k, d, s)
      <4>1. \A m \in channels : m.id = s.id => m.ver <= schema[k].dev
        BY <1>2, <3>2 DEF Bump, Rows, MetasKept
      <4>2. schema[k].dev \in Nat /\ schema[k].dev <= s.dev
        BY <1>2, <3>2 DEF Bump
      <4> QED
        BY <1>2, <1>5, <1>6, <1>7, <4>1, <4>2
    <3> QED
      BY <3>1, <3>2 DEF Written
  <2>5. ASSUME NEW c \in code', NEW m \in channels', c.id = d.id, c.ver = d.dev,
               m.id = s.id, m.ver = s.dev
        PROVE  m.metas = c.cls.metas
    <3>1. /\ NewCode(d, cls, pkg) \in code'
          /\ NewCode(d, cls, pkg).id = d.id /\ NewCode(d, cls, pkg).ver = d.dev
          /\ NewCode(d, cls, pkg).cls = cls
      BY <1>6 DEF Written
    <3>2. Keys'
      BY WrittenKeys
    <3>3. c.cls = cls
      BY <2>5, <3>1, <3>2 DEF Keys, CodeKeys
    <3>4. \E n \in channels' : n.id = s.id /\ n.ver = s.dev /\ n.metas = cls.metas
      BY <1>6 DEF Written, ChannelsWritten, MetasAt
    <3>5. m.metas = cls.metas
      BY <2>5, <3>2, <3>4 DEF Keys, ChannelKeys
    <3> QED
      BY <3>3, <3>5
  <2> QED
    BY <1>1, <2>1, <2>2, <2>3, <2>4, <2>5 DEF MetasKept
<1> QED
  BY <1>3, <1>8, <1>9 DEF Rows

\* Snapshots keep what they point to, and approvals are recorded.
LEMMA WrittenBlessings ==
  ASSUME TablesTyped, Blessings, NEW k \in Kinds, NEW d, NEW s, NEW cls, NEW pkg,
         Written(k, d, s, cls, pkg)
  PROVE  Blessings'
<1>1. /\ device'[k] = d /\ schema'[k] = s
      /\ \A j \in Kinds \ {k} : device'[j] = device[j] /\ schema'[j] = schema[j]
  BY DEF TablesTyped, Written
<1>2. RowsBlessed'
  BY <1>1 DEF Written, Blessings, RowsBlessed, DeviceBlessed, SchemaBlessed
<1>3. SnapsBlessed'
  BY DEF Written, Blessings, SnapsBlessed, SchemaBlessed
<1>4. SnapsKept'
  BY WrittenGrows DEF Written, Blessings, SnapsKept
<1> QED
  BY <1>2, <1>3, <1>4 DEF Blessings

-----------------------------------------------------------------------------
(* The commit of an upload and an import write the rows of a device.       *)

\* A stored upload and what is there when it commits.
LEMMA StoredFacts ==
  ASSUME TablesTyped, Rows, UploadsInv, NEW r \in Reqs, req[r].pc = "stored",
         NEW q, q = req[r], NEW k, k = q.form.kind
  PROVE  /\ k \in Kinds /\ q.form \in Uploads \cup Imports
         /\ q.form \in Uploads
         /\ Exists(q.old) => /\ q.old \in DeviceRows /\ q.oldSchema \in SchemaRows
                             /\ device[k] \in DeviceRows /\ schema[k] \in SchemaRows
                             /\ device[k].id = q.old.id /\ device[k].dev = q.old.dev
                             /\ device[k].owner = q.old.owner
                             /\ schema[k].dev = q.oldSchema.dev
                             /\ schema[k].id = q.old.id /\ q.oldSchema.id = q.old.id
                             /\ schema[k].owner = q.old.owner
                             /\ schema[k].dev <= device[k].dev
                             /\ Exists(q.old.appr) => q.old.appr <= q.old.dev
                             /\ Exists(schema[k].appr) => schema[k].appr <= schema[k].dev
                             /\ Exists(device[k]) /\ Exists(schema[k]) /\ Exists(q.oldSchema)
                             /\ ~HasCode(q.old.id, q.old.dev + 1)
                             /\ Exists(q.old.appr) => <<"device", q.old.id, q.old.appr>> \in blessed
         /\ ~Exists(q.old) => ~Exists(device[k]) /\ ~Exists(schema[k]) /\ ~Exists(q.oldSchema)
         /\ NewVersion(q) \in Versions
         /\ q.pkg # None => zips[k][NewVersion(q)] = q.pkg
<1>1. q.form \in Uploads /\ k \in Kinds
  BY UploadTyped, FormTyped
<1>2. ReadsOld(q) /\ WroteNew(q)
  BY DEF UploadsInv, UploadsSound
<1>3. /\ q.old \in DeviceRows \cup {None} /\ q.oldSchema \in SchemaRows \cup {None}
      /\ device[k] \in DeviceRows \cup {None} /\ schema[k] \in SchemaRows \cup {None}
  BY <1>1, UploadTyped DEF TablesTyped
<1>4. Pair(device[k], schema[k])
  BY <1>1 DEF Rows, Paired
<1>5. ASSUME Exists(q.old)
      PROVE  /\ q.old \in DeviceRows /\ q.oldSchema \in SchemaRows
             /\ device[k] \in DeviceRows /\ schema[k] \in SchemaRows
             /\ device[k].id = q.old.id /\ device[k].dev = q.old.dev
             /\ device[k].owner = q.old.owner
             /\ schema[k].dev = q.oldSchema.dev
             /\ schema[k].id = q.old.id /\ q.oldSchema.id = q.old.id
             /\ schema[k].owner = q.old.owner
             /\ schema[k].dev <= device[k].dev
             /\ Exists(q.old.appr) => q.old.appr <= q.old.dev
             /\ Exists(schema[k].appr) => schema[k].appr <= schema[k].dev
             /\ Exists(device[k]) /\ Exists(schema[k]) /\ Exists(q.oldSchema)
             /\ ~HasCode(q.old.id, q.old.dev + 1)
             /\ Exists(q.old.appr) => <<"device", q.old.id, q.old.appr>> \in blessed
  <2>1. Exists(device[k]) /\ device[k].id = q.old.id /\ device[k].dev = q.old.dev
        /\ ~HasCode(q.old.id, q.old.dev + 1)
    BY <1>2, <1>5 DEF WroteNew
  <2>2. device[k].owner = q.old.owner /\ schema[k].dev = q.oldSchema.dev
        /\ (Exists(q.old.appr) => <<"device", q.old.id, q.old.appr>> \in blessed)
    BY <1>2, <1>5, <2>1 DEF ReadsOld
  <2>3. Exists(schema[k]) /\ Exists(q.oldSchema) /\ Pair(q.old, q.oldSchema)
    BY <1>2, <1>4, <1>5, <2>1 DEF ReadsOld, Pair
  <2> QED
    BY <1>3, <1>4, <1>5, <2>1, <2>2, <2>3 DEF Pair, Exists
<1>6. ~Exists(q.old) => ~Exists(device[k]) /\ ~Exists(schema[k]) /\ ~Exists(q.oldSchema)
  BY <1>2, <1>4 DEF WroteNew, ReadsOld, Pair
<1>7. NewVersion(q) \in Versions
  <2>1. NewVersion(q) <= MaxVersion
    BY <1>2 DEF WroteNew
  <2> QED
    BY <1>3, <2>1, BoundsAssumption DEF NewVersion, Versions, DeviceRows, Exists
<1>8. q.pkg # None => zips[k][NewVersion(q)] = q.pkg
  BY <1>2 DEF WroteNew
<1> QED
  BY <1>1, <1>5, <1>6, <1>7, <1>8

LEMMA CommitWrites ==
  ASSUME TablesTyped, Rows, UploadsInv, Blessings, NEW r \in Reqs, UploadCommit(r),
         NEW q, q = req[r], NEW k, k = q.form.kind
  PROVE  /\ k \in Kinds /\ q.form.cls \in Classes
         /\ NewDevice(q) \in DeviceRows /\ EnsurePrimarySchema(q) \in SchemaRows
         /\ Written(k, NewDevice(q), EnsurePrimarySchema(q), q.form.cls, q.pkg)
<1> DEFINE d == NewDevice(q)
           s == EnsurePrimarySchema(q)
           f == q.form
<1> USE RowsExist
<1>0. req[r].pc = "stored"
  BY DEF UploadCommit
<1>1. /\ k \in Kinds /\ f \in Uploads \cup Imports
      /\ Exists(q.old) => /\ q.old \in DeviceRows /\ q.oldSchema \in SchemaRows
                          /\ device[k] \in DeviceRows /\ schema[k] \in SchemaRows
                          /\ device[k].id = q.old.id /\ device[k].dev = q.old.dev
                          /\ device[k].owner = q.old.owner
                          /\ schema[k].dev = q.oldSchema.dev
                          /\ schema[k].id = q.old.id /\ q.oldSchema.id = q.old.id
                          /\ schema[k].owner = q.old.owner
                          /\ schema[k].dev <= device[k].dev
                          /\ Exists(q.old.appr) => q.old.appr <= q.old.dev
                          /\ Exists(schema[k].appr) => schema[k].appr <= schema[k].dev
                          /\ Exists(device[k]) /\ Exists(schema[k]) /\ Exists(q.oldSchema)
                          /\ ~HasCode(q.old.id, q.old.dev + 1)
                          /\ Exists(q.old.appr) => <<"device", q.old.id, q.old.appr>> \in blessed
      /\ ~Exists(q.old) => ~Exists(device[k]) /\ ~Exists(schema[k]) /\ ~Exists(q.oldSchema)
      /\ NewVersion(q) \in Versions
      /\ q.pkg # None => zips[k][NewVersion(q)] = q.pkg
  BY <1>0, StoredFacts
<1>2. f.cls \in Classes /\ OrgOf[f.user] \in Orgs /\ f.cls.extends \subseteq Kinds
  BY <1>1, FormTyped
<1>3. /\ d.id = (IF Exists(q.old) THEN q.old.id ELSE nextId)
      /\ d.owner = (IF Exists(q.old) THEN q.old.owner ELSE OrgOf[f.user])
      /\ d.dev = NewVersion(q)
      /\ d.appr = (IF Approves(f) THEN NewVersion(q) ELSE IF Exists(q.old) THEN q.old.appr ELSE None)
  BY DEF NewDevice, DeviceRow
<1>4. d.id \in Ids
  <2>1. nextId \in Nat /\ nextId >= 1 /\ d.id <= MaxId /\ MaxId \in Nat
    BY BoundsAssumption DEF TablesTyped, UploadCommit
  <2> QED
    BY <1>1, <1>3, <2>1 DEF Ids, DeviceRows
<1>5. d \in DeviceRows
  <2>1. d.owner \in Orgs /\ d.dev \in Versions /\ d.appr \in Versions \cup {None}
    BY <1>1, <1>2, <1>3 DEF DeviceRows
  <2>2. d = DeviceRow(d.id, d.owner, d.dev, d.appr, f.cls)
    BY DEF NewDevice, DeviceRow
  <2> QED
    BY <1>2, <1>4, <2>1, <2>2, NewRows
<1>6. CASE ~Exists(q.old)
  <2>1. d.id = nextId /\ d.dev = 0 /\ d.owner = OrgOf[f.user]
        /\ d.appr = IF Approves(f) THEN 0 ELSE None
    BY <1>3, <1>6 DEF NewVersion
  <2>2. s = SchemaRow(nextId, OrgOf[f.user], 0, IF Approves(f) THEN 0 ELSE None)
    BY <1>1, <1>6 DEF EnsurePrimarySchema
  <2>3. 0 \in Versions /\ 0 <= 0
    BY BoundsAssumption DEF Versions
  <2>4. s \in SchemaRows
    BY <1>2, <1>4, <2>1, <2>2, <2>3 DEF SchemaRow, SchemaRows
  <2>5. s.id = nextId /\ s.owner = d.owner /\ s.dev = 0 /\ s.appr = d.appr
    BY <2>1, <2>2 DEF SchemaRow
  <2>6. Pair(d, s)
    BY <1>5, <2>1, <2>3, <2>4, <2>5 DEF Pair, Exists
  <2>7. Fresh(k, d, s)
    BY <1>1, <1>6, <2>1, <2>5 DEF Fresh, UploadCommit, Exists
  <2>8. ChannelsWritten(k, s, f.cls)
    BY <1>1, <1>6 DEF ChannelsWritten, UploadCommit, SchemaChanged, NewChannel
  <2>9. Exists(d.appr) => Approves(f)
    BY <2>1 DEF Exists
  <2>10. blessed \subseteq blessed' /\ (Exists(d.appr) =>
           <<"device", d.id, d.dev>> \in blessed' /\ <<"schema", s.id, s.dev>> \in blessed')
    BY <2>9 DEF UploadCommit, Approves
  <2>11. Exists(d.appr) => d.appr = d.dev /\ s.appr = s.dev
    BY <2>1, <2>5 DEF Exists
  <2>12. Written(k, d, s, f.cls, q.pkg)
    BY <1>1, <1>3, <2>5, <2>6, <2>7, <2>8, <2>10, <2>11 DEF Written, UploadCommit, NewCode
  <2> QED
    BY <1>1, <1>2, <1>5, <2>4, <2>12
<1>7. CASE Exists(q.old)
  <2> DEFINE cur == schema[k]
  <2>1. /\ d.id = q.old.id /\ d.dev = q.old.dev + 1 /\ d.owner = q.old.owner
        /\ d.appr = IF Approves(f) THEN d.dev ELSE q.old.appr
        /\ d.dev \in Versions /\ q.old.dev \in Nat /\ cur.dev \in Nat /\ cur.dev \in Versions
        /\ cur.dev + 1 \in Versions
    <3>1. q.old.dev \in Nat /\ cur.dev \in Nat /\ cur.dev <= q.old.dev
      BY <1>1, <1>7 DEF DeviceRows, SchemaRows, Versions
    <3>2. NewVersion(q) = q.old.dev + 1
      BY <1>7 DEF NewVersion
    <3>3. q.old.dev + 1 \in Versions
      BY <1>1, <3>2
    <3>4. cur.dev \in Versions /\ cur.dev + 1 \in Versions
      BY <3>1, <3>3, BoundsAssumption DEF Versions
    <3> HIDE DEF d
    <3> QED
      BY <1>3, <1>7, <3>1, <3>2, <3>3, <3>4
  <2>2. /\ s \in SchemaRows
        /\ s.id = cur.id /\ s.owner = cur.owner
        /\ s.dev = IF MetaIdentical(q) THEN cur.dev ELSE cur.dev + 1
        /\ s.appr = IF MetaIdentical(q)
                    THEN IF q.oldSchema.appr = None /\ Approves(f) THEN s.dev ELSE cur.appr
                    ELSE IF Approves(f) THEN s.dev ELSE cur.appr
    <3>1. cur \in SchemaRows /\ q.oldSchema.dev = cur.dev
      BY <1>1, <1>7
    <3>2. s = IF MetaIdentical(q)
              THEN [cur EXCEPT !.appr = IF q.oldSchema.appr = None /\ Approves(f)
                                        THEN cur.dev ELSE cur.appr]
              ELSE [cur EXCEPT !.dev = cur.dev + 1,
                               !.appr = IF Approves(f) THEN cur.dev + 1 ELSE cur.appr]
      BY <1>1, <1>7, <3>1 DEF EnsurePrimarySchema
    <3> HIDE DEF s
    <3> QED
      BY <2>1, <3>1, <3>2 DEF SchemaRows
  <2> HIDE DEF s, d
  <2>3. Pair(d, s)
    <3>1. s.id = d.id /\ s.owner = d.owner /\ s.dev <= d.dev
      BY <1>1, <1>7, <2>1, <2>2
    <3>2. Exists(d.appr) => d.appr <= d.dev
      <4>1. Exists(q.old.appr) => q.old.appr \in Nat /\ q.old.appr <= q.old.dev
        BY <1>1, <1>7 DEF DeviceRows, Versions, Exists
      <4> QED
        BY <2>1, <4>1 DEF Versions, Exists
    <3>3. Exists(s.appr) => s.appr <= s.dev
      <4>1. Exists(cur.appr) => cur.appr \in Nat /\ cur.appr <= cur.dev
        BY <1>1, <1>7 DEF SchemaRows, Versions, Exists
      <4> QED
        BY <2>1, <2>2, <4>1 DEF Versions, Exists
    <3> QED
      BY <1>5, <2>2, <3>1, <3>2, <3>3 DEF Pair
  <2>4. Bump(k, d, s)
    BY <1>1, <1>7, <2>1, <2>2 DEF Bump, UploadCommit
  <2>5. ChannelsWritten(k, s, f.cls)
    <3>1. MetaIdentical(q) <=> f.cls.metas \in MetasAt(cur.id, cur.dev)
      BY <1>1, <1>7 DEF MetaIdentical
    <3>2. SchemaChanged(q) <=> ~MetaIdentical(q)
      BY <1>1, <1>7 DEF SchemaChanged
    <3>3. channels' = IF SchemaChanged(q)
                      THEN channels \cup {NewChannel(s, f.cls)} ELSE channels
      BY DEF UploadCommit, NewChannel, s
    <3> QED
      BY <1>1, <1>7, <2>2, <3>1, <3>2, <3>3 DEF ChannelsWritten
  <2>6. blessed \subseteq blessed' /\ (Approves(f) =>
           <<"device", d.id, d.dev>> \in blessed' /\ <<"schema", s.id, s.dev>> \in blessed')
    BY DEF UploadCommit, Approves, s, d
  <2>7. Exists(d.appr) => <<"device", d.id, d.appr>> \in blessed'
    BY <1>1, <1>7, <2>1, <2>6
  <2>8. Exists(s.appr) => <<"schema", s.id, s.appr>> \in blessed'
    <3>1. Exists(cur.appr) => <<"schema", s.id, cur.appr>> \in blessed
      BY <1>1, <1>7, <2>2 DEF Blessings, RowsBlessed, SchemaBlessed
    <3> QED
      BY <2>2, <2>6, <3>1
  <2>9. /\ device' = [device EXCEPT ![k] = d] /\ schema' = [schema EXCEPT ![k] = s]
        /\ code' = code \cup {NewCode(d, f.cls, q.pkg)} /\ snaps' = snaps /\ zips' = zips
    BY DEF UploadCommit, s, d, NewCode
  <2>10. q.pkg # None => zips'[k][d.dev] = q.pkg
    BY <1>1, <1>7, <2>1, <2>9 DEF NewVersion
  <2>11. Written(k, d, s, f.cls, q.pkg)
    BY <2>3, <2>4, <2>5, <2>6, <2>7, <2>8, <2>9, <2>10 DEF Written
  <2> QED
    BY <1>1, <1>2, <1>5, <2>2, <2>11 DEF d, s
<1> QED
  BY <1>6, <1>7

LEMMA ImportWrites ==
  ASSUME TablesTyped, Rows, Blessings, NEW form \in Imports, ImportDevice(form),
         NEW k, k = form.kind, NEW appr, appr = IF form.approve THEN 0 ELSE None,
         NEW d, d = DeviceRow(nextId, OrgOf[form.user], 0, appr, form.cls),
         NEW s, s = SchemaRow(nextId, OrgOf[form.user], 0, appr)
  PROVE  /\ k \in Kinds /\ form.cls \in Classes /\ d \in DeviceRows /\ s \in SchemaRows
         /\ \E pkg \in Packages \cup {None} : Written(k, d, s, form.cls, pkg)
<1> USE RowsExist
<1>1. /\ k \in Kinds /\ form.cls \in Classes /\ OrgOf[form.user] \in Orgs
      /\ form.cls.extends \subseteq Kinds
  BY FormTyped
<1>2. 0 \in Versions /\ nextId \in Ids
  BY BoundsAssumption DEF Versions, Ids, TablesTyped, ImportDevice
<1>3. d \in DeviceRows /\ s \in SchemaRows
  BY <1>1, <1>2, NewRows
<1>4. /\ d.id = nextId /\ d.dev = 0 /\ d.appr = appr /\ d.owner = OrgOf[form.user]
      /\ s.id = nextId /\ s.dev = 0 /\ s.appr = appr /\ s.owner = OrgOf[form.user]
  BY DEF DeviceRow, SchemaRow
<1> DEFINE stores == IsDownloadable(form.cls) /\ form.zip
           file == <<k, 0, form.cls>>
           pkg == IF stores THEN file ELSE None
<1>5. pkg \in Packages \cup {None} /\ (stores => file \in Packages)
  BY <1>1, <1>2 DEF Packages
<1>6. Pair(d, s) /\ Fresh(k, d, s)
  <2>1. Exists(d) /\ Exists(s) /\ (Exists(appr) => appr = 0)
    BY <1>3 DEF Exists
  <2> QED
    BY <1>4, <2>1 DEF Pair, Fresh, ImportDevice
<1>7. ChannelsWritten(k, s, form.cls)
  BY <1>4 DEF ChannelsWritten, ImportDevice, NewChannel
<1>8. /\ pkg # None => zips'[k][0] = pkg
      /\ \A j \in Kinds, v \in Versions : j # k => zips'[j][v] = zips[j][v]
  <2>1. zips' = IF stores THEN [zips EXCEPT ![k][0] = file] ELSE zips
    BY DEF ImportDevice
  <2>2. zips \in [Kinds -> [Versions -> Packages \cup {None}]]
    BY DEF TablesTyped
  <2> HIDE DEF stores, file
  <2> QED
    BY <1>1, <1>2, <2>1, <2>2
<1>9. /\ device' = [device EXCEPT ![k] = d] /\ schema' = [schema EXCEPT ![k] = s]
      /\ code' = code \cup {NewCode(d, form.cls, pkg)} /\ snaps' = snaps
      /\ blessed \subseteq blessed'
  BY <1>4 DEF ImportDevice, NewCode
<1>10. /\ Exists(d.appr) => <<"device", d.id, d.appr>> \in blessed'
       /\ Exists(s.appr) => <<"schema", s.id, s.appr>> \in blessed'
  BY <1>4 DEF ImportDevice, Exists
<1>11. ~Exists(device[k])
  BY DEF ImportDevice
<1> HIDE DEF pkg
<1>12. Written(k, d, s, form.cls, pkg)
  BY <1>4, <1>6, <1>7, <1>8, <1>9, <1>10, <1>11 DEF Written
<1> QED
  BY <1>1, <1>3, <1>5, <1>12

-----------------------------------------------------------------------------
(* What a step must leave alone for the uploads in progress.               *)

\* The rows of a kind only become newer, unless the device is deleted or new.
Later(k) ==
  \/ ~Exists(device'[k])
  \/ device'[k].id >= nextId
  \/ /\ Exists(device[k]) /\ device'[k].id = device[k].id
     /\ device'[k].owner = device[k].owner
     /\ \/ device'[k].dev = device[k].dev /\ schema'[k].dev = schema[k].dev
        \/ device'[k].dev > device[k].dev
\* Nothing happens to the device and its files but approvals.
Untouched(k) ==
  /\ Exists(device'[k]) <=> Exists(device[k])
  /\ Exists(device[k]) => device'[k].id = device[k].id /\ device'[k].dev = device[k].dev
  /\ zips'[k] = zips[k]

LEMMA ReadsOldKept ==
  ASSUME NEW q, NEW k \in Kinds, k = q.form.kind, q.old \in DeviceRows \cup {None},
         device \in [Kinds -> DeviceRows \cup {None}],
         device' \in [Kinds -> DeviceRows \cup {None}],
         nextId \in Nat, nextId' \in Nat, nextId <= nextId',
         blessed \subseteq blessed', Later(k), ReadsOld(q)
  PROVE  ReadsOld(q)'
<1>1. CASE ~Exists(q.old)
  BY <1>1 DEF ReadsOld
<1>2. CASE Exists(q.old)
  <2>1. /\ q.old.id \in Nat /\ q.old.dev \in Nat /\ q.old.id < nextId'
        /\ Exists(device[k]) => device[k].dev \in Nat
        /\ Exists(device'[k]) => device'[k].dev \in Nat
    BY <1>2 DEF ReadsOld, DeviceRows, Ids, Versions, Exists
  <2>2. Exists(q.old.appr) => <<"device", q.old.id, q.old.appr>> \in blessed'
    BY <1>2 DEF ReadsOld
  <2>3. ASSUME Exists(device'[k]), device'[k].id = q.old.id
        PROVE  /\ device'[k].owner = q.old.owner
               /\ q.old.dev <= device'[k].dev
               /\ q.old.dev = device'[k].dev => schema'[k].dev = q.oldSchema.dev
    <3>1. q.old.id < nextId
      BY <1>2 DEF ReadsOld
    <3>2. /\ Exists(device[k]) /\ device[k].id = q.old.id
          /\ device'[k].owner = device[k].owner
          /\ \/ device'[k].dev = device[k].dev /\ schema'[k].dev = schema[k].dev
             \/ device'[k].dev > device[k].dev
      BY <2>1, <2>3, <3>1 DEF Later
    <3>3. /\ device[k].owner = q.old.owner /\ q.old.dev <= device[k].dev
          /\ q.old.dev = device[k].dev => schema[k].dev = q.oldSchema.dev
      BY <1>2, <3>2 DEF ReadsOld
    <3> QED
      BY <2>1, <2>3, <3>2, <3>3
  <2>4. Pair(q.old, q.oldSchema)
    BY DEF ReadsOld
  <2> QED
    BY <2>1, <2>2, <2>3, <2>4 DEF ReadsOld
<1> QED
  BY <1>1, <1>2

LEMMA UploadsKept ==
  ASSUME TablesTyped, TablesTyped', UploadsInv,
         \A r \in Reqs : req'[r] = req[r] \/ req'[r].pc \in {"idle", "committed"},
         nextId <= nextId', blessed \subseteq blessed',
         \A k \in Kinds : Later(k),
         \A r \in Reqs : Holding(r) /\ req'[r] = req[r] =>
            /\ Untouched(req[r].form.kind)
            /\ \A c \in code' : Exists(req[r].old) /\ c.id = req[r].old.id => c \in code
  PROVE  UploadsSound' /\ OneWriter'
<1>1. ASSUME NEW r \in Reqs, req'[r].pc \in {"read", "stored"}
      PROVE  /\ ReadsOld(req[r])' /\ req'[r] = req[r]
             /\ req'[r].pc = "stored" => WroteNew(req[r])'
  <2>1. req'[r] = req[r]
    BY <1>1
  <2> DEFINE q == req[r]
             k == q.form.kind
  <2>2. k \in Kinds /\ q.old \in DeviceRows \cup {None}
    BY <1>1, <2>1, UploadTyped, FormTyped
  <2>3. ReadsOld(q)
    BY <1>1, <2>1 DEF UploadsInv, UploadsSound
  <2>4. \A p : p = q => ReadsOld(p)'
    <3> SUFFICES ASSUME NEW p, p = q PROVE ReadsOld(p)'
        OBVIOUS
    <3>1. /\ k = p.form.kind /\ p.old \in DeviceRows \cup {None} /\ ReadsOld(p)
          /\ nextId \in Nat /\ nextId' \in Nat /\ Later(k)
          /\ device \in [Kinds -> DeviceRows \cup {None}]
          /\ device' \in [Kinds -> DeviceRows \cup {None}]
      BY <2>2, <2>3 DEF TablesTyped
    <3> HIDE DEF q, k
    <3> QED
      BY <2>2, <3>1, ReadsOldKept
  <2>5. ASSUME req'[r].pc = "stored" PROVE \A p : p = q => WroteNew(p)'
    <3>1. WroteNew(q) /\ Untouched(k)
          /\ \A c \in code' : Exists(q.old) /\ c.id = q.old.id => c \in code
      BY <2>1, <2>5 DEF UploadsInv, UploadsSound, Holding
    <3> HIDE DEF q
    <3> QED
      BY <3>1 DEF WroteNew, Untouched, HasCode, NewVersion
  <2>6. ReadsOld(req[r])'
    BY <2>1, <2>4
  <2>7. req'[r].pc = "stored" => WroteNew(req[r])'
    BY <2>1, <2>5
  <2> QED
    BY <2>1, <2>6, <2>7
<1>2. UploadsSound'
  BY <1>1 DEF UploadsSound
<1>3. OneWriter'
  BY <1>1 DEF OneWriter, UploadsInv, Holding
<1> QED
  BY <1>2, <1>3

-----------------------------------------------------------------------------
(* The steps of an upload.                                                 *)

LEMMA BeginStep ==
  ASSUME IInv, NEW r \in Reqs, NEW form \in Uploads, UploadBegin(r, form)
  PROVE  IInv'
<1> USE DEF IInv
<1> DEFINE k == form.kind
           q == [pc |-> "read", form |-> form, old |-> device[k], oldSchema |-> schema[k]]
<1>1. k \in Kinds
  BY FormTyped
<1>2. q \in ReqStates
  BY <1>1 DEF ReqStates, TablesTyped
<1>3. req' = [req EXCEPT ![r] = q]
  BY DEF UploadBegin
<1>4. UNCHANGED <<device, code, schema, channels, canonicals, entities, snaps, zips,
                  booted, nextId, blessed>>
  BY DEF UploadBegin
<1>5. TablesTyped'
  <2> HIDE DEF q
  <2> QED
    BY <1>2, <1>3, <1>4 DEF TablesTyped
<1>6. Keys' /\ Rows'
  BY <1>4 DEF Keys, DeviceKeys, CodeKeys, ChannelKeys, Rows, Paired, CodeKept, MetasKept,
              HasCode, HasMetas
<1>7. Blessings'
  BY <1>4 DEF Blessings, RowsBlessed, SnapsBlessed, SnapsKept, SchemaBlessed, DeviceBlessed,
              HasMetas
<1>8. /\ q.pc = "read" /\ q.form = form /\ q.old = device[k] /\ q.oldSchema = schema[k]
      /\ req'[r] = q /\ \A p \in Reqs \ {r} : req'[p] = req[p]
  BY <1>3 DEF TablesTyped
<1>9. \A p : p = q => ReadsOld(p)
  <2> SUFFICES ASSUME NEW p, p = q PROVE ReadsOld(p)
      OBVIOUS
  <2>1. Pair(device[k], schema[k]) /\ DeviceBlessed(device[k])
        /\ (Exists(device[k]) => device[k].id < nextId /\ device[k].dev \in Nat)
    BY <1>1 DEF Rows, Paired, Blessings, RowsBlessed, Keys, DeviceKeys, TablesTyped, DeviceRows,
                Versions, Exists
  <2> QED
    BY <1>8, <2>1 DEF ReadsOld, DeviceBlessed
<1>10. \A p : (ReadsOld(p) => ReadsOld(p)') /\ (WroteNew(p) => WroteNew(p)')
  BY <1>4 DEF ReadsOld, WroteNew, HasCode, NewVersion
<1>11. UploadsSound'
  <2> HIDE DEF q
  <2>1. ASSUME NEW p \in Reqs
        PROVE  /\ req'[p].pc \in {"read", "stored"} => ReadsOld(req[p])'
               /\ req'[p].pc = "stored" => WroteNew(req[p])'
    BY <1>8, <1>9, <1>10 DEF UploadsInv, UploadsSound
  <2> QED
    BY <2>1 DEF UploadsSound
<1>12. OneWriter'
  BY <1>8 DEF UploadsInv, OneWriter, Holding
<1>13. BootstrapAlone'
  BY <1>4 DEF UploadBegin, BootstrapAlone
<1> QED
  BY <1>5, <1>6, <1>7, <1>11, <1>12, <1>13 DEF UploadsInv

LEMMA WriteStep ==
  ASSUME IInv, NEW r \in Reqs, UploadWrite(r)
  PROVE  IInv'
<1> USE DEF IInv
<1> DEFINE q == req[r]
           k == q.form.kind
           ver == NewVersion(q)
           pkg == IF IsDownloadable(q.form.cls) THEN Package(q) ELSE None
           stored == [pc |-> "stored", form |-> q.form, old |-> q.old,
                      oldSchema |-> q.oldSchema, pkg |-> pkg]
           row == [zips[k] EXCEPT ![ver] = pkg]
<1> USE RowsExist
<1>1. q.pc = "read"
  BY DEF UploadWrite
<1>2. /\ k \in Kinds /\ q.form \in Uploads /\ q.form.cls \in Classes
      /\ q.old \in DeviceRows \cup {None} /\ q.oldSchema \in SchemaRows \cup {None}
  BY <1>1, UploadTyped, FormTyped
<1>3. ver \in Versions /\ ver <= MaxVersion
      /\ (Exists(q.old) => q.old.dev \in Nat /\ q.old.dev \in Versions /\ ver = q.old.dev + 1)
  <2>1. Exists(q.old) => q.old.dev \in Nat /\ q.old.dev \in Versions
    BY <1>2 DEF DeviceRows, Versions, Exists
  <2> QED
    BY <2>1, BoundsAssumption DEF NewVersion, UploadWrite, Versions
<1>4. Package(q) \in Packages \cup {None}
  BY <1>2, <1>3 DEF Package, Packages, TablesTyped
<1>5. pkg \in Packages \cup {None}
  BY <1>4
<1>6. zips[k] \in [Versions -> Packages \cup {None}]
  BY <1>2 DEF TablesTyped
<1>7. row \in [Versions -> Packages \cup {None}] /\ row[ver] = pkg
      /\ \A v \in Versions \ {ver} : row[v] = zips[k][v]
  <2> HIDE DEF ver, pkg
  <2> QED
    BY <1>3, <1>5, <1>6
<1>8. zips' = IF pkg = None THEN zips ELSE [zips EXCEPT ![k] = row]
  BY DEF UploadWrite
<1>9. stored \in ReqStates
  <2> HIDE DEF pkg
  <2> QED
    BY <1>2, <1>5 DEF ReqStates
<1>10. req' = [req EXCEPT ![r] = stored]
  BY DEF UploadWrite
<1>11. UNCHANGED <<device, code, schema, channels, canonicals, entities, snaps, booted, nextId,
                   blessed>>
  BY DEF UploadWrite
<1>12. KeysHold(q) /\ ~Locked(k)
  BY DEF UploadWrite
<1>13. /\ stored.pc = "stored" /\ stored.form = q.form /\ stored.old = q.old
       /\ stored.oldSchema = q.oldSchema /\ stored.pkg = pkg
  OBVIOUS
<1> HIDE DEF stored, row, pkg
<1>14. TablesTyped'
  BY <1>2, <1>7, <1>8, <1>9, <1>10, <1>11 DEF TablesTyped
<1>15. /\ \A j \in Kinds \ {k} : zips'[j] = zips[j]
       /\ \A v \in Versions \ {ver} : zips'[k][v] = zips[k][v]
       /\ pkg # None => zips'[k][ver] = pkg
  <2> HIDE DEF ver
  <2> QED
    BY <1>2, <1>3, <1>7, <1>8 DEF TablesTyped
<1>16. req'[r] = stored /\ \A p \in Reqs \ {r} : req'[p] = req[p]
  BY <1>10 DEF TablesTyped
<1>17. ReadsOld(q)
  BY <1>1 DEF UploadsInv, UploadsSound
<1>18. Exists(q.old) => /\ Exists(device[k]) /\ device[k].id = q.old.id
                        /\ device[k].dev = q.old.dev /\ ~HasCode(q.old.id, q.old.dev + 1)
  <2> SUFFICES ASSUME Exists(q.old)
               PROVE  /\ Exists(device[k]) /\ device[k].id = q.old.id
                      /\ device[k].dev = q.old.dev /\ ~HasCode(q.old.id, q.old.dev + 1)
      OBVIOUS
  <2>1. Exists(device[k]) /\ device[k].id = q.old.id /\ ~HasCode(q.old.id, q.old.dev + 1)
    BY <1>3, <1>12 DEF KeysHold, CodeOf, HasCode
  <2>2. q.old.dev <= device[k].dev
    BY <1>17, <2>1 DEF ReadsOld
  <2>3. device[k].dev \in Nat
    BY <1>2, <2>1 DEF TablesTyped, DeviceRows, Versions, Exists
  <2>4. \A v \in 0 .. device[k].dev : HasCode(q.old.id, v)
    BY <1>2, <2>1 DEF Rows, CodeKept
  <2>5. ~(q.old.dev + 1 \in 0 .. device[k].dev)
    BY <2>1, <2>4
  <2> QED
    BY <1>3, <2>1, <2>2, <2>3, <2>5
<1>19. ~Exists(q.old) => ~Exists(device[k])
  BY <1>12 DEF KeysHold
<1>20. Keys'
  BY <1>11 DEF Keys, DeviceKeys, CodeKeys, ChannelKeys
<1>21. Rows'
  <2>1. Paired' /\ MetasKept'
    BY <1>11 DEF Rows, Paired, MetasKept, HasMetas
  <2>2. \A j \in Kinds : Exists(device[j]) => \A v \in 0 .. device[j].dev : HasCode(device[j].id, v)'
    BY <1>11 DEF Rows, CodeKept, HasCode
  <2>3. ASSUME NEW j \in Kinds, Exists(device[j]), NEW c \in code, c.id = device[j].id,
               IsDownloadable(c.cls), c.pkg # None
        PROVE  zips'[j][c.ver] = c.pkg
    <3>1. zips[j][c.ver] = c.pkg
      BY <2>3 DEF Rows, CodeKept
    <3>2. CASE j # k
      BY <1>15, <3>1, <3>2
    <3>3. CASE j = k
      <4>1. c.ver \in Versions /\ c.ver # ver
        BY <1>3, <1>18, <1>19, <2>3, <3>3 DEF TablesTyped, CodeRows, HasCode
      <4> HIDE DEF ver
      <4> QED
        BY <1>15, <3>1, <3>3, <4>1
    <3> QED
      BY <3>2, <3>3
  <2>4. CodeKept'
    BY <1>11, <2>2, <2>3 DEF CodeKept
  <2> QED
    BY <2>1, <2>4 DEF Rows
<1>22. Blessings'
  BY <1>11 DEF Blessings, RowsBlessed, SnapsBlessed, SnapsKept, SchemaBlessed, DeviceBlessed,
               HasMetas
<1>23. \A p : ReadsOld(p) => ReadsOld(p)'
  BY <1>11 DEF ReadsOld
<1>24. \A p : p = stored => WroteNew(p)'
  <2> SUFFICES ASSUME NEW p, p = stored PROVE WroteNew(p)'
      OBVIOUS
  <2>1. p.form = q.form /\ p.old = q.old /\ p.pkg = pkg
    BY <1>13
  <2>2. NewVersion(p) = ver
    BY <2>1 DEF NewVersion
  <2>3. p.pkg # None => zips'[p.form.kind][NewVersion(p)] = p.pkg
    BY <1>15, <2>1, <2>2
  <2> QED
    BY <1>3, <1>11, <1>18, <1>19, <2>1, <2>2, <2>3 DEF WroteNew, HasCode, NewVersion
<1>25. ReadsOld(stored)
  BY <1>13, <1>17 DEF ReadsOld
<1>26. ASSUME NEW p \in Reqs, p # r, req[p].pc = "stored"
       PROVE  WroteNew(req[p])' /\ req[p].form.kind # k
  <2>1. req[p].form.kind # k /\ req[p].form.kind \in Kinds
    BY <1>12, <1>26, UploadTyped, FormTyped DEF Locked, Holding
  <2>2. req'[p] = req[p]
    BY <1>16, <1>26
  <2>3. WroteNew(req[p])
    BY <1>26 DEF UploadsInv, UploadsSound
  <2> QED
    BY <1>11, <1>15, <2>1, <2>2, <2>3 DEF WroteNew, HasCode, NewVersion
<1>27. UploadsSound'
  <2>1. ASSUME NEW p \in Reqs
        PROVE  /\ req'[p].pc \in {"read", "stored"} => ReadsOld(req[p])'
               /\ req'[p].pc = "stored" => WroteNew(req[p])'
    <3>1. CASE p = r
      <4>1. \A n : n = stored => ReadsOld(n)'
        BY <1>23, <1>25
      <4>2. req'[p] = stored
        BY <1>16, <3>1
      <4> QED
        BY <1>24, <4>1, <4>2
    <3>2. CASE p # r
      BY <1>16, <1>23, <1>26, <3>2 DEF UploadsInv, UploadsSound
    <3> QED
      BY <3>1, <3>2
  <2> QED
    BY <2>1 DEF UploadsSound
<1>28. OneWriter'
  BY <1>13, <1>16, <1>26 DEF UploadsInv, OneWriter, Holding
<1>29. BootstrapAlone'
  <2>1. booted
    BY <1>1 DEF UploadsInv, BootstrapAlone, Idle, TablesTyped
  <2> QED
    BY <1>11, <2>1 DEF BootstrapAlone
<1> QED
  BY <1>14, <1>20, <1>21, <1>22, <1>27, <1>28, <1>29 DEF UploadsInv

\* The types of the rows that are written.
LEMMA WrittenTyped ==
  ASSUME TablesTyped, NEW k \in Kinds, NEW d \in DeviceRows, NEW s \in SchemaRows,
         NEW cls \in Classes, NEW pkg \in Packages \cup {None}, Written(k, d, s, cls, pkg)
  PROVE  /\ device' \in [Kinds -> DeviceRows \cup {None}]
         /\ schema' \in [Kinds -> SchemaRows \cup {None}]
         /\ code' \subseteq CodeRows /\ channels' \subseteq ChannelRows
<1>1. NewCode(d, cls, pkg) \in CodeRows
  BY DEF NewCode, CodeRows, DeviceRows
<1>2. NewChannel(s, cls) \in ChannelRows
  BY DEF NewChannel, ChannelRows, SchemaRows
<1> QED
  BY <1>1, <1>2 DEF TablesTyped, Written, ChannelsWritten

\* What writing the rows of a kind does to the kinds.
LEMMA WrittenLater ==
  ASSUME TablesTyped, Rows, NEW k \in Kinds, NEW d \in DeviceRows, NEW s \in SchemaRows,
         NEW cls, NEW pkg, Written(k, d, s, cls, pkg)
  PROVE  /\ \A j \in Kinds : Later(j)
         /\ device'[k] = d /\ \A j \in Kinds \ {k} : device'[j] = device[j]
         /\ nextId' \in {nextId, nextId + 1}
<1>1. /\ device'[k] = d /\ schema'[k] = s
      /\ \A j \in Kinds \ {k} : device'[j] = device[j] /\ schema'[j] = schema[j]
  BY DEF TablesTyped, Written
<1>2. \A j \in Kinds \ {k} : Later(j)
  BY <1>1 DEF Later
<1>3. CASE Fresh(k, d, s)
  BY <1>1, <1>2, <1>3 DEF Fresh, Later, TablesTyped
<1>4. CASE Bump(k, d, s)
  <2>1. device[k].dev \in Nat /\ Exists(device[k]) /\ Exists(schema[k])
    BY <1>4 DEF Bump, TablesTyped, DeviceRows, Versions, Exists, Rows, Paired, Pair
  <2> QED
    BY <1>1, <1>2, <1>4, <2>1 DEF Bump, Later
<1> QED
  BY <1>3, <1>4 DEF Written

LEMMA CommitStep ==
  ASSUME IInv, NEW r \in Reqs, UploadCommit(r)
  PROVE  IInv'
<1> USE DEF IInv
<1> DEFINE q == req[r]
           k == q.form.kind
           d == NewDevice(q)
           s == EnsurePrimarySchema(q)
<1>1. req[r].pc = "stored"
  BY DEF UploadCommit
<1>2. /\ k \in Kinds /\ q.form.cls \in Classes /\ d \in DeviceRows /\ s \in SchemaRows
      /\ Written(k, d, s, q.form.cls, q.pkg)
  BY CommitWrites
<1>3. q.pkg \in Packages \cup {None} /\ q.form \in Uploads
  BY <1>1, UploadTyped
<1>4. /\ UNCHANGED <<canonicals, snaps, zips, booted>>
      /\ d.id <= MaxId
      /\ nextId' = IF Exists(q.old) THEN nextId ELSE nextId + 1
      /\ ~Exists(q.old) => d.id = nextId
  BY DEF UploadCommit, NewDevice, DeviceRow
<1>5. \E next \in {Idle} \cup [pc : {"committed"}, form : Uploads] :
        req' = [req EXCEPT ![r] = next]
  BY <1>3 DEF UploadCommit
<1> HIDE DEF d, s
<1>6. TablesTyped'
  <2>1. /\ device' \in [Kinds -> DeviceRows \cup {None}]
        /\ schema' \in [Kinds -> SchemaRows \cup {None}]
        /\ code' \subseteq CodeRows /\ channels' \subseteq ChannelRows
    <3> HIDE DEF q, k
    <3> QED
      BY <1>2, <1>3, WrittenTyped
  <2>2. req' \in [Reqs -> ReqStates]
    BY <1>5 DEF TablesTyped, ReqStates
  <2>3. nextId' \in 1 .. MaxId + 1
    BY <1>2, <1>4, BoundsAssumption DEF TablesTyped, DeviceRows, Ids
  <2> QED
    BY <1>4, <2>1, <2>2, <2>3 DEF TablesTyped
<1>7. Keys'
  BY <1>2, WrittenKeys
<1>8. Rows'
  BY <1>2, WrittenRows
<1>9. Blessings'
  BY <1>2, WrittenBlessings
<1>10. /\ \A p \in Reqs \ {r} : req'[p] = req[p]
       /\ req'[r].pc \in {"idle", "committed"}
  BY <1>5 DEF TablesTyped, Idle
<1>11. /\ \A j \in Kinds : Later(j)
       /\ device'[k] = d /\ \A j \in Kinds \ {k} : device'[j] = device[j]
       /\ nextId' \in {nextId, nextId + 1}
  BY <1>2, WrittenLater
<1>12. ASSUME NEW p \in Reqs, Holding(p), req'[p] = req[p]
       PROVE  /\ Untouched(req[p].form.kind)
              /\ \A c \in code' : Exists(req[p].old) /\ c.id = req[p].old.id => c \in code
  <2> DEFINE j == req[p].form.kind
  <2>1. p # r
    BY <1>1, <1>10, <1>12
  <2>2. j # k /\ j \in Kinds
    BY <1>1, <1>12, <2>1, UploadTyped, FormTyped DEF UploadsInv, OneWriter, Holding
  <2>3. device'[j] = device[j] /\ zips'[j] = zips[j]
    BY <1>4, <1>11, <2>2
  <2>4. ASSUME NEW c \in code', Exists(req[p].old), c.id = req[p].old.id
        PROVE  c \in code
    <3>1. Exists(device[j]) /\ device[j].id = req[p].old.id
      BY <1>12, <2>4 DEF UploadsInv, UploadsSound, WroteNew, Holding
    <3>2. Exists(d)
      BY <1>2, RowsExist
    <3>3. d.id # device[j].id
      BY <1>2, <1>7, <1>11, <2>2, <2>3, <3>1, <3>2 DEF Keys, DeviceKeys
    <3>4. c \in code \/ c.id = d.id
      BY <1>2 DEF Written, NewCode
    <3> QED
      BY <2>4, <3>1, <3>3, <3>4
  <2> QED
    BY <2>3, <2>4 DEF Untouched
<1>13. nextId <= nextId' /\ blessed \subseteq blessed'
  BY <1>2, <1>11 DEF TablesTyped, Written
<1>14. UploadsSound' /\ OneWriter'
  BY <1>6, <1>10, <1>11, <1>12, <1>13, UploadsKept
<1>15. BootstrapAlone'
  <2>1. booted
    BY <1>1 DEF UploadsInv, BootstrapAlone, Idle
  <2> QED
    BY <1>4, <2>1 DEF BootstrapAlone
<1> QED
  BY <1>6, <1>7, <1>8, <1>9, <1>14, <1>15 DEF UploadsInv

LEMMA ImportStep ==
  ASSUME IInv, NEW form \in Imports, ImportDevice(form)
  PROVE  IInv'
<1> USE DEF IInv
<1> DEFINE k == form.kind
           appr == IF form.approve THEN 0 ELSE None
           d == DeviceRow(nextId, OrgOf[form.user], 0, appr, form.cls)
           s == SchemaRow(nextId, OrgOf[form.user], 0, appr)
<1>1. PICK pkg \in Packages \cup {None} : Written(k, d, s, form.cls, pkg)
  BY ImportWrites
<1>2. k \in Kinds /\ form.cls \in Classes /\ d \in DeviceRows /\ s \in SchemaRows
  BY ImportWrites
<1>3. UNCHANGED <<canonicals, snaps, req, booted>> /\ ~booted
      /\ nextId <= MaxId /\ nextId' = nextId + 1
  BY DEF ImportDevice
<1>4. zips' \in [Kinds -> [Versions -> Packages \cup {None}]]
  <2> DEFINE file == <<k, 0, form.cls>>
             row == [zips[k] EXCEPT ![0] = file]
  <2>1. zips' \in {zips, [zips EXCEPT ![k] = row]}
    BY DEF ImportDevice
  <2>2. 0 \in Versions /\ zips[k] \in [Versions -> Packages \cup {None}]
    BY <1>2, BoundsAssumption DEF Versions, TablesTyped
  <2>3. row \in [Versions -> Packages \cup {None}]
    BY <1>2, <2>2 DEF Packages
  <2> HIDE DEF row
  <2> QED
    BY <1>2, <2>1, <2>3 DEF TablesTyped
<1> HIDE DEF d, s, appr
<1>5. TablesTyped'
  <2>1. /\ device' \in [Kinds -> DeviceRows \cup {None}]
        /\ schema' \in [Kinds -> SchemaRows \cup {None}]
        /\ code' \subseteq CodeRows /\ channels' \subseteq ChannelRows
    BY <1>1, <1>2, WrittenTyped
  <2>2. nextId' \in 1 .. MaxId + 1
    BY <1>3, BoundsAssumption DEF TablesTyped
  <2> QED
    BY <1>3, <1>4, <2>1, <2>2 DEF TablesTyped
<1>6. Keys'
  BY <1>1, <1>2, WrittenKeys
<1>7. Rows'
  BY <1>1, <1>2, WrittenRows
<1>8. Blessings'
  BY <1>1, <1>2, WrittenBlessings
<1>9. \A r \in Reqs : req'[r] = Idle /\ req[r] = Idle
  BY <1>3 DEF UploadsInv, BootstrapAlone
<1>10. UploadsInv'
  BY <1>9 DEF UploadsInv, UploadsSound, OneWriter, BootstrapAlone, Holding, Idle
<1> QED
  BY <1>5, <1>6, <1>7, <1>8, <1>10

-----------------------------------------------------------------------------
(* The other steps.                                                        *)

LEMMA RowsFrame ==
  ASSUME UNCHANGED <<device, code, schema, channels, zips, nextId>>
  PROVE  /\ Keys => Keys'
         /\ Rows => Rows'
         /\ \A id, ver : HasMetas(id, ver) => HasMetas(id, ver)'
         /\ UNCHANGED <<snaps, blessed>> => (Blessings => Blessings')
         /\ \A k \in Kinds : Later(k) /\ Untouched(k)
<1>1. (Keys => Keys') /\ (Rows => Rows')
  BY DEF Keys, DeviceKeys, CodeKeys, ChannelKeys, Rows, Paired, CodeKept, MetasKept,
         HasCode, HasMetas
<1>2. UNCHANGED <<snaps, blessed>> => (Blessings => Blessings')
  BY DEF Blessings, RowsBlessed, SnapsBlessed, SnapsKept, SchemaBlessed, DeviceBlessed,
         HasMetas
<1>3. \A k \in Kinds : Later(k) /\ Untouched(k)
  BY DEF Later, Untouched
<1>4. \A id, ver : HasMetas(id, ver) => HasMetas(id, ver)'
  BY DEF HasMetas
<1> QED
  BY <1>1, <1>2, <1>3, <1>4

\* An upload ends, or its retraining is queued.
LEMMA EndStep ==
  ASSUME IInv, NEW r \in Reqs, UploadRetrain(r) \/ UploadAbort(r)
  PROVE  IInv'
<1> USE DEF IInv
<1>1. UNCHANGED <<device, code, schema, channels, canonicals, entities, snaps,
                  zips, booted, nextId, blessed>> /\ req' = [req EXCEPT ![r] = Idle]
  BY DEF UploadRetrain, UploadAbort
<1>2. TablesTyped'
  BY <1>1 DEF TablesTyped, ReqStates
<1>3. \A p \in Reqs : req'[p] = req[p] \/ req'[p] = Idle
  BY <1>1 DEF TablesTyped
<1>4. UploadsSound' /\ OneWriter'
  <2>1. \A p \in Reqs : req'[p] = req[p] \/ req'[p].pc \in {"idle", "committed"}
    BY <1>3 DEF Idle
  <2>2. nextId <= nextId' /\ blessed \subseteq blessed'
    BY <1>1 DEF TablesTyped
  <2>3. \A p \in Reqs : Holding(p) => req[p].form.kind \in Kinds
    BY UploadTyped, FormTyped DEF Holding
  <2> QED
    BY <1>1, <1>2, <2>1, <2>2, <2>3, RowsFrame, UploadsKept
<1>5. BootstrapAlone'
  BY <1>1, <1>3 DEF UploadsInv, BootstrapAlone
<1> QED
  BY <1>1, <1>2, <1>4, <1>5, RowsFrame DEF UploadsInv

\* Steps that touch no row of a device and no upload.
LEMMA AsideStep ==
  ASSUME IInv, UNCHANGED <<device, code, schema, channels, zips, nextId, req, blessed>>,
         booted' \in BOOLEAN, booted => booted',
         canonicals' \subseteq Ids \X Versions \X Languages,
         snaps' = snaps \/ (snaps' = Append(snaps, schema) /\ Len(snaps) < MaxSnapshots)
  PROVE  IInv'
<1> USE DEF IInv
<1>1. snaps' \in Seq([Kinds -> SchemaRows \cup {None}]) /\ Len(snaps') <= MaxSnapshots
  BY BoundsAssumption DEF TablesTyped
<1>2. TablesTyped'
  BY <1>1 DEF TablesTyped
<1>3. UploadsSound' /\ OneWriter'
  <2>1. nextId <= nextId' /\ blessed \subseteq blessed'
    BY DEF TablesTyped
  <2>2. \A p \in Reqs : Holding(p) => req[p].form.kind \in Kinds
    BY UploadTyped, FormTyped DEF Holding
  <2> QED
    BY <1>2, <2>1, <2>2, RowsFrame, UploadsKept
<1>4. BootstrapAlone'
  BY DEF UploadsInv, BootstrapAlone
<1>5. \A n \in 1 .. Len(snaps') : snaps'[n] = schema \/ (n \in 1 .. Len(snaps) /\ snaps'[n] = snaps[n])
  BY DEF TablesTyped
<1>6. RowsBlessed'
  BY DEF Blessings, RowsBlessed, SchemaBlessed, DeviceBlessed
<1>7. SnapsBlessed'
  BY <1>5 DEF Blessings, RowsBlessed, SnapsBlessed, SchemaBlessed
<1>8. SnapsKept'
  <2> SUFFICES ASSUME NEW n \in 1 .. Len(snaps'), NEW k \in Kinds, Exists(snaps'[n][k])
               PROVE  /\ HasMetas(snaps[n][k].id, snaps[n][k].dev)'
                      /\ (Exists(snaps[n][k].appr) => HasMetas(snaps[n][k].id, snaps[n][k].appr))'
      BY DEF SnapsKept, Exists
  <2>1. CASE snaps'[n] = schema
    <3>1. Exists(device[k])
      BY <2>1 DEF Rows, Paired, Pair
    <3> QED
      BY <2>1, <3>1 DEF Rows, MetasKept, HasMetas, Exists
  <2>2. CASE n \in 1 .. Len(snaps) /\ snaps'[n] = snaps[n]
    BY <2>2 DEF Blessings, SnapsKept, HasMetas, Exists
  <2> QED
    BY <1>5, <2>1, <2>2
<1> QED
  BY <1>2, <1>3, <1>4, <1>6, <1>7, <1>8, RowsFrame DEF UploadsInv, Blessings

\* Steps that change the approved versions of a kind and nothing else.
LEMMA ApprovalStep ==
  ASSUME IInv, NEW k \in Kinds,
         device' \in [Kinds -> DeviceRows \cup {None}],
         schema' \in [Kinds -> SchemaRows \cup {None}],
         \A j \in Kinds : /\ Exists(device'[j]) <=> Exists(device[j])
                          /\ Exists(schema'[j]) <=> Exists(schema[j])
                          /\ Exists(device[j]) =>
                               /\ device'[j].id = device[j].id /\ device'[j].dev = device[j].dev
                               /\ device'[j].owner = device[j].owner
                               /\ Exists(device'[j].appr) => device'[j].appr \in {device[j].appr, device[j].dev}
                          /\ Exists(schema[j]) =>
                               /\ schema'[j].id = schema[j].id /\ schema'[j].dev = schema[j].dev
                               /\ schema'[j].owner = schema[j].owner
                               /\ Exists(schema'[j].appr) => schema'[j].appr \in {schema[j].appr, schema[j].dev},
         RowsBlessed', blessed \subseteq blessed',
         UNCHANGED <<code, channels, canonicals, entities, snaps, zips, req, booted, nextId>>
  PROVE  IInv'
<1> USE DEF IInv
<1>1. TablesTyped'
  BY DEF TablesTyped
<1>2. Keys'
  BY DEF Keys, DeviceKeys, CodeKeys, ChannelKeys
<1>3. \A j \in Kinds : Exists(device[j]) =>
        /\ Exists(schema[j]) /\ device[j].dev \in Nat /\ schema[j].dev \in Nat
  BY DEF TablesTyped, DeviceRows, SchemaRows, Versions, Exists, Rows, Paired, Pair
<1>4. Paired'
  <2> SUFFICES ASSUME NEW j \in Kinds PROVE Pair(device[j], schema[j])'
      BY DEF Paired
  <2>1. Pair(device[j], schema[j])
    BY DEF Rows, Paired
  <2>2. CASE ~Exists(device[j])
    BY <2>1, <2>2 DEF Pair
  <2>3. CASE Exists(device[j])
    <3>1. /\ Exists(device'[j]) /\ Exists(schema'[j]) /\ Exists(schema[j])
          /\ schema'[j].id = device'[j].id /\ schema'[j].owner = device'[j].owner
          /\ schema'[j].dev <= device'[j].dev
      BY <2>1, <2>3 DEF Pair
    <3>2. Exists(device'[j].appr) => device'[j].appr <= device'[j].dev
      BY <1>3, <2>1, <2>3, <3>1 DEF Pair
    <3>3. Exists(schema'[j].appr) => schema'[j].appr <= schema'[j].dev
      BY <1>3, <2>1, <2>3, <3>1 DEF Pair
    <3> QED
      BY <3>1, <3>2, <3>3 DEF Pair
  <2> QED
    BY <2>2, <2>3
<1>5. CodeKept'
  BY DEF Rows, CodeKept, HasCode
<1>6. MetasKept'
  <2> SUFFICES ASSUME NEW j \in Kinds, Exists(device'[j])
               PROVE  /\ HasMetas(schema[j].id, schema[j].dev)'
                      /\ (Exists(schema[j].appr) => HasMetas(schema[j].id, schema[j].appr))'
                      /\ \A m \in channels : m.id = schema'[j].id => m.ver <= schema'[j].dev
                      /\ \A c \in code, m \in channels :
                           /\ c.id = device'[j].id /\ c.ver = device'[j].dev
                           /\ m.id = schema'[j].id /\ m.ver = schema'[j].dev
                           => m.metas = c.cls.metas
      BY DEF MetasKept, Exists
  <2>1. Exists(device[j]) /\ Exists(schema[j])
    BY <1>3
  <2> QED
    BY <2>1 DEF Rows, MetasKept, HasMetas, Exists
<1>7. Rows'
  BY <1>4, <1>5, <1>6 DEF Rows
<1>8. UploadsSound' /\ OneWriter'
  <2>1. \A j \in Kinds : Later(j) /\ Untouched(j)
    BY <1>3 DEF Later, Untouched
  <2>2. \A p \in Reqs : Holding(p) => req[p].form.kind \in Kinds
    BY UploadTyped, FormTyped DEF Holding
  <2>3. nextId <= nextId'
    BY DEF TablesTyped
  <2> QED
    BY <1>1, <2>1, <2>2, <2>3, UploadsKept
<1>9. BootstrapAlone'
  BY DEF UploadsInv, BootstrapAlone
<1>10. SnapsBlessed' /\ SnapsKept'
  BY DEF Blessings, SnapsBlessed, SnapsKept, SchemaBlessed, HasMetas
<1> QED
  BY <1>1, <1>2, <1>7, <1>8, <1>9, <1>10 DEF UploadsInv, Blessings

LEMMA ApproveStep ==
  ASSUME IInv, NEW u \in Users, NEW k \in Kinds, ApproveDevice(u, k) \/ UnapproveDevice(u, k)
  PROVE  IInv'
<1> USE DEF IInv
<1> DEFINE d(ver) == WithApproved(device[k], ver)
           s(ver) == WithApproved(schema[k], ver)
<1>1. /\ Exists(device[k]) => device[k] \in DeviceRows
      /\ Exists(schema[k]) => schema[k] \in SchemaRows
      /\ DeviceBlessed(device[k]) /\ SchemaBlessed(schema[k])
  BY DEF TablesTyped, Exists, Blessings, RowsBlessed
<1>2. \A ver \in Versions \cup {None} :
        /\ Exists(device[k]) => /\ d(ver) \in DeviceRows /\ d(ver).id = device[k].id
                                /\ d(ver).owner = device[k].owner /\ d(ver).dev = device[k].dev
                                /\ d(ver).appr = ver
        /\ Exists(schema[k]) => /\ s(ver) \in SchemaRows /\ s(ver).id = schema[k].id
                                /\ s(ver).owner = schema[k].owner /\ s(ver).dev = schema[k].dev
                                /\ s(ver).appr = ver
  BY <1>1 DEF WithApproved, DeviceRows, SchemaRows
<1>3. PICK dv \in {None, device[k].dev}, sv \in {None, schema[k].dev} :
        /\ device' = [device EXCEPT ![k] = IF Exists(device[k]) THEN d(dv) ELSE device[k]]
        /\ schema' = [schema EXCEPT ![k] = IF Exists(schema[k]) THEN s(sv) ELSE schema[k]]
        /\ Exists(device[k]) /\ dv # None => <<"device", device[k].id, dv>> \in blessed'
        /\ Exists(schema[k]) /\ sv # None => <<"schema", schema[k].id, sv>> \in blessed'
        /\ blessed \subseteq blessed'
  BY DEF ApproveDevice, UnapproveDevice, Exists
<1>4. /\ Exists(device[k]) => dv \in Versions \cup {None}
      /\ Exists(schema[k]) => sv \in Versions \cup {None}
  BY <1>1 DEF DeviceRows, SchemaRows
<1>5. UNCHANGED <<code, channels, canonicals, entities, snaps, zips, req, booted, nextId>>
  BY DEF ApproveDevice, UnapproveDevice
<1> HIDE DEF d, s
<1>6. /\ device' \in [Kinds -> DeviceRows \cup {None}]
      /\ schema' \in [Kinds -> SchemaRows \cup {None}]
      /\ \A j \in Kinds \ {k} : device'[j] = device[j] /\ schema'[j] = schema[j]
      /\ device'[k] = IF Exists(device[k]) THEN d(dv) ELSE device[k]
      /\ schema'[k] = IF Exists(schema[k]) THEN s(sv) ELSE schema[k]
  BY <1>2, <1>3, <1>4 DEF TablesTyped
<1>7. \A j \in Kinds :
        /\ Exists(device'[j]) <=> Exists(device[j])
        /\ Exists(schema'[j]) <=> Exists(schema[j])
        /\ Exists(device[j]) =>
             /\ device'[j].id = device[j].id /\ device'[j].dev = device[j].dev
             /\ device'[j].owner = device[j].owner
             /\ Exists(device'[j].appr) => device'[j].appr \in {device[j].appr, device[j].dev}
        /\ Exists(schema[j]) =>
             /\ schema'[j].id = schema[j].id /\ schema'[j].dev = schema[j].dev
             /\ schema'[j].owner = schema[j].owner
             /\ Exists(schema'[j].appr) => schema'[j].appr \in {schema[j].appr, schema[j].dev}
  <2>1. /\ Exists(device[k]) => Exists(d(dv))
        /\ Exists(schema[k]) => Exists(s(sv))
    BY <1>2, <1>4, RowsExist
  <2> QED
    BY <1>2, <1>4, <1>6, <2>1 DEF Exists
<1>8. RowsBlessed'
  <2>1. DeviceBlessed(device[k])' /\ SchemaBlessed(schema[k])'
    BY <1>1, <1>2, <1>3, <1>4, <1>6 DEF DeviceBlessed, SchemaBlessed, Exists
  <2>2. \A j \in Kinds \ {k} : DeviceBlessed(device[j])' /\ SchemaBlessed(schema[j])'
    BY <1>3, <1>6 DEF Blessings, RowsBlessed, DeviceBlessed, SchemaBlessed
  <2> QED
    BY <2>1, <2>2 DEF RowsBlessed
<1> QED
  BY <1>3, <1>5, <1>6, <1>7, <1>8, ApprovalStep

LEMMA DeleteStep ==
  ASSUME IInv, NEW u \in Users, NEW k \in Kinds, DeleteDevice(u, k)
  PROVE  IInv'
<1> USE DEF IInv
<1>1. /\ UNCHANGED <<channels, canonicals, snaps, zips, req, booted, nextId, blessed>>
      /\ schema' = [schema EXCEPT ![k] = None]
      /\ code' = {c \in code : c.id # device[k].id}
      /\ Exists(device[k]) /\ ~Locked(k)
  BY DEF DeleteDevice
<1>2. /\ device'[k] = None /\ schema'[k] = None
      /\ \A j \in Kinds \ {k} : schema'[j] = schema[j]
      /\ \A j \in Kinds \ {k} : ~Exists(device[j]) => device'[j] = device[j]
      /\ \A j \in Kinds \ {k} : Exists(device[j]) =>
           device'[j] = [device[j] EXCEPT !.kinds = @ \ {k}]
      /\ device' = [j \in Kinds |-> device'[j]]
  BY <1>1 DEF DeleteDevice, TablesTyped
<1>3. \A j \in Kinds \ {k} : Exists(device[j]) =>
        /\ device'[j] \in DeviceRows
        /\ device'[j].id = device[j].id /\ device'[j].owner = device[j].owner
        /\ device'[j].dev = device[j].dev /\ device'[j].appr = device[j].appr
        /\ Exists(device'[j])
  <2> SUFFICES ASSUME NEW j \in Kinds \ {k}, Exists(device[j])
               PROVE  /\ device'[j] \in DeviceRows
                      /\ device'[j].id = device[j].id /\ device'[j].owner = device[j].owner
                      /\ device'[j].dev = device[j].dev /\ device'[j].appr = device[j].appr
                      /\ Exists(device'[j])
      OBVIOUS
  <2>1. device[j] \in DeviceRows
    BY DEF TablesTyped, Exists
  <2>2. device'[j] = [device[j] EXCEPT !.kinds = @ \ {k}]
    BY <1>2
  <2>3. device'[j] \in DeviceRows
    BY <2>1, <2>2 DEF DeviceRows
  <2> QED
    BY <2>1, <2>2, <2>3, RowsExist DEF DeviceRows
<1>4. TablesTyped'
  <2>1. device' \in [Kinds -> DeviceRows \cup {None}]
    <3>1. \A j \in Kinds : device'[j] \in DeviceRows \cup {None}
      BY <1>2, <1>3 DEF Exists
    <3> QED
      BY <1>2, <3>1
  <2>2. schema' \in [Kinds -> SchemaRows \cup {None}]
    BY <1>1 DEF TablesTyped
  <2> QED
    BY <1>1, <2>1, <2>2 DEF TablesTyped
<1>5. \A j \in Kinds : Exists(device'[j]) => j # k /\ Exists(device[j])
  BY <1>2 DEF Exists
<1>6. Keys'
  BY <1>1, <1>3, <1>5 DEF Keys, DeviceKeys, CodeKeys, ChannelKeys
<1>7. Paired'
  <2> SUFFICES ASSUME NEW j \in Kinds PROVE Pair(device[j], schema[j])'
      BY DEF Paired
  <2>1. Pair(device[j], schema[j])
    BY DEF Rows, Paired
  <2> QED
    BY <1>2, <1>3, <2>1 DEF Pair, Exists
<1>8. CodeKept'
  <2> SUFFICES ASSUME NEW j \in Kinds, Exists(device'[j])
               PROVE  /\ \A v \in 0 .. device'[j].dev : \E c \in code' : c.id = device'[j].id /\ c.ver = v
                      /\ \A c \in code' : c.id = device'[j].id /\ IsDownloadable(c.cls) /\ c.pkg # None =>
                           zips'[j][c.ver] = c.pkg
      BY DEF CodeKept, HasCode, Exists
  <2>1. j # k /\ Exists(device[j]) /\ device[j].id # device[k].id
    BY <1>1, <1>5 DEF Keys, DeviceKeys
  <2> QED
    BY <1>1, <1>3, <2>1 DEF Rows, CodeKept, HasCode
<1>9. MetasKept'
  <2> SUFFICES ASSUME NEW j \in Kinds, Exists(device'[j])
               PROVE  /\ HasMetas(schema[j].id, schema[j].dev)'
                      /\ (Exists(schema[j].appr) => HasMetas(schema[j].id, schema[j].appr))'
                      /\ \A m \in channels' : m.id = schema'[j].id => m.ver <= schema'[j].dev
                      /\ \A c \in code', m \in channels' :
                           /\ c.id = device'[j].id /\ c.ver = device'[j].dev
                           /\ m.id = schema'[j].id /\ m.ver = schema'[j].dev
                           => m.metas = c.cls.metas
      BY DEF MetasKept, Exists
  <2>1. j # k /\ Exists(device[j]) /\ schema'[j] = schema[j]
    BY <1>2, <1>5
  <2> QED
    BY <1>1, <1>3, <2>1 DEF Rows, MetasKept, HasMetas, Exists
<1>10. UploadsSound' /\ OneWriter'
  <2>1. \A j \in Kinds : Later(j)
    BY <1>2, <1>3, <1>5 DEF Later
  <2>2. \A j \in Kinds \ {k} : Untouched(j)
    BY <1>1, <1>2, <1>3, <1>5 DEF Untouched
  <2>3. \A p \in Reqs : Holding(p) => req[p].form.kind \in Kinds \ {k}
    BY <1>1, UploadTyped, FormTyped DEF Holding, Locked
  <2>4. nextId <= nextId'
    BY <1>1 DEF TablesTyped
  <2> QED
    BY <1>1, <1>4, <2>1, <2>2, <2>3, <2>4, UploadsKept
<1>11. BootstrapAlone'
  BY <1>1 DEF UploadsInv, BootstrapAlone
<1>12. Blessings'
  <2>1. RowsBlessed'
    BY <1>1, <1>2, <1>3, <1>5 DEF Blessings, RowsBlessed, DeviceBlessed, SchemaBlessed, Exists
  <2>2. SnapsBlessed' /\ SnapsKept'
    BY <1>1 DEF Blessings, SnapsBlessed, SnapsKept, SchemaBlessed, HasMetas
  <2> QED
    BY <2>1, <2>2 DEF Blessings
<1> QED
  BY <1>4, <1>6, <1>7, <1>8, <1>9, <1>10, <1>11, <1>12 DEF Rows, UploadsInv

LEMMA NextStep == IInv /\ [Next]_vars => IInv'
<1> SUFFICES ASSUME IInv, [Next]_vars PROVE IInv'
    OBVIOUS
<1>1. CASE UNCHANGED vars
  <2>1. booted \in BOOLEAN /\ canonicals \subseteq Ids \X Versions \X Languages
    BY DEF IInv, TablesTyped
  <2> QED
    BY <1>1, <2>1, AsideStep DEF vars
<1>2. ASSUME NEW r \in Reqs, NEW form \in Uploads, UploadBegin(r, form) PROVE IInv'
  BY <1>2, BeginStep
<1>3. ASSUME NEW r \in Reqs,
             UploadWrite(r) \/ UploadCommit(r) \/ UploadRetrain(r) \/ UploadAbort(r)
      PROVE  IInv'
  BY <1>3, WriteStep, CommitStep, EndStep
<1>4. ASSUME NEW u \in Users, NEW k \in Kinds, ApproveDevice(u, k) \/ UnapproveDevice(u, k)
      PROVE  IInv'
  BY <1>4, ApproveStep
<1>5. ASSUME NEW u \in Users, NEW k \in Kinds, DeleteDevice(u, k) PROVE IInv'
  BY <1>5, DeleteStep
<1>6. ASSUME NEW u \in Users, NEW k \in Kinds, NEW lang \in Languages, TranslateDevice(u, k, lang)
      PROVE  IInv'
  <2>1. /\ schema[k].id \in Ids /\ schema[k].dev \in Versions
        /\ canonicals \subseteq Ids \X Versions \X Languages /\ booted \in BOOLEAN
    BY <1>6 DEF IInv, TablesTyped, TranslateDevice, SchemaRows, Exists
  <2>2. canonicals' \subseteq Ids \X Versions \X Languages
    BY <1>6, <2>1 DEF TranslateDevice
  <2> QED
    BY <1>6, <2>1, <2>2, AsideStep DEF TranslateDevice
<1>7. ASSUME NEW u \in Users, CreateSnapshot(u) PROVE IInv'
  <2>1. booted \in BOOLEAN /\ canonicals \subseteq Ids \X Versions \X Languages
    BY DEF IInv, TablesTyped
  <2> QED
    BY <1>7, <2>1, AsideStep DEF CreateSnapshot
<1>8. ASSUME NEW form \in Imports, ImportDevice(form) PROVE IInv'
  BY <1>8, ImportStep
<1>9. ASSUME StartWebsite PROVE IInv'
  <2>1. canonicals \subseteq Ids \X Versions \X Languages
    BY DEF IInv, TablesTyped
  <2> QED
    BY <1>9, <2>1, AsideStep DEF StartWebsite
<1> QED
  BY <1>1, <1>2, <1>3, <1>4, <1>5, <1>6, <1>7, <1>8, <1>9 DEF Next

LEMMA Invariance == Spec => []IInv
BY InitInv, NextStep, PTL DEF Spec

-----------------------------------------------------------------------------
(* The theorems.                                                           *)

(***************************************************************************)
(* Every table and every upload in progress keeps its type.                *)
(***************************************************************************)
THEOREM ThingpediaTypeCorrect == Spec => []TypeOK
<1>1. IInv => TypeOK
  <2> SUFFICES ASSUME IInv PROVE TypeOK
      OBVIOUS
  <2>1. TablesTyped
    BY DEF IInv
  <2>2. /\ \A c \in code : c.id \in Ids /\ c.ver \in Versions
        /\ \A c \in channels : c.id \in Ids /\ c.ver \in Versions
    BY <2>1 DEF TablesTyped, CodeRows, ChannelRows
  <2>3. Len(snaps) \in 0 .. MaxSnapshots
    BY <2>1, BoundsAssumption DEF TablesTyped
  <2>4. \A r \in Reqs : req[r].pc \in {"idle", "read", "stored", "committed"}
    BY <2>1, UploadTyped
  <2> QED
    BY <2>1, <2>2, <2>3, <2>4 DEF TypeOK, TablesTyped
<1> QED
  BY Invariance, <1>1, PTL

\* A version that has code has one row of it, and one that has channels one
\* set of metadata.
LEMMA OneOfEach ==
  ASSUME Keys, NEW id, NEW ver
  PROVE  /\ HasCode(id, ver) => Cardinality(CodeOf(id, ver)) = 1
         /\ HasMetas(id, ver) => Cardinality(MetasAt(id, ver)) = 1
<1>1. ASSUME NEW c \in code, c.id = id, c.ver = ver PROVE CodeOf(id, ver) = {c}
  BY <1>1 DEF Keys, CodeKeys, CodeOf
<1>2. ASSUME NEW m \in channels, m.id = id, m.ver = ver PROVE MetasAt(id, ver) = {m.metas}
  <2>1. {d \in channels : d.id = id /\ d.ver = ver} = {m}
    BY <1>2 DEF Keys, ChannelKeys
  <2> QED
    BY <2>1 DEF MetasAt
<1> QED
  BY <1>1, <1>2, FS_Singleton DEF HasCode, HasMetas

(***************************************************************************)
(* The rows of a device agree, whatever uploads, approvals and deletions   *)
(* raced to write them, failed, or were rolled back after storing a file:  *)
(* the code and the channels of the newest and the approved version are    *)
(* there, once; every package is the one its upload stored or inherited;   *)
(* and the newest schema has the metadata of the newest code.              *)
(***************************************************************************)
THEOREM DeviceRowsAgree == Spec => []RowsConsistent
<1>1. IInv => RowsConsistent
  <2> SUFFICES ASSUME IInv, NEW k \in Kinds, Exists(device[k])
               PROVE  /\ \A v \in {device[k].dev, device[k].appr} \ {None} :
                           Cardinality(CodeOf(device[k].id, v)) = 1
                      /\ Exists(schema[k])
                      /\ \A v \in {schema[k].dev, schema[k].appr} \ {None} :
                           Cardinality(MetasAt(schema[k].id, v)) = 1
                      /\ \A c \in code : c.id = device[k].id /\ IsDownloadable(c.cls)
                                         /\ c.pkg # None => zips[k][c.ver] = c.pkg
                      /\ schema[k].owner = device[k].owner
                      /\ \A c \in CodeOf(device[k].id, device[k].dev) :
                           MetasAt(schema[k].id, schema[k].dev) = {c.cls.metas}
      BY DEF RowsConsistent, RowsComplete, DeveloperSchemaMatches
  <2>1. Pair(device[k], schema[k]) /\ Keys /\ Rows
    BY DEF IInv, Rows, Paired
  <2>2. device[k] \in DeviceRows
    BY DEF IInv, TablesTyped, Exists
  <2>3. \A v \in {device[k].dev, device[k].appr} \ {None} : HasCode(device[k].id, v)
    <3>1. device[k].dev \in Nat /\ (Exists(device[k].appr) =>
            device[k].appr \in Nat /\ device[k].appr <= device[k].dev)
      BY <2>1, <2>2 DEF DeviceRows, Versions, Pair, Exists
    <3> QED
      BY <2>1, <3>1 DEF Rows, CodeKept, Exists
  <2>4. \A v \in {schema[k].dev, schema[k].appr} \ {None} : HasMetas(schema[k].id, v)
    BY <2>1 DEF Rows, MetasKept, Exists
  <2>5. Exists(schema[k]) /\ schema[k].owner = device[k].owner
    BY <2>1 DEF Pair
  <2>6. \A c \in code : c.id = device[k].id /\ IsDownloadable(c.cls) /\ c.pkg # None =>
          zips[k][c.ver] = c.pkg
    BY <2>1 DEF Rows, CodeKept
  <2>7. ASSUME NEW c \in CodeOf(device[k].id, device[k].dev)
        PROVE  MetasAt(schema[k].id, schema[k].dev) = {c.cls.metas}
    <3>1. HasMetas(schema[k].id, schema[k].dev)
      BY <2>1 DEF Rows, MetasKept
    <3>2. \A m \in channels : m.id = schema[k].id /\ m.ver = schema[k].dev => m.metas = c.cls.metas
      BY <2>1 DEF Rows, MetasKept, CodeOf
    <3> QED
      BY <3>1, <3>2 DEF MetasAt, HasMetas
  <2> QED
    BY <2>1, <2>3, <2>4, <2>5, <2>6, <2>7, OneOfEach
<1> QED
  BY Invariance, <1>1, PTL

\* Channels are only added, for versions that had none, and a snapshot that is
\* taken is never touched again.
LEMMA ChannelsStay ==
  ASSUME IInv, [Next]_vars
  PROVE  /\ \A id, ver : HasMetas(id, ver) => MetasAt(id, ver)' = MetasAt(id, ver)
         /\ \A n \in DOMAIN snaps : n \in DOMAIN snaps' /\ snaps'[n] = snaps[n]
<1>1. channels \subseteq channels'
  BY DEF Next, vars, UploadBegin, UploadWrite, UploadCommit, UploadRetrain, UploadAbort,
         ApproveDevice, UnapproveDevice, DeleteDevice, TranslateDevice, CreateSnapshot,
         ImportDevice, StartWebsite
<1>2. snaps' = snaps \/ snaps' = Append(snaps, schema)
  BY DEF Next, vars, UploadBegin, UploadWrite, UploadCommit, UploadRetrain, UploadAbort,
         ApproveDevice, UnapproveDevice, DeleteDevice, TranslateDevice, CreateSnapshot,
         ImportDevice, StartWebsite
<1>3. \A n \in DOMAIN snaps : n \in DOMAIN snaps' /\ snaps'[n] = snaps[n]
  BY <1>2 DEF IInv, TablesTyped
<1>4. ASSUME NEW id, NEW ver, HasMetas(id, ver) PROVE MetasAt(id, ver)' = MetasAt(id, ver)
  <2>1. ChannelKeys'
    BY NextStep DEF IInv, Keys
  <2>2. PICK m \in channels : m.id = id /\ m.ver = ver
    BY <1>4 DEF HasMetas
  <2>3. {d \in channels' : d.id = id /\ d.ver = ver} = {d \in channels : d.id = id /\ d.ver = ver}
    BY <1>1, <2>1, <2>2 DEF ChannelKeys
  <2> QED
    BY <2>3 DEF MetasAt
<1> QED
  BY <1>3, <1>4

(***************************************************************************)
(* What an organization reads of a snapshot never changes: uploads add     *)
(* channels under new keys only, and deletions leave them.                 *)
(***************************************************************************)
THEOREM SnapshotsNeverChange == Spec => SnapshotImmutable
<1>1. IInv /\ [Next]_vars =>
        [\A n \in DOMAIN snaps : \A o \in Readers \ {AdminOrg} :
           KeptForMonths(n, o) => SnapshotEndpoint(n, o)' = SnapshotEndpoint(n, o)]_vars
  <2> SUFFICES ASSUME IInv, [Next]_vars, NEW n \in DOMAIN snaps, NEW o \in Readers \ {AdminOrg},
                      KeptForMonths(n, o)
               PROVE  SnapshotEndpoint(n, o)' = SnapshotEndpoint(n, o)
      OBVIOUS
  <2> DEFINE t == snaps[n]
             row(k) == [kind |-> k, id |-> t[k].id, ver |-> VersionFor(t[k], o),
                        metas |-> MetasAt(t[k].id, VersionFor(t[k], o))]
             ks == {j \in Kinds : Exists(t[j]) /\ RowVisible(t[j], o)}
  <2>1. n # 0 /\ n \in 1 .. Len(snaps) /\ snaps'[n] = snaps[n]
    BY ChannelsStay DEF KeptForMonths, IInv, TablesTyped
  <2>2. SnapshotEndpoint(n, o) = {row(k) : k \in ks}
    BY <2>1 DEF SnapshotEndpoint, GetThingpediaSnapshot, GetSnapshotTypes, SchemasFor
  <2>3. SnapshotEndpoint(n, o)' = {row(k)' : k \in ks}
    BY <2>1 DEF SnapshotEndpoint, GetThingpediaSnapshot, GetSnapshotTypes, SchemasFor,
                VersionFor, RowVisible, Exists
  <2>4. ASSUME NEW k \in ks PROVE row(k)' = row(k)
    <3> DEFINE ver == VersionFor(t[k], o)
    <3>1. HasMetas(t[k].id, ver)
      BY <2>1, <2>4 DEF IInv, Blessings, SnapsKept, VersionFor, RowVisible, Exists
    <3>2. \A id, v : HasMetas(id, v) => MetasAt(id, v)' = MetasAt(id, v)
      BY ChannelsStay
    <3>3. ver' = ver /\ t[k]' = t[k]
      BY <2>1 DEF VersionFor
    <3>4. \A id, v : id = t[k].id /\ v = ver => MetasAt(id, v)' = MetasAt(id, v)
      BY <3>1, <3>2
    <3>5. MetasAt(t[k].id, ver)' = MetasAt(t[k].id, ver)
      BY <3>3, <3>4 DEF MetasAt
    <3> QED
      BY <3>3, <3>5
  <2> QED
    BY <2>2, <2>3, <2>4
<1> QED
  BY Invariance, <1>1, PTL DEF Spec, SnapshotImmutable

-----------------------------------------------------------------------------
(* What the endpoints hand out.                                            *)

\* A reader who gets a version of a row other than the owner gets an approved
\* one, which was blessed.
LEMMA CodeForRead ==
  ASSUME IInv, NEW o, NEW ks \in SUBSET Kinds, NEW c \in CodeFor(ks, o)
  PROVE  MayReadCode(o, c)
<1>1. PICK k \in Kinds :
        /\ Exists(device[k]) /\ VersionFor(device[k], o) # None
        /\ c = [kind |-> k, id |-> device[k].id, ver |-> VersionFor(device[k], o)]
  BY DEF CodeFor
<1>2. DeviceBlessed(device[k])
  BY DEF IInv, Blessings, RowsBlessed
<1> QED
  BY <1>1, <1>2 DEF MayReadCode, VersionFor, DeviceBlessed, Exists

LEMMA SchemasForRead ==
  ASSUME NEW o, NEW table, \A k \in Kinds : SchemaBlessed(table[k]),
         NEW s \in SchemasFor(table, Kinds, o)
  PROVE  MayReadSchema(o, table, s)
<1>1. PICK k \in Kinds :
        /\ Exists(table[k]) /\ RowVisible(table[k], o)
        /\ s = [kind |-> k, id |-> table[k].id, ver |-> VersionFor(table[k], o),
                metas |-> MetasAt(table[k].id, VersionFor(table[k], o))]
  BY DEF SchemasFor
<1> QED
  BY <1>1 DEF MayReadSchema, RowVisible, VersionFor, SchemaBlessed, Exists

\* A kind that a reader may see has an approved version or is the reader's.
LEMMA VisibleListed ==
  ASSUME IInv, NEW o, NEW k \in Kinds,
         \/ Exists(device[k]) /\ RowVisible(device[k], o)
         \/ Exists(schema[k]) /\ RowVisible(schema[k], o)
  PROVE  MayList(o, k)
<1>1. /\ Pair(device[k], schema[k]) /\ DeviceBlessed(device[k]) /\ SchemaBlessed(schema[k])
      /\ Exists(device[k]) => device[k] \in DeviceRows
      /\ Exists(schema[k]) => schema[k] \in SchemaRows
  BY DEF IInv, Rows, Paired, Blessings, RowsBlessed, TablesTyped, Exists
<1>2. Exists(device[k]) /\ Exists(schema[k]) /\ device[k].owner = schema[k].owner
  BY <1>1 DEF Pair
<1>3. CASE o = AdminOrg \/ device[k].owner = o
  BY <1>2, <1>3 DEF MayList
<1>4. CASE device[k].appr # None /\ RowVisible(device[k], o)
  <2>1. device[k].id \in Ids /\ device[k].appr \in Versions
    BY <1>1, <1>2, <1>4 DEF DeviceRows
  <2>2. <<"device", device[k].id, device[k].appr>> \in blessed
    BY <1>1, <1>2, <1>4 DEF DeviceBlessed, Exists
  <2> QED
    BY <1>2, <2>1, <2>2 DEF MayList
<1>5. CASE schema[k].appr # None /\ RowVisible(schema[k], o)
  <2>1. schema[k].id \in Ids /\ schema[k].appr \in Versions
    BY <1>1, <1>2, <1>5 DEF SchemaRows
  <2>2. <<"schema", schema[k].id, schema[k].appr>> \in blessed
    BY <1>1, <1>2, <1>5 DEF SchemaBlessed, Exists
  <2> QED
    BY <1>2, <2>1, <2>2 DEF MayList
<1> QED
  BY <1>2, <1>3, <1>4, <1>5 DEF RowVisible

LEMMA CodeServedRead ==
  ASSUME IInv, NEW o, NEW c \in CodeServed(o)
  PROVE  MayReadCode(o, c)
<1>1. ASSUME NEW k \in Kinds, PackageEndpoint(k, o, None) # None,
             c = [kind |-> k, id |-> device[k].id, ver |-> PackageEndpoint(k, o, None).ver]
      PROVE  \E ks \in SUBSET Kinds : c \in CodeFor(ks, o)
  <2> DEFINE rows == CodeFor({k}, o)
             e == CHOOSE x \in rows : TRUE
             row == CHOOSE d \in CodeOf(e.id, e.ver) : TRUE
  <2>1. PackageEndpoint(k, o, None) =
          IF rows = {} THEN None
          ELSE IF ~IsDownloadable(row.cls) \/ (None # None /\ None > e.ver) THEN None
               ELSE [kind |-> k, ver |-> IF None = None THEN e.ver ELSE None]
    BY DEF PackageEndpoint, GetModuleLocation, GetDownloadVersion
  <2> HIDE DEF row
  <2>2. rows # {} /\ PackageEndpoint(k, o, None).ver = e.ver
    BY <1>1, <2>1
  <2>3. e \in rows
    BY <2>2
  <2> HIDE DEF e
  <2>4. e = [kind |-> k, id |-> device[k].id, ver |-> VersionFor(device[k], o)]
    BY <2>3 DEF CodeFor
  <2>5. c = e
    BY <1>1, <2>2, <2>4
  <2> QED
    BY <2>3, <2>5
<1>2. ASSUME NEW k \in Kinds, c \in CodeEndpoint(k, o) \cup GetDownloadVersion(k, o)
      PROVE  \E ks \in SUBSET Kinds : c \in CodeFor(ks, o)
  BY <1>2 DEF CodeEndpoint, GetDeviceCode, GetFullCodeByPrimaryKinds, GetDownloadVersion
<1>3. ASSUME c \in SetupEndpoint(Kinds, o)
      PROVE  \E ks \in SUBSET Kinds : c \in CodeFor(ks, o)
  <2> DEFINE ks == {k \in Kinds : Exists(device[k]) /\
                      \/ k \in Kinds
                      \/ device[k].kinds \cap Kinds # {}
                      \/ \E p \in device[k].kinds : Exists(device[p]) /\ device[p].kinds \cap Kinds # {}}
  <2>1. c \in CodeFor(ks, o)
    BY <1>3 DEF SetupEndpoint, GetDeviceSetup, GetDevicesForSetup
  <2>2. ks \in SUBSET Kinds
    OBVIOUS
  <2> HIDE DEF ks
  <2> QED
    BY <2>1, <2>2
<1>4. ASSUME NEW class \in {None, "data", "online", "media"},
             c \in FactoriesEndpoint(class, Kinds, o)
      PROVE  \E ks \in SUBSET Kinds : c \in CodeFor(ks, o)
  <2>1. c \in (IF class = None THEN GetAllApprovedWithCode(o)
               ELSE IF class \in Categories THEN GetByCategoryWithCode(class, o)
               ELSE GetBySubcategoryWithCode(Kinds, o))
    BY <1>4 DEF FactoriesEndpoint, GetDeviceFactories
  <2>2. c \in GetByCategoryWithCode(class, o) => \E ks \in SUBSET Kinds : c \in CodeFor(ks, o)
    <3>1. {k \in Kinds : Exists(device[k]) /\ device[k].category = class} \in SUBSET Kinds
      OBVIOUS
    <3>2. GetByCategoryWithCode(class, o) =
            CodeFor({k \in Kinds : Exists(device[k]) /\ device[k].category = class}, o)
      BY DEF GetByCategoryWithCode, DevicesWhere
    <3> QED
      BY <3>1, <3>2
  <2> QED
    BY <2>1, <2>2 DEF GetAllApprovedWithCode, GetBySubcategoryWithCode
<1>5. \E ks \in SUBSET Kinds : c \in CodeFor(ks, o)
  BY <1>1, <1>2, <1>3, <1>4 DEF CodeServed, PackagesServed
<1> QED
  BY <1>5, CodeForRead

\* A package that is asked for by its version is not newer than one that the
\* reader may see.
LEMMA AskedRead ==
  ASSUME IInv, NEW o, NEW asked \in Versions, NEW c \in PackagesServed(o, asked)
  PROVE  MayDownload(o, c)
<1>1. PICK k \in Kinds :
        /\ PackageEndpoint(k, o, asked) # None
        /\ c = [kind |-> k, id |-> device[k].id, ver |-> PackageEndpoint(k, o, asked).ver]
  BY DEF PackagesServed
<1> DEFINE rows == CodeFor({k}, o)
           e == CHOOSE x \in rows : TRUE
           row == CHOOSE d \in CodeOf(e.id, e.ver) : TRUE
<1>2. PackageEndpoint(k, o, asked) =
        IF rows = {} THEN None
        ELSE IF ~IsDownloadable(row.cls) \/ (asked # None /\ asked > e.ver) THEN None
             ELSE [kind |-> k, ver |-> IF asked = None THEN e.ver ELSE asked]
  BY DEF PackageEndpoint, GetModuleLocation, GetDownloadVersion
<1> HIDE DEF row
<1>3. asked # None
  BY NoneAssumption
<1>4. rows # {} /\ ~(asked > e.ver) /\ c = [kind |-> k, id |-> device[k].id, ver |-> asked]
  BY <1>1, <1>2, <1>3
<1>5. e \in rows
  BY <1>4
<1> HIDE DEF e
<1>6. /\ e = [kind |-> k, id |-> device[k].id, ver |-> VersionFor(device[k], o)]
      /\ CodeOf(device[k].id, VersionFor(device[k], o)) # {}
  BY <1>5 DEF CodeFor
<1>7. e.ver \in Versions
  BY <1>6 DEF CodeOf, IInv, TablesTyped, CodeRows
<1>8. asked <= e.ver
  BY <1>4, <1>7 DEF Versions
<1>9. MayReadCode(o, e)
  BY <1>5, CodeForRead
<1>10. [c EXCEPT !.ver = e.ver] = e
  BY <1>4, <1>6
<1> QED
  BY <1>4, <1>7, <1>8, <1>9, <1>10 DEF MayDownload

\* What an endpoint keeps of the rows of a query.
LEMMA SchemasServedRead ==
  ASSUME IInv, NEW o, NEW s \in SchemasServed(o)
  PROVE  MayReadSchema(o, schema, s)
<1>1. \A k \in Kinds : SchemaBlessed(schema[k])
  BY DEF IInv, Blessings, RowsBlessed
<1>2. ASSUME NEW lang, NEW x \in WithNames(SchemasFor(schema, Kinds, o), lang),
             s = [kind |-> x.kind, id |-> x.id, ver |-> x.ver, metas |-> x.metas]
      PROVE  s \in SchemasFor(schema, Kinds, o)
  <2> DEFINE named(y) == lang = "en" \/ <<y.id, y.ver, lang>> \in canonicals
  <2>1. PICK y \in SchemasFor(schema, Kinds, o) :
          x = [kind |-> y.kind, id |-> y.id, ver |-> y.ver, metas |-> y.metas, named |-> named(y)]
    BY Zenon DEF WithNames
  <2> HIDE DEF named
  <2>2. y = [kind |-> y.kind, id |-> y.id, ver |-> y.ver, metas |-> y.metas]
    BY DEF SchemasFor
  <2> QED
    BY <1>2, <2>1, <2>2
<1>3. ASSUME NEW x \in SchemasFor(schema, Kinds, o),
             s = [kind |-> x.kind, id |-> x.id, ver |-> x.ver, metas |-> x.metas]
      PROVE  s \in SchemasFor(schema, Kinds, o)
  <2>1. x = [kind |-> x.kind, id |-> x.id, ver |-> x.ver, metas |-> x.metas]
    BY DEF SchemasFor
  <2> QED
    BY <1>3, <2>1
<1>4. ASSUME NEW meta \in BOOLEAN, s \in SchemaEndpoint(Kinds, o, meta)
      PROVE  s \in SchemasFor(schema, Kinds, o)
  <2>1. PICK x \in GetSchemas(Kinds, o, meta) :
          s = [kind |-> x.kind, id |-> x.id, ver |-> x.ver, metas |-> x.metas]
    BY <1>4 DEF SchemaEndpoint
  <2>2. x \in SchemasFor(schema, Kinds, o) \/ x \in WithNames(SchemasFor(schema, Kinds, o), "en")
    BY DEF GetSchemas, GetMetasByKinds, GetTypesAndNamesByKinds
  <2> QED
    BY <1>2, <1>3, <2>1, <2>2
<1>5. SnapshotEndpoint(0, o) = SchemasFor(schema, Kinds, o)
  BY DEF SnapshotEndpoint, GetThingpediaSnapshot, GetCurrentSnapshotTypes
<1>6. s \in SchemasFor(schema, Kinds, o)
  BY <1>2, <1>4, <1>5 DEF SchemasServed, GetCurrentSnapshotMeta
<1> QED
  BY <1>1, <1>6, SchemasForRead

LEMMA KindsListedRead ==
  ASSUME IInv, NEW o, NEW k \in KindsListed(o)
  PROVE  MayList(o, k)
<1> DEFINE DV == {j \in Kinds : Exists(device[j]) /\ RowVisible(device[j], o)}
           SV == {j \in Kinds : Exists(schema[j]) /\ RowVisible(schema[j], o)}
<1>1. /\ DevicesWhere(LAMBDA d : RowVisible(d, o)) = DV
      /\ SchemasWhere(LAMBDA s : RowVisible(s, o)) = SV
  BY DEF DevicesWhere, SchemasWhere
<1>2. k \in Kinds /\ (k \in DV \/ k \in SV) => MayList(o, k)
  BY VisibleListed
<1> HIDE DEF DV, SV
<1>3. ASSUME NEW class, k \in AllDevicesEndpoint(class, Kinds, o) PROVE k \in DV
  BY <1>1, <1>3 DEF AllDevicesEndpoint, GetDeviceList, GetAllApproved, GetByCategory,
                    GetBySubcategory, GetByField
<1>4. k \in SearchEndpoint(Kinds, o) => k \in DV
  BY <1>1 DEF SearchEndpoint, SearchDevice, GetByFuzzySearch
<1>5. k \in GetAllDeviceNames(o) \cup (Kinds \ FindNonExisting(Kinds, o)) => k \in SV
  BY <1>1 DEF GetAllDeviceNames, GetAllApprovedSchemas, FindNonExisting
<1>6. /\ k \in ExamplesSearchEndpoint(Kinds, o) => k \in SV
      /\ k \in ExamplesByKindsEndpoint(Kinds, o) => k \in SV
  BY <1>1 DEF ExamplesSearchEndpoint, GetExamplesByKey, ExamplesByKindsEndpoint,
              GetExamplesByKinds, ExamplesOf
<1>7. k \in AllExamplesEndpoint(o) => k \in SV
  <2>1. CASE o = AdminOrg
    BY <2>1 DEF AllExamplesEndpoint, GetAllExamples, GetBaseByLanguage, SchemasWhere,
                SV, RowVisible
  <2>2. CASE o # AdminOrg
    BY <1>1, <2>2 DEF AllExamplesEndpoint, GetAllExamples, GetBaseByLanguage, ExamplesOf
  <2> QED
    BY <2>1, <2>2
<1>8. k \in CommandsEndpoint \cup GetCheatsheet => k \in SV
  BY DEF CommandsEndpoint, GetCommands, GetCheatsheet, SchemasWhere, SV, RowVisible
<1>9. k \in GetByOwner(o) => k \in DV
  BY DEF GetByOwner, DevicesWhere, DV, RowVisible
<1>10. ASSUME NEW org \in Orgs, k \in GetOrgProfile(org) PROVE k \in DV
  BY <1>10 DEF GetOrgProfile, GetAllApprovedByOwner, DevicesWhere, DV, RowVisible
<1>11. k \in DV \/ k \in SV
  BY <1>3, <1>4, <1>5, <1>6, <1>7, <1>8, <1>9, <1>10 DEF KindsListed
<1>12. DV \subseteq Kinds /\ SV \subseteq Kinds
  BY DEF DV, SV
<1> QED
  BY <1>2, <1>11, <1>12

\* The pages of the website.
LEMMA PagesRead ==
  ASSUME IInv, NEW u \in Users, NEW k \in Kinds,
         NEW c \in GetDetails(u, k, 0) \cup GetUpdateForm(u, k) \cup GetClassPage(u, k)
  PROVE  MayReadCode(GetOrgId(u), c)
<1>1. CASE IsAdmin(u)
  BY <1>1 DEF MayReadCode, GetOrgId
<1>2. CASE ~IsAdmin(u)
  <2> DEFINE o == OrgOf[u]
  <2>1. GetOrgId(u) = o
    BY <1>2 DEF GetOrgId
  <2>2. ASSUME c \in GetDetails(u, k, 0) PROVE MayReadCode(o, c)
    <3> DEFINE ver == IF MayEdit(u, device[k]) THEN device[k].dev ELSE device[k].appr
    <3>1. Exists(device[k]) /\ c.kind = k /\ c.id = device[k].id
          /\ \E x \in CodeOf(device[k].id, ver) : c.ver = x.ver
      BY <1>2, <2>2 DEF GetDetails
    <3>2. c.ver = ver /\ ver \in Versions
      BY <3>1 DEF CodeOf, IInv, TablesTyped, CodeRows
    <3>3. CASE MayEdit(u, device[k])
      BY <1>2, <3>1, <3>3 DEF MayEdit, MayReadCode
    <3>4. CASE ~MayEdit(u, device[k])
      <4>1. DeviceBlessed(device[k]) /\ device[k].appr # None
        BY <3>2, <3>4, NoneAssumption DEF IInv, Blessings, RowsBlessed
      <4> QED
        BY <3>1, <3>2, <3>4, <4>1 DEF DeviceBlessed, Exists, MayReadCode
    <3> QED
      BY <3>3, <3>4
  <2>3. ASSUME c \in GetUpdateForm(u, k) PROVE MayReadCode(o, c)
    BY <1>2, <2>3 DEF GetUpdateForm, MayEdit, MayReadCode
  <2>4. ASSUME c \in GetClassPage(u, k) PROVE MayReadCode(o, c)
    <3>1. c \in CodeFor({k}, o)
      BY <2>1, <2>4 DEF GetClassPage, GetFullCodeByPrimaryKind
    <3>2. {k} \in SUBSET Kinds
      OBVIOUS
    <3> QED
      BY <3>1, <3>2, CodeForRead
  <2> QED
    BY <2>1, <2>2, <2>3, <2>4
<1> QED
  BY <1>1, <1>2

(***************************************************************************)
(* The endpoints and pages that NoUnapprovedCode names hand out no version *)
(* that nobody approved, and list no kind of which nothing was approved,   *)
(* to anybody but its owner and the admins; a package asked for by version *)
(* is not newer than one the reader may see. The searches of Commandpedia  *)
(* and the translation page are not among them.                            *)
(***************************************************************************)
THEOREM NamedEndpointsServeApproved == Spec => []NoUnapprovedCode
<1>1. IInv => NoUnapprovedCode
  <2> SUFFICES ASSUME IInv PROVE NoUnapprovedCode
      OBVIOUS
  <2>1. ASSUME NEW o \in Readers, NEW n \in DOMAIN snaps, NEW s \in SnapshotEndpoint(n, o)
        PROVE  MayReadSchema(o, snaps[n], s)
    <3>1. CASE o = AdminOrg
      BY <3>1 DEF MayReadSchema
    <3>2. CASE o # AdminOrg
      <4>1. n \in 1 .. Len(snaps) /\ n # 0
        BY DEF IInv, TablesTyped
      <4>2. s \in SchemasFor(snaps[n], Kinds, o)
        BY <2>1, <3>2, <4>1 DEF SnapshotEndpoint, GetThingpediaSnapshot, GetSnapshotTypes
      <4>3. \A k \in Kinds : SchemaBlessed(snaps[n][k])
        BY <4>1 DEF IInv, Blessings, SnapsBlessed
      <4> QED
        BY <4>2, <4>3, SchemasForRead
    <3> QED
      BY <3>1, <3>2
  <2>2. ASSUME NEW u \in Users, NEW k \in Kinds, k \in GetReview(u)
        PROVE  MayList(GetOrgId(u), k)
    BY <2>2 DEF GetReview, MayList, GetOrgId
  <2> QED
    BY <2>1, <2>2, CodeServedRead, AskedRead, SchemasServedRead, KindsListedRead, PagesRead
       DEF NoUnapprovedCode
<1> QED
  BY Invariance, <1>1, PTL
=============================================================================
