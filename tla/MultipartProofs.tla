-------------------------- MODULE MultipartProofs --------------------------
(***************************************************************************)
(* Theorems about Multipart: what concurrent upload_part, complete and     *)
(* abort requests, racing with every operation of FsStorage, can and       *)
(* cannot do to an upload, for any number of requests, parts and uploads.  *)
(***************************************************************************)
EXTENDS Multipart, TLAPS

(***************************************************************************)
(* The shape of the state.                                                 *)
(***************************************************************************)
CtlShape ==
  /\ DOMAIN pc = Reqs
  /\ DOMAIN res = Reqs
  /\ DOMAIN req = Reqs
  /\ DOMAIN before = Reqs

FileShape ==
  /\ DOMAIN otmp = Reqs
  /\ DOMAIN mtmp = Reqs
  /\ DOMAIN objects = Buckets /\ \A b \in Buckets : DOMAIN objects[b] = Keys
  /\ DOMAIN meta = Buckets /\ \A b \in Buckets : DOMAIN meta[b] = Keys

StagingShape ==
  /\ DOMAIN umeta = Uploads
  /\ DOMAIN ufile = Uploads /\ \A u \in Uploads : DOMAIN ufile[u] = PartNos
  /\ DOMAIN utmp = Reqs
  /\ \A u \in Uploads : umeta[u] # None => umeta[u].bkt \in Buckets

MpShape ==
  /\ DOMAIN up = Reqs
  /\ DOMAIN partNo = Reqs
  /\ DOMAIN list = Reqs
  /\ DOMAIN parts = Reqs
  /\ DOMAIN entries = Reqs

Shape == CtlShape /\ FileShape /\ StagingShape /\ MpShape

(***************************************************************************)
(* Where a request is tells which operation it runs, which upload it is    *)
(* about, and which temporary file it may hold.                            *)
(***************************************************************************)
PutLabels   == {"body_temp", "stream", "meta_temp", "meta_rename"}
BeginLabels == {"make_staging", "write_upload"}
PartLabels  == {"part_temp", "part_stream", "part_unlink"}
AsmLabels   == {"mk_odir", "asm_temp", "assemble", "asm_meta_temp", "asm_meta_rename"}
RmLabels    == {"rm_scan", "rm_entry"}
PlainLabels == Labels \ (PutLabels \cup {"idle", "done", "dropped", "body_unlink",
                                         "meta_unlink", "meta_delete"})

PlacedReq(r) ==
  /\ pc[r] = "idle" => req[r] = NoRequest /\ up[r] = None
  /\ pc[r] \in PutLabels => req[r].op = "put"
  /\ pc[r] \in {"body_unlink", "meta_unlink"} => req[r].op \in {"put", "complete"}
  /\ pc[r] = "meta_delete" => req[r].op = "delete"
  /\ pc[r] \in PutLabels \cup {"meta_delete"} => Bkt(r) \in Buckets /\ Key(r) \in Keys
  /\ pc[r] \in PlainLabels => req[r].op \in AllOps \ WriterOps
  /\ pc[r] \in BeginLabels => req[r].op = "create_upload" /\ Bkt(r) \in Buckets /\ Key(r) \in Keys
  /\ pc[r] \in PartLabels => req[r].op = "upload_part"
  /\ pc[r] \in AsmLabels => req[r].op = "complete" /\ Bkt(r) \in Buckets /\ Key(r) \in Keys
  /\ pc[r] \in RmLabels => req[r].op \in {"complete", "abort"}
  /\ otmp[r] # None => pc[r] \in {"stream", "assemble", "body_unlink", "dropped"}
  /\ mtmp[r] # None => pc[r] \in {"meta_rename", "asm_meta_rename", "meta_unlink", "dropped"}

Placed == \A r \in Reqs : PlacedReq(r)

(***************************************************************************)
(* What one step of request x leaves alone.                                *)
(***************************************************************************)
OthersAlone(x) ==
  \A r \in Reqs \ {x} :
    /\ pc'[r] = pc[r] /\ res'[r] = res[r]
    /\ req'[r] = req[r] /\ before'[r] = before[r]
    /\ otmp'[r] = otmp[r] /\ mtmp'[r] = mtmp[r]
    /\ up'[r] = up[r] /\ partNo'[r] = partNo[r]
    /\ list'[r] = list[r] /\ parts'[r] = parts[r]

OtherKeysAlone(x) ==
  \A b \in Buckets, k \in Keys :
    \/ x \in Writers(b, k)'
    \/ objects'[b][k] = objects[b][k] /\ meta'[b][k] = meta[b][k]

Footprint(x) ==
  /\ pc[x] \notin {"done", "dropped"} /\ pc'[x] # "idle"
  /\ OthersAlone(x)
  /\ OtherKeysAlone(x)
  /\ \/ pc[x] = "idle" /\ before'[x] = Ended
     \/ /\ pc[x] # "idle" /\ req'[x] = req[x] /\ before'[x] = before[x]
        /\ up'[x] = up[x] /\ partNo'[x] = partNo[x] /\ list'[x] = list[x]

(***************************************************************************)
(* The steps of FsStorage: no staging directory changes, and a request of  *)
(* a multipart operation can only be dropped, or end an error path that it *)
(* shares with put_object.                                                 *)
(***************************************************************************)
FsStep(x) == (Issue(x) \/ Advance(x) \/ Fault(x)) /\ UNCHANGED mpVars
MpStep(x) == MpIssue(x) \/ MpAdvance(x) \/ MpFault(x)

PlainStep(x) ==
  /\ UNCHANGED mpVars
  /\ pc'[x] \in Labels
  /\ \/ pc'[x] = "dropped" /\ pc[x] # "idle"
     \/ pc'[x] = "done" /\ res'[x] = "Io" /\ pc[x] \in {"body_unlink", "meta_unlink"}
     \/ req'[x].op \in AllOps
  /\ UNCHANGED <<objects, meta>> \/ req'[x].op \in {"put", "delete"}

FsPut(x) ==
  \/ \E b \in Buckets, k \in Keys : PutObject(x, b, k)
  \/ CreateBodyTemp(x) \/ WriteChunk(x) \/ BodyError(x) \/ UnlinkBodyTemp(x)
  \/ RenameBody(x) \/ CreateSidecarTemp(x) \/ RenameSidecar(x)
  \/ SidecarError(x) \/ UnlinkSidecarTemp(x)

FsRead(x) ==
  \/ \E b \in Buckets, k \in Keys : GetObject(x, b, k) \/ HeadObject(x, b, k) \/ DeleteObject(x, b, k)
  \/ OpenBody(x) \/ DeleteSidecar(x) \/ DeleteSidecarError(x) \/ Drop(x)

FsList(x) ==
  \/ \E b \in Buckets : ListObjects(x, b)
  \/ ReadObjectsDir(x) \/ ListEntry(x) \/ ListDone(x)
  \/ ListBuckets(x) \/ ReadBucketJson(x) \/ ListBucketsDone(x)

FsBucket(x) ==
  \/ \E b \in Buckets : CreateBucket(x, b) \/ DeleteBucket(x, b)
  \/ MakeObjectsDir(x) \/ MakeMetaDir(x) \/ OpenBucketJson(x) \/ WriteBucketJson(x)
  \/ CheckEmpty(x) \/ RemoveObjectsDir(x) \/ RecheckObjects(x)
  \/ RemoveMetaDir(x) \/ RecheckMeta(x) \/ RemoveBucketJson(x) \/ RemoveBucketDir(x)

LEMMA FsKinds ==
  ASSUME NEW x \in Reqs, Issue(x) \/ Advance(x) \/ Fault(x)
  PROVE  FsPut(x) \/ FsRead(x) \/ FsList(x) \/ FsBucket(x)
BY DEF Issue, Advance, Fault, FsPut, FsRead, FsList, FsBucket

LEMMA FsShape ==
  ASSUME Shape, NEW x \in Reqs, FsStep(x)
  PROVE  CtlShape' /\ FileShape'
<1> USE DEF Shape, CtlShape, FileShape, Accept, Goto, Return, callVars, ctlVars, fileVars
<1>1. CASE FsPut(x)
  BY <1>1 DEF FsPut, PutObject, CreateBodyTemp, WriteChunk, BodyError, UnlinkBodyTemp,
              RenameBody, CreateSidecarTemp, RenameSidecar, SidecarError, UnlinkSidecarTemp
<1>2. CASE FsRead(x)
  BY <1>2 DEF FsRead, GetObject, HeadObject, DeleteObject, OpenBody, DeleteSidecar,
              DeleteSidecarError, Drop
<1>3. CASE FsList(x)
  BY <1>3 DEF FsList, ListObjects, ReadObjectsDir, ListEntry, ListDone,
              ListBuckets, ReadBucketJson, ListBucketsDone
<1>4. CASE FsBucket(x)
  BY <1>4 DEF FsBucket, CreateBucket, DeleteBucket, MakeObjectsDir, MakeMetaDir, OpenBucketJson,
              WriteBucketJson, CheckEmpty, RemoveObjectsDir, RecheckObjects, RemoveMetaDir,
              RecheckMeta, RemoveBucketJson, RemoveBucketDir
<1> QED
  BY <1>1, <1>2, <1>3, <1>4, FsKinds DEF FsStep

LEMMA FsFootprint ==
  ASSUME Shape, Placed, NEW x \in Reqs, FsStep(x)
  PROVE  Footprint(x)
<1> USE DEF Shape, CtlShape, FileShape, Placed, PlacedReq, PutLabels, Accept, Goto, Return, Bkt, Key,
            Footprint, OthersAlone, OtherKeysAlone, Writers, WriterOps, FsStep,
            dirVars, callVars, ctlVars, fileVars, mpVars, mpCallVars, mpReadVars
<1>1. CASE FsPut(x)
  BY <1>1 DEF FsPut, PutObject, CreateBodyTemp, WriteChunk, BodyError, UnlinkBodyTemp,
              RenameBody, CreateSidecarTemp, RenameSidecar, SidecarError, UnlinkSidecarTemp
<1>2. CASE FsRead(x)
  BY <1>2 DEF FsRead, GetObject, HeadObject, DeleteObject, OpenBody, DeleteSidecar,
              DeleteSidecarError, Drop
<1>3. CASE FsList(x)
  BY <1>3 DEF FsList, ListObjects, ReadObjectsDir, ListEntry, ListDone,
              ListBuckets, ReadBucketJson, ListBucketsDone
<1>4. CASE FsBucket(x)
  BY <1>4 DEF FsBucket, CreateBucket, DeleteBucket, MakeObjectsDir, MakeMetaDir, OpenBucketJson,
              WriteBucketJson, CheckEmpty, RemoveObjectsDir, RecheckObjects, RemoveMetaDir,
              RecheckMeta, RemoveBucketJson, RemoveBucketDir
<1> QED
  BY <1>1, <1>2, <1>3, <1>4, FsKinds DEF FsStep

LEMMA FsPlain ==
  ASSUME Shape, Placed, NEW x \in Reqs, FsStep(x)
  PROVE  PlainStep(x)
<1> USE DEF Shape, CtlShape, Placed, PlacedReq, PutLabels, PlainLabels, Accept, Goto, Return, AllOps,
            PlainStep, Labels, FsStep, callVars, ctlVars, fileVars, WriterOps
<1>1. CASE FsPut(x)
  BY <1>1 DEF FsPut, PutObject, CreateBodyTemp, WriteChunk, BodyError, UnlinkBodyTemp,
              RenameBody, CreateSidecarTemp, RenameSidecar, SidecarError, UnlinkSidecarTemp
<1>2. CASE FsRead(x)
  BY <1>2 DEF FsRead, GetObject, HeadObject, DeleteObject, OpenBody, DeleteSidecar,
              DeleteSidecarError, Drop
<1>3. CASE FsList(x)
  BY <1>3 DEF FsList, ListObjects, ReadObjectsDir, ListEntry, ListDone,
              ListBuckets, ReadBucketJson, ListBucketsDone
<1>4. CASE FsBucket(x)
  BY <1>4 DEF FsBucket, CreateBucket, DeleteBucket, MakeObjectsDir, MakeMetaDir, OpenBucketJson,
              WriteBucketJson, CheckEmpty, RemoveObjectsDir, RecheckObjects, RemoveMetaDir,
              RecheckMeta, RemoveBucketJson, RemoveBucketDir
<1> QED
  BY <1>1, <1>2, <1>3, <1>4, FsKinds DEF FsStep

LEMMA FsPlaced ==
  ASSUME Shape, Placed, NEW x \in Reqs, FsStep(x)
  PROVE  PlacedReq(x)'
<1> USE DEF Shape, CtlShape, FileShape, Placed, PlacedReq, PutLabels, PlainLabels, BeginLabels,
            PartLabels, AsmLabels, RmLabels, Accept, Goto, Return, AllOps, Bkt, Key,
            Labels, FsStep, callVars, ctlVars, fileVars, mpVars, mpCallVars, WriterOps
<1>1. CASE FsPut(x)
  BY <1>1 DEF FsPut, PutObject, CreateBodyTemp, WriteChunk, BodyError, UnlinkBodyTemp,
              RenameBody, CreateSidecarTemp, RenameSidecar, SidecarError, UnlinkSidecarTemp
<1>2. CASE FsRead(x)
  BY <1>2 DEF FsRead, GetObject, HeadObject, DeleteObject, OpenBody, DeleteSidecar,
              DeleteSidecarError, Drop
<1>3. CASE FsList(x)
  BY <1>3 DEF FsList, ListObjects, ReadObjectsDir, ListEntry, ListDone,
              ListBuckets, ReadBucketJson, ListBucketsDone
<1>4. CASE FsBucket(x)
  BY <1>4 DEF FsBucket, CreateBucket, DeleteBucket, MakeObjectsDir, MakeMetaDir, OpenBucketJson,
              WriteBucketJson, CheckEmpty, RemoveObjectsDir, RecheckObjects, RemoveMetaDir,
              RecheckMeta, RemoveBucketJson, RemoveBucketDir
<1> QED
  BY <1>1, <1>2, <1>3, <1>4, FsKinds DEF FsStep

-----------------------------------------------------------------------------
(***************************************************************************)
(* The steps of Multipart.                                                 *)
(***************************************************************************)
MpBegin(x) ==
  \/ \E b \in Buckets, k \in Keys : CreateUpload(x, b, k)
  \/ MakeStagingDir(x) \/ WriteUploadMeta(x)

MpPart(x) ==
  \/ \E u \in KnownUploads, p \in PartNos : UploadPart(x, u, p)
  \/ CreatePartTemp(x) \/ RenamePart(x) \/ UnlinkPartTemp(x) \/ PartError(x)

MpComplete(x) ==
  \/ \E u \in KnownUploads, k \in Keys, l \in PartLists : CompleteUpload(x, u, k, l)
  \/ EnsureObjectsDir(x) \/ CreateAssemblyTemp(x) \/ ReadPart(x) \/ RenameAssembly(x)
  \/ CreateAssemblySidecarTemp(x) \/ RenameAssemblySidecar(x)
  \/ AssemblyError(x) \/ AssemblySidecarError(x)

MpRemove(x) ==
  \/ \E u \in KnownUploads : AbortUpload(x, u)
  \/ ScanStaging(x) \/ UnlinkEntry(x) \/ RemoveStagingDir(x)

LEMMA MpKinds ==
  ASSUME NEW x \in Reqs, MpStep(x)
  PROVE  MpBegin(x) \/ MpPart(x) \/ MpComplete(x) \/ MpRemove(x)
BY DEF MpStep, MpIssue, MpAdvance, MpFault, MpBegin, MpPart, MpComplete, MpRemove

LEMMA Known == KnownUploads \subseteq Uploads
BY DEF KnownUploads

LEMMA MpShapeStep ==
  ASSUME Shape, NEW x \in Reqs, MpStep(x)
  PROVE  CtlShape' /\ FileShape'
<1> USE DEF Shape, CtlShape, FileShape, AcceptMp, Goto, Return, callVars, ctlVars, fileVars
<1>1. CASE MpBegin(x)
  BY <1>1 DEF MpBegin, CreateUpload, MakeStagingDir, WriteUploadMeta
<1>2. CASE MpPart(x)
  BY <1>2 DEF MpPart, UploadPart, CreatePartTemp, RenamePart, UnlinkPartTemp, PartError
<1>3. CASE MpComplete(x)
  BY <1>3 DEF MpComplete, CompleteUpload, EnsureObjectsDir, CreateAssemblyTemp, ReadPart,
              RenameAssembly, CreateAssemblySidecarTemp, RenameAssemblySidecar,
              AssemblyError, AssemblySidecarError
<1>4. CASE MpRemove(x)
  BY <1>4 DEF MpRemove, AbortUpload, ScanStaging, UnlinkEntry, RemoveStagingDir, RemovalEnds
<1> QED
  BY <1>1, <1>2, <1>3, <1>4, MpKinds

LEMMA MpFootprint ==
  ASSUME Shape, Placed, NEW x \in Reqs, MpStep(x)
  PROVE  Footprint(x)
<1> USE DEF Shape, CtlShape, FileShape, MpShape, Placed, PlacedReq, AsmLabels, AcceptMp, Goto, Return,
            Bkt, Key, Footprint, OthersAlone, OtherKeysAlone, Writers, WriterOps,
            dirVars, callVars, ctlVars, fileVars, mpVars, stagingVars, mpCallVars, mpReadVars
<1>1. CASE MpBegin(x)
  BY <1>1 DEF MpBegin, CreateUpload, MakeStagingDir, WriteUploadMeta
<1>2. CASE MpPart(x)
  BY <1>2 DEF MpPart, UploadPart, CreatePartTemp, RenamePart, UnlinkPartTemp, PartError
<1>3. CASE MpComplete(x)
  BY <1>3 DEF MpComplete, CompleteUpload, EnsureObjectsDir, CreateAssemblyTemp, ReadPart,
              RenameAssembly, CreateAssemblySidecarTemp, RenameAssemblySidecar,
              AssemblyError, AssemblySidecarError
<1>4. CASE MpRemove(x)
  BY <1>4 DEF MpRemove, AbortUpload, ScanStaging, UnlinkEntry, RemoveStagingDir, RemovalEnds
<1> QED
  BY <1>1, <1>2, <1>3, <1>4, MpKinds

LEMMA MpPlaced ==
  ASSUME Shape, Placed, NEW x \in Reqs, MpStep(x)
  PROVE  PlacedReq(x)'
<1> USE DEF Shape, CtlShape, FileShape, MpShape, Placed, PlacedReq, PutLabels, PlainLabels, BeginLabels,
            PartLabels, AsmLabels, RmLabels, AcceptMp, Goto, Return, Bkt, Key,
            Labels, callVars, ctlVars, fileVars, mpVars, mpCallVars
<1>1. CASE MpBegin(x)
  BY <1>1 DEF MpBegin, CreateUpload, MakeStagingDir, WriteUploadMeta
<1>2. CASE MpPart(x)
  BY <1>2 DEF MpPart, UploadPart, CreatePartTemp, RenamePart, UnlinkPartTemp, PartError
<1>3. CASE MpComplete(x)
  BY <1>3, Known DEF MpComplete, CompleteUpload, EnsureObjectsDir, CreateAssemblyTemp, ReadPart,
              RenameAssembly, CreateAssemblySidecarTemp, RenameAssemblySidecar,
              AssemblyError, AssemblySidecarError, StagingShape
<1>4. CASE MpRemove(x)
  BY <1>4 DEF MpRemove, AbortUpload, ScanStaging, UnlinkEntry, RemoveStagingDir, RemovalEnds
<1> QED
  BY <1>1, <1>2, <1>3, <1>4, MpKinds

LEMMA StagingShapeStep ==
  ASSUME Shape, Placed, NEW x \in Reqs, MpStep(x)
  PROVE  StagingShape' /\ MpShape'
<1> USE Known DEF Shape, StagingShape, MpShape, Placed, PlacedReq, BeginLabels, Uploads,
            AcceptMp, Goto, Return, Bkt, Key, stagingVars, mpVars, mpCallVars, mpReadVars
<1>1. CASE MpBegin(x)
  BY <1>1 DEF MpBegin, CreateUpload, MakeStagingDir, WriteUploadMeta
<1>2. CASE MpPart(x)
  BY <1>2 DEF MpPart, UploadPart, CreatePartTemp, RenamePart, UnlinkPartTemp, PartError
<1>3. CASE MpComplete(x)
  BY <1>3 DEF MpComplete, CompleteUpload, EnsureObjectsDir, CreateAssemblyTemp, ReadPart,
              RenameAssembly, CreateAssemblySidecarTemp, RenameAssemblySidecar,
              AssemblyError, AssemblySidecarError
<1>4. CASE MpRemove(x)
  <2>1. CASE UnlinkEntry(x)
    <3>1. /\ umeta' = umeta \/ \E u : umeta' = [umeta EXCEPT ![u] = None]
          /\ ufile' = ufile \/ \E u, p : ufile' = [ufile EXCEPT ![u][p] = None]
          /\ utmp' = utmp \/ \E t : utmp' = [utmp EXCEPT ![t] = None]
      BY <2>1 DEF UnlinkEntry, Unlink
    <3>2. DOMAIN umeta' = Uploads /\ \A u \in Uploads : umeta'[u] # None => umeta'[u].bkt \in Buckets
      <4>1. DOMAIN umeta' = Uploads /\ \A u \in Uploads : umeta'[u] \in {umeta[u], None}
        BY ONLY <3>1, DOMAIN umeta = Uploads
      <4>2. \A u \in Uploads : umeta[u] # None => umeta[u].bkt \in Buckets
        OBVIOUS
      <4> QED
        BY ONLY <4>1, <4>2
    <3>3. DOMAIN ufile' = Uploads /\ \A u \in Uploads : DOMAIN ufile'[u] = PartNos
      BY <3>1
    <3>4. DOMAIN utmp' = Reqs
      BY <3>1
    <3>5. MpShape'
      BY <2>1 DEF UnlinkEntry
    <3> QED
      BY <3>2, <3>3, <3>4, <3>5
  <2>2. CASE ~UnlinkEntry(x)
    BY <1>4, <2>2 DEF MpRemove, AbortUpload, ScanStaging, RemoveStagingDir, RemovalEnds
  <2> QED
    BY <2>1, <2>2
<1> QED
  BY <1>1, <1>2, <1>3, <1>4, MpKinds

-----------------------------------------------------------------------------
(***************************************************************************)
(* What a request knows: the requests that had ended when it was issued,   *)
(* none of which is about an upload that it creates itself, and an upload  *)
(* that a create_multipart_upload has returned.                            *)
(***************************************************************************)
Uses == {"upload_part", "complete", "abort"}

Knows(r) ==
  /\ req[r].op \in AllOps \cup MpAllOps \cup {"none"}
  /\ req[r].op \in AllOps \cup {"none"} => up[r] = None
  /\ req[r].op = "create_upload" => up[r] = r
  /\ req[r].op \in Uses => up[r] \in KnownUploads
  /\ req[r].op = "upload_part" => partNo[r] \in PartNos
  /\ before[r] \subseteq Ended
  /\ \A a \in before[r] : up[a] # r

Informed == \A r \in Reqs : Knows(r)

LEMMA KnownGrow ==
  ASSUME NEW x \in Reqs, Footprint(x)
  PROVE  KnownUploads \subseteq KnownUploads' /\ Ended \subseteq Ended'
<1>1. \A r \in Reqs : pc[r] \in {"done", "dropped"} =>
        pc'[r] = pc[r] /\ res'[r] = res[r] /\ req'[r] = req[r]
  BY DEF Footprint, OthersAlone
<1> QED
  BY <1>1 DEF KnownUploads, Created, Ended

LEMMA Issued ==
  ASSUME Shape, NEW x \in Reqs, MpStep(x), pc[x] = "idle"
  PROVE  MpIssue(x)
BY DEF MpStep, MpAdvance, MpFault, MakeStagingDir, WriteUploadMeta, CreatePartTemp, RenamePart,
       UnlinkPartTemp, EnsureObjectsDir, CreateAssemblyTemp, ReadPart, RenameAssembly,
       CreateAssemblySidecarTemp, RenameAssemblySidecar, ScanStaging, UnlinkEntry,
       RemoveStagingDir, PartError, AssemblyError, AssemblySidecarError

LEMMA KnowsStep ==
  ASSUME Shape, Placed, Informed, NEW x \in Reqs, FsStep(x) \/ MpStep(x)
  PROVE  Informed'
<1>1. Footprint(x)
  BY FsFootprint, MpFootprint
<1>2. KnownUploads \subseteq KnownUploads' /\ Ended \subseteq Ended'
  BY <1>1, KnownGrow
<1>3. ASSUME NEW r \in Reqs \ {x}
      PROVE  Knows(r)'
  <2>1. /\ req'[r] = req[r] /\ before'[r] = before[r] /\ up'[r] = up[r] /\ partNo'[r] = partNo[r]
    BY <1>1 DEF Footprint, OthersAlone
  <2>2. \A a \in before[r] : up'[a] = up[a]
    BY <1>1 DEF Footprint, OthersAlone, Informed, Knows, Ended
  <2> QED
    BY <1>2, <2>1, <2>2 DEF Informed, Knows
<1>4. CASE pc[x] # "idle"
  <2>1. /\ req'[x] = req[x] /\ before'[x] = before[x] /\ up'[x] = up[x] /\ partNo'[x] = partNo[x]
    BY <1>1, <1>4 DEF Footprint
  <2>2. \A a \in before[x] : up'[a] = up[a]
    BY <1>1 DEF Footprint, OthersAlone, Informed, Knows, Ended
  <2>3. Knows(x)'
    BY <1>2, <2>1, <2>2 DEF Informed, Knows
  <2> QED
    BY <1>3, <2>3 DEF Informed
<1>5. CASE pc[x] = "idle"
  <2>1. before'[x] = Ended /\ Ended \subseteq Reqs /\ x \notin Ended
    BY <1>1, <1>5 DEF Footprint, Ended
  <2>2. ASSUME NEW a \in Ended
        PROVE  up'[a] # x
    <3>1. up'[a] = up[a] /\ a # x /\ Knows(a)
      BY <1>1, <2>1 DEF Footprint, OthersAlone, Informed
    <3>2. x \notin KnownUploads
      BY <1>5, ConstantsAssumption DEF KnownUploads, Created
    <3> QED
      BY <3>1, <3>2, ConstantsAssumption DEF Knows, Uses, AllOps, MpAllOps
  <2>3. CASE FsStep(x)
    <3>1. req'[x].op \in AllOps /\ up'[x] = None
      BY <1>5, <2>3, FsPlain DEF PlainStep, mpVars, mpCallVars, Placed, PlacedReq
    <3>2. Knows(x)'
      BY <1>2, <2>1, <2>2, <3>1 DEF Knows, AllOps, Uses
    <3> QED
      BY <1>3, <3>2 DEF Informed
  <2>4. CASE MpStep(x)
    <3>1. /\ req'[x].op \in MpAllOps
          /\ req'[x].op = "create_upload" => up'[x] = x
          /\ req'[x].op \in Uses => up'[x] \in KnownUploads
          /\ req'[x].op = "upload_part" => partNo'[x] \in PartNos
      BY <1>5, <2>4, Issued DEF MpIssue, CreateUpload, UploadPart, CompleteUpload, AbortUpload,
         AcceptMp, Uses, MpAllOps, Shape, CtlShape, MpShape
    <3>2. Knows(x)'
      BY <1>2, <2>1, <2>2, <3>1 DEF Knows, AllOps, MpAllOps
    <3> QED
      BY <1>3, <3>2 DEF Informed
  <2> QED
    BY <2>3, <2>4
<1> QED
  BY <1>4, <1>5

(***************************************************************************)
(* A request that is under way takes the step of the label it is at.       *)
(***************************************************************************)
LEMMA AtLabel ==
  ASSUME NEW x \in Reqs, MpStep(x)
  PROVE  /\ pc[x] \in BeginLabels => MakeStagingDir(x) \/ WriteUploadMeta(x)
         /\ pc[x] \in PartLabels =>
              CreatePartTemp(x) \/ RenamePart(x) \/ UnlinkPartTemp(x) \/ PartError(x)
         /\ pc[x] \in AsmLabels =>
              \/ EnsureObjectsDir(x) \/ CreateAssemblyTemp(x) \/ ReadPart(x) \/ RenameAssembly(x)
              \/ CreateAssemblySidecarTemp(x) \/ RenameAssemblySidecar(x)
              \/ AssemblyError(x) \/ AssemblySidecarError(x)
         /\ pc[x] \in RmLabels => ScanStaging(x) \/ UnlinkEntry(x) \/ RemoveStagingDir(x)
         /\ pc[x] \in {"idle"} \cup BeginLabels \cup PartLabels \cup AsmLabels \cup RmLabels
<1> USE DEF BeginLabels, PartLabels, AsmLabels, RmLabels, AcceptMp
<1>1. CASE MpBegin(x)
  BY <1>1 DEF MpBegin, CreateUpload, MakeStagingDir, WriteUploadMeta
<1>2. CASE MpPart(x)
  BY <1>2 DEF MpPart, UploadPart, CreatePartTemp, RenamePart, UnlinkPartTemp, PartError
<1>3. CASE MpComplete(x)
  BY <1>3 DEF MpComplete, CompleteUpload, EnsureObjectsDir, CreateAssemblyTemp, ReadPart,
              RenameAssembly, CreateAssemblySidecarTemp, RenameAssemblySidecar,
              AssemblyError, AssemblySidecarError
<1>4. CASE MpRemove(x)
  BY <1>4 DEF MpRemove, AbortUpload, ScanStaging, UnlinkEntry, RemoveStagingDir
<1> QED
  BY <1>1, <1>2, <1>3, <1>4, MpKinds

(* A step of FsStorage by a multipart request drops it, or ends an error   *)
(* path of a complete.                                                     *)
LEMMA FsEnds ==
  ASSUME Shape, Placed, NEW x \in Reqs, FsStep(x), req[x].op \in MpAllOps
  PROVE  \/ pc'[x] = "dropped"
         \/ pc'[x] = "done" /\ res'[x] = "Io" /\ req[x].op = "complete"
<1>1. PlainStep(x) /\ Footprint(x)
  BY FsPlain, FsFootprint
<1>2. pc[x] # "idle" /\ req'[x] = req[x]
  BY <1>1 DEF Footprint, Placed, PlacedReq, NoRequest, MpAllOps
<1> QED
  BY <1>1, <1>2 DEF PlainStep, MpAllOps, AllOps, Placed, PlacedReq

-----------------------------------------------------------------------------
(***************************************************************************)
(* What a step can change in the staging area: a directory is made by the  *)
(* create_multipart_upload that owns it and removed when it is empty,      *)
(* _meta.json is written by that request, a part file by the upload_part   *)
(* that holds its temporary file, and only remove_dir_all unlinks.         *)
(***************************************************************************)
Removes(x, u) == pc[x] = "rm_entry" /\ up[x] = u

UdirFoot(x) ==
  \A u \in Uploads :
    /\ u \in udir /\ u \notin udir' =>
         Removes(x, u) /\ StagingEntries(u) = {} /\ UNCHANGED <<umeta, ufile, utmp>>
    /\ u \notin udir /\ u \in udir' => u = x /\ pc[x] = "make_staging"

UmetaFoot(x) ==
  \A u \in Uploads :
    umeta'[u] # umeta[u] =>
      \/ u = x /\ pc[x] = "write_upload" /\ umeta'[u] # None
      \/ umeta'[u] = None /\ Removes(x, u)

UfileFoot(x) ==
  \A u \in Uploads, p \in PartNos :
    ufile'[u][p] # ufile[u][p] =>
      \/ /\ u = up[x] /\ p = partNo[x] /\ ufile'[u][p] = x
         /\ pc[x] = "part_stream" /\ utmp[x] # None
      \/ ufile'[u][p] = None /\ Removes(x, u)

UtmpFoot(x) ==
  \A t \in Reqs :
    utmp'[t] # utmp[t] =>
      \/ utmp'[t] = None
      \/ t = x /\ utmp'[t] = up[x] /\ up[x] \in udir /\ pc[x] = "part_temp" /\ pc'[x] = "part_stream"

StagingFoot(x) == UdirFoot(x) /\ UmetaFoot(x) /\ UfileFoot(x) /\ UtmpFoot(x)

LEMMA UnlinkFoot ==
  ASSUME Shape, NEW x \in Reqs, UnlinkEntry(x)
  PROVE  StagingFoot(x)
<1>1. pc[x] = "rm_entry" /\ UNCHANGED udir
  BY DEF UnlinkEntry
<1>2. /\ umeta' = umeta \/ umeta' = [umeta EXCEPT ![up[x]] = None]
      /\ ufile' = ufile \/ \E p : ufile' = [ufile EXCEPT ![up[x]][p] = None]
      /\ utmp' = utmp \/ \E t : utmp' = [utmp EXCEPT ![t] = None]
  BY DEF UnlinkEntry, Unlink
<1>3. UmetaFoot(x)
  BY <1>1, <1>2 DEF UmetaFoot, Removes, Shape, StagingShape
<1>4. UfileFoot(x)
  <2>1. ASSUME NEW n, ufile' = [ufile EXCEPT ![up[x]][n] = None],
               NEW u \in Uploads, NEW p \in PartNos, ufile'[u][p] # ufile[u][p]
        PROVE  ufile'[u][p] = None /\ u = up[x]
    <3>1. DOMAIN ufile = Uploads /\ DOMAIN ufile[u] = PartNos
      BY DEF Shape, StagingShape
    <3> QED
      BY ONLY <2>1, <3>1
  <2> QED
    BY <1>1, <1>2, <2>1 DEF UfileFoot, Removes
<1>5. UtmpFoot(x)
  BY <1>1, <1>2 DEF UtmpFoot, Shape, StagingShape
<1> QED
  BY <1>1, <1>3, <1>4, <1>5 DEF StagingFoot, UdirFoot

LEMMA StagingStep ==
  ASSUME Shape, Placed, Informed, NEW x \in Reqs, FsStep(x) \/ MpStep(x)
  PROVE  StagingFoot(x)
<1> USE DEF StagingFoot, UdirFoot, UmetaFoot, UfileFoot, UtmpFoot, Removes
<1>1. CASE FsStep(x)
  BY <1>1 DEF FsStep, mpVars, stagingVars
<1>2. CASE MpBegin(x)
  <2>1. [bkt |-> Bkt(x), key |-> Key(x)] # None \/ pc[x] # "write_upload"
    BY MpAssumption DEF Placed, PlacedReq, BeginLabels
  <2> QED
    BY <1>2, <2>1 DEF MpBegin, CreateUpload, MakeStagingDir, WriteUploadMeta, stagingVars,
                      Shape, StagingShape
<1>3. CASE MpPart(x)
  BY <1>3 DEF MpPart, UploadPart, CreatePartTemp, RenamePart, UnlinkPartTemp, PartError,
              mpVars, stagingVars, Shape, StagingShape, CtlShape, Goto
<1>4. CASE MpComplete(x)
  BY <1>4 DEF MpComplete, CompleteUpload, EnsureObjectsDir, CreateAssemblyTemp, ReadPart,
              RenameAssembly, CreateAssemblySidecarTemp, RenameAssemblySidecar,
              AssemblyError, AssemblySidecarError, mpVars, stagingVars
<1>5. CASE MpRemove(x)
  <2>1. CASE \E u \in KnownUploads : AbortUpload(x, u)
    BY <2>1 DEF AbortUpload, stagingVars
  <2>2. CASE ScanStaging(x)
    BY <2>2 DEF ScanStaging, stagingVars
  <2>3. CASE UnlinkEntry(x)
    BY <2>3, UnlinkFoot
  <2>4. CASE RemoveStagingDir(x)
    BY <2>4 DEF RemoveStagingDir
  <2> QED
    BY <1>5, <2>1, <2>2, <2>3, <2>4 DEF MpRemove
<1> QED
  BY <1>1, <1>2, <1>3, <1>4, <1>5, MpKinds

-----------------------------------------------------------------------------
(***************************************************************************)
(* Aborts.  A directory that is gone is empty, and only the                *)
(* create_multipart_upload that owns it, which has long returned when an   *)
(* abort is issued, could make it again.                                   *)
(***************************************************************************)
Vacant(u) ==
  /\ umeta[u] = None
  /\ \A p \in PartNos : ufile[u][p] = None
  /\ \A t \in Reqs : utmp[t] # u

Staged ==
  /\ \A u \in Uploads \ udir : Vacant(u)
  /\ \A r \in Reqs : pc[r] = "write_upload" => r \in udir
  /\ \A t \in Reqs : utmp[t] # None =>
       utmp[t] = up[t] /\ req[t].op = "upload_part" /\ pc[t] \in {"part_stream", "part_unlink", "dropped"}

(* A request about an upload that was aborted before.                      *)
Refused(r) ==
  \/ pc[r] = "done" /\ res[r] = "NoSuchUpload"
  \/ pc[r] = "rm_scan" /\ req[r].op = "abort"
  \/ pc[r] = "dropped"

Aborted(a) ==
  req[a].op = "abort" /\ Succeeded(a) =>
    /\ up[a] \notin udir
    /\ \A r \in Reqs : a \in before[r] /\ up[r] = up[a] => Refused(r)

LEMMA VacantEntries ==
  ASSUME NEW u \in Uploads
  PROVE  StagingEntries(u) = {} <=> Vacant(u)
BY DEF StagingEntries, Vacant

LEMMA StagedStep ==
  ASSUME Shape, Placed, Informed, Staged, NEW x \in Reqs, FsStep(x) \/ MpStep(x)
  PROVE  Staged'
<1>1. StagingFoot(x) /\ Footprint(x)
  BY StagingStep, FsFootprint, MpFootprint
<1>2. \A r \in Reqs : Removes(x, r) => Created(r)
  BY ConstantsAssumption DEF Removes, Placed, PlacedReq, RmLabels, Informed, Knows, Uses, KnownUploads
<1>3. ASSUME NEW u \in Uploads \ udir'
      PROVE  Vacant(u)'
  <2>1. CASE u \in udir
    <3>1. StagingEntries(u) = {} /\ UNCHANGED <<umeta, ufile, utmp>>
      BY <1>1, <1>3, <2>1 DEF StagingFoot, UdirFoot
    <3> QED
      BY <3>1, VacantEntries DEF Vacant
  <2>2. CASE u \notin udir
    <3>1. Vacant(u)
      BY <2>2 DEF Staged
    <3>2. umeta'[u] = None
      BY <1>1, <2>2, <3>1 DEF StagingFoot, UmetaFoot, Vacant, Staged
    <3>3. \A p \in PartNos : ufile'[u][p] = None
      BY <1>1, <2>2, <3>1 DEF StagingFoot, UfileFoot, Vacant, Staged
    <3>4. \A t \in Reqs : utmp'[t] # u
      BY <1>1, <2>2, <3>1, ConstantsAssumption DEF StagingFoot, UtmpFoot, Vacant, Uploads
    <3> QED
      BY <3>2, <3>3, <3>4 DEF Vacant
  <2> QED
    BY <2>1, <2>2
<1>4. ASSUME NEW r \in Reqs, pc'[r] = "write_upload"
      PROVE  r \in udir'
  <2>1. CASE r # x
    BY <1>1, <1>2, <1>4, <2>1 DEF Footprint, OthersAlone, StagingFoot, UdirFoot, Staged, Created, Uploads
  <2>2. CASE r = x
    <3>1. ~FsStep(x)
      BY <1>4, <2>2, FsPlain DEF PlainStep, Labels
    <3>2. MpStep(x) /\ ~MpPart(x) /\ ~MpComplete(x) /\ ~MpRemove(x)
      BY <1>4, <2>2, <3>1 DEF Shape, CtlShape, Goto, Return, ctlVars, mpVars, AcceptMp, RemovalEnds,
         MpPart, UploadPart, CreatePartTemp, RenamePart, UnlinkPartTemp, PartError,
         MpComplete, CompleteUpload, EnsureObjectsDir, CreateAssemblyTemp, ReadPart,
         RenameAssembly, CreateAssemblySidecarTemp, RenameAssemblySidecar,
         AssemblyError, AssemblySidecarError,
         MpRemove, AbortUpload, ScanStaging, UnlinkEntry, RemoveStagingDir
    <3>3. MakeStagingDir(x)
      BY <1>4, <2>2, <3>2, MpKinds DEF MpBegin, CreateUpload, WriteUploadMeta, Shape, CtlShape,
         Goto, Return
    <3> QED
      BY <2>2, <3>3 DEF MakeStagingDir
  <2> QED
    BY <2>1, <2>2
<1>5. ASSUME NEW t \in Reqs, utmp'[t] # None
      PROVE  utmp'[t] = up'[t] /\ req'[t].op = "upload_part" /\ pc'[t] \in {"part_stream", "part_unlink", "dropped"}
  <2>1. CASE t # x
    BY <1>1, <1>5, <2>1 DEF Footprint, OthersAlone, StagingFoot, UtmpFoot, Staged
  <2>2. CASE t = x /\ utmp'[x] # utmp[x]
    BY <1>1, <1>5, <2>2 DEF Footprint, StagingFoot, UtmpFoot, Placed, PlacedReq, PartLabels
  <2>3. CASE t = x /\ utmp'[x] = utmp[x]
    <3>1. utmp[x] = up[x] /\ req[x].op = "upload_part" /\ pc[x] \in {"part_stream", "part_unlink"}
      BY <1>1, <1>5, <2>3 DEF Staged, Footprint
    <3>2. req'[x] = req[x] /\ up'[x] = up[x]
      BY <1>1, <3>1 DEF Footprint
    <3>3. CASE FsStep(x)
      BY <2>3, <3>1, <3>2, <3>3, FsEnds DEF MpAllOps
    <3>4. CASE MpStep(x)
      <4>1. RenamePart(x) \/ UnlinkPartTemp(x) \/ PartError(x)
        BY <3>1, <3>4, AtLabel DEF PartLabels, CreatePartTemp
      <4>2. utmp'[x] # None /\ DOMAIN utmp = Reqs /\ DOMAIN pc = Reqs
        BY <1>5, <2>3 DEF Shape, StagingShape, CtlShape
      <4>3. pc'[x] = "part_unlink"
        BY <4>1, <4>2 DEF RenamePart, UnlinkPartTemp, PartError, Goto, Return
      <4> QED
        BY <2>3, <3>1, <3>2, <4>3
    <3> QED
      BY <3>3, <3>4
  <2> QED
    BY <2>1, <2>2, <2>3
<1> QED
  BY <1>3, <1>4, <1>5 DEF Staged

LEMMA AbortedStep ==
  ASSUME Shape, Placed, Informed, Staged, \A a \in Reqs : Aborted(a),
         NEW x \in Reqs, FsStep(x) \/ MpStep(x)
  PROVE  \A a \in Reqs : Aborted(a)'
<1>1. StagingFoot(x) /\ Footprint(x) /\ Informed'
  BY StagingStep, FsFootprint, MpFootprint, KnowsStep
<1> SUFFICES ASSUME NEW a \in Reqs, req'[a].op = "abort", Succeeded(a)'
             PROVE  /\ up'[a] \notin udir'
                    /\ \A r \in Reqs : a \in before'[r] /\ up'[r] = up'[a] => Refused(r)'
  BY DEF Aborted
<1>2. CASE a = x
  <2>1. pc[x] # "idle"
    <3>1. SUFFICES ASSUME pc[x] = "idle" PROVE FALSE
      OBVIOUS
    <3>2. ~FsStep(x)
      BY <1>2, <3>1, FsPlain DEF PlainStep, AllOps
    <3>3. MpIssue(x)
      BY <3>1, <3>2, Issued
    <3> QED
      BY <1>2, <3>3 DEF MpIssue, CreateUpload, UploadPart, CompleteUpload, AbortUpload, AcceptMp,
         Shape, CtlShape, Goto, Succeeded
  <2>2. req[x].op = "abort" /\ before'[x] = before[x] /\ up'[x] = up[x]
    BY <1>1, <1>2, <2>1 DEF Footprint
  <2>3. MpStep(x)
    BY <1>2, <2>2, FsEnds DEF MpAllOps, Succeeded
  <2>4. ScanStaging(x) \/ UnlinkEntry(x) \/ RemoveStagingDir(x)
    BY <2>1, <2>2, <2>3, AtLabel DEF Placed, PlacedReq, BeginLabels, PartLabels, AsmLabels
  <2>5. up[x] \notin udir'
    BY <1>1, <1>2, <2>2, <2>4 DEF ScanStaging, UnlinkEntry, RemoveStagingDir, RemovalEnds, Return,
       Goto, Shape, CtlShape, Succeeded, ctlVars, Footprint
  <2>6. \A r \in Reqs : x \notin before'[r]
    BY <1>1, <2>2 DEF Footprint, OthersAlone, Informed, Knows, Ended
  <2> QED
    BY <1>2, <2>2, <2>5, <2>6
<1>3. CASE a # x
  <2>1. /\ req[a].op = "abort" /\ Succeeded(a) /\ up'[a] = up[a]
    BY <1>1, <1>3 DEF Footprint, OthersAlone, Succeeded
  <2>2. up[a] \in KnownUploads /\ up[a] \in Uploads /\ up[a] \notin udir
    BY <2>1, Known DEF Aborted, Informed, Knows, Uses
  <2>3. up[a] \notin udir'
    BY <1>1, <2>2, ConstantsAssumption DEF StagingFoot, UdirFoot, KnownUploads, Created
  <2>4. ASSUME NEW r \in Reqs, a \in before'[r], up'[r] = up[a]
        PROVE  Refused(r)'
    <3>1. CASE r # x
      <4>1. Refused(r)
        BY <1>1, <2>1, <2>4, <3>1 DEF Footprint, OthersAlone, Aborted
      <4> QED
        BY <1>1, <3>1, <4>1 DEF Footprint, OthersAlone, Refused
    <3>2. CASE r = x /\ pc[x] # "idle"
      <4>1. Refused(x) /\ up[x] = up[a] /\ req'[x] = req[x]
        BY <1>1, <2>1, <2>4, <3>2 DEF Footprint, Aborted
      <4>2. pc[x] = "rm_scan" /\ req[x].op = "abort"
        BY <1>1, <4>1 DEF Footprint, Refused
      <4>3. CASE FsStep(x)
        BY <3>2, <4>2, <4>3, FsEnds DEF MpAllOps, Refused
      <4>4. CASE MpStep(x)
        <5>1. ScanStaging(x)
          BY <4>2, <4>4, AtLabel DEF RmLabels, UnlinkEntry, RemoveStagingDir
        <5> QED
          BY <2>2, <3>2, <4>1, <4>2, <5>1 DEF ScanStaging, RemovalEnds, Return, Refused, Shape, CtlShape
      <4> QED
        BY <4>3, <4>4
    <3>3. CASE r = x /\ pc[x] = "idle"
      <4>1. up'[x] # x
        BY <1>1, <2>1, <2>4, <3>3 DEF Informed, Knows
      <4>2. ~FsStep(x)
        BY <2>2, <2>4, <3>3, ConstantsAssumption DEF FsStep, mpVars, mpCallVars, Placed, PlacedReq, Uploads
      <4>3. MpIssue(x)
        BY <3>3, <4>2, Issued
      <4>4. DOMAIN pc = Reqs /\ DOMAIN res = Reqs /\ DOMAIN req = Reqs /\ DOMAIN up = Reqs
        BY DEF Shape, CtlShape, MpShape
      <4>5. umeta[up[a]] = None
        BY <2>2 DEF Staged, Vacant
      <4>6. \/ \E p \in PartNos : UploadPart(x, up[a], p)
            \/ \E k \in Keys, l \in PartLists : CompleteUpload(x, up[a], k, l)
            \/ AbortUpload(x, up[a])
        BY <2>4, <3>3, <4>1, <4>3, <4>4 DEF MpIssue, CreateUpload, UploadPart, CompleteUpload,
           AbortUpload, AcceptMp
      <4> QED
        BY <2>2, <3>3, <4>4, <4>5, <4>6 DEF UploadPart, CompleteUpload, AbortUpload, AcceptMp,
           Goto, Return, Refused
    <3> QED
      BY <3>1, <3>2, <3>3
  <2> QED
    BY <2>1, <2>3, <2>4
<1> QED
  BY <1>2, <1>3

-----------------------------------------------------------------------------
(***************************************************************************)
(* The inductive invariant of the staging area, and the first theorems.    *)
(***************************************************************************)
MpInv ==
  /\ Shape
  /\ Placed
  /\ Informed
  /\ Staged
  /\ \A a \in Reqs : Aborted(a)

LEMMA MpInvInit == MpInit => MpInv
<1> SUFFICES ASSUME MpInit PROVE MpInv
  OBVIOUS
<1> USE DEF MpInit, Init
<1>1. CtlShape /\ FileShape
  BY DEF CtlShape, FileShape
<1>2. StagingShape /\ MpShape
  BY DEF StagingShape, MpShape
<1>3. \A r \in Reqs : pc[r] = "idle" /\ req[r] = NoRequest /\ up[r] = None /\ before[r] = {}
  OBVIOUS
<1>4. Placed
  BY <1>3 DEF Placed, PlacedReq, PutLabels, PlainLabels, BeginLabels, PartLabels, AsmLabels, RmLabels
<1>5. Informed
  BY <1>3 DEF Informed, Knows, NoRequest, AllOps, Uses, MpAllOps
<1>6. Staged
  <2>1. ASSUME NEW u \in Uploads \ udir
        PROVE  Vacant(u)
    <3>1. u \in Reqs /\ u # Old /\ u # None
      BY ConstantsAssumption DEF Uploads
    <3> QED
      BY <3>1 DEF Vacant
  <2> QED
    BY <1>3, <2>1 DEF Staged
<1>7. \A a \in Reqs : Aborted(a)
  BY <1>3 DEF Aborted, NoRequest
<1> QED
  BY <1>1, <1>2, <1>4, <1>5, <1>6, <1>7 DEF MpInv, Shape

(* Every step is a step of one request, or changes nothing.                *)
LEMMA MpSteps ==
  ASSUME [MpNext]_allVars
  PROVE  (\E x \in Reqs : FsStep(x) \/ MpStep(x)) \/ UNCHANGED allVars
BY DEF MpNext, Quiescent, FsStep, MpStep, allVars

LEMMA ShapeStep ==
  ASSUME Shape, Placed, NEW x \in Reqs, FsStep(x) \/ MpStep(x)
  PROVE  Shape' /\ Placed'
<1>1. Footprint(x)
  BY FsFootprint, MpFootprint
<1>2. PlacedReq(x)'
  BY FsPlaced, MpPlaced
<1>3. \A r \in Reqs \ {x} : PlacedReq(r)'
  BY <1>1 DEF Footprint, OthersAlone, Placed, PlacedReq, Bkt, Key
<1>4. Placed'
  BY <1>2, <1>3 DEF Placed
<1>5. CASE FsStep(x)
  <2>1. CtlShape' /\ FileShape'
    BY <1>5, FsShape
  <2>2. StagingShape' /\ MpShape'
    BY <1>5 DEF Shape, FsStep, mpVars, stagingVars, mpCallVars, mpReadVars, StagingShape, MpShape
  <2> QED
    BY <1>4, <2>1, <2>2 DEF Shape
<1>6. CASE MpStep(x)
  BY <1>4, <1>6, MpShapeStep, StagingShapeStep DEF Shape
<1> QED
  BY <1>5, <1>6

LEMMA MpInvStep == MpInv /\ [MpNext]_allVars => MpInv'
<1> SUFFICES ASSUME MpInv, [MpNext]_allVars PROVE MpInv'
  OBVIOUS
<1>1. CASE \E x \in Reqs : FsStep(x) \/ MpStep(x)
  BY <1>1, ShapeStep, KnowsStep, StagedStep, AbortedStep DEF MpInv
<1>2. CASE UNCHANGED allVars
  <2> USE <1>2 DEF MpInv, allVars, vars, dirVars, fileVars, callVars, ctlVars, readVars,
                   mpVars, stagingVars, mpCallVars, mpReadVars
  <2>1. Shape'
    BY DEF Shape, CtlShape, FileShape, StagingShape, MpShape
  <2>2. Placed'
    BY DEF Placed, PlacedReq, Bkt, Key
  <2>3. Informed'
    BY DEF Informed, Knows, KnownUploads, Created, Ended
  <2>4. Staged'
    BY DEF Staged, Vacant
  <2>5. (\A a \in Reqs : Aborted(a))'
    BY DEF Aborted, Refused, Succeeded
  <2> QED
    BY <2>1, <2>2, <2>3, <2>4, <2>5
<1> QED
  BY <1>1, <1>2, MpSteps

LEMMA MpInvariant == MpSpec => []MpInv
BY MpInvInit, MpInvStep, PTL DEF MpSpec

(* A multipart request that returns, on any path, leaves no temporary file *)
(* in objects/, meta/ or the staging directory, whoever removes that       *)
(* directory under it.                                                     *)
THEOREM NoMpTempIsLeaked == MpSpec => []MpNoTempLeak
<1>1. MpInv => MpNoTempLeak
  BY DEF MpInv, Placed, PlacedReq, Staged, MpNoTempLeak, NoTempLeak
<1> QED
  BY <1>1, MpInvariant, PTL

(* Once abort_multipart_upload has returned with success nothing of the    *)
(* upload comes back, and everyone who asks for it later is refused: for   *)
(* any number of parts, completes and aborts on their way.                 *)
THEOREM AbortsAreFinal == MpSpec => []AbortIsFinal
<1>1. MpInv => AbortIsFinal
  <2> SUFFICES ASSUME MpInv, NEW a \in Reqs, req[a].op = "abort", Succeeded(a)
               PROVE  /\ up[a] \notin udir
                      /\ StagingEntries(up[a]) = {}
                      /\ \A r \in Reqs : a \in before[r] /\ up[r] = up[a] /\ pc[r] = "done"
                                           => res[r] = "NoSuchUpload"
    BY DEF AbortIsFinal
  <2>1. Aborted(a) /\ up[a] \in Uploads
    BY Known DEF MpInv, Informed, Knows, Uses
  <2>2. up[a] \notin udir /\ \A r \in Reqs : a \in before[r] /\ up[r] = up[a] => Refused(r)
    BY <2>1 DEF Aborted
  <2>3. StagingEntries(up[a]) = {}
    BY <2>1, <2>2, VacantEntries DEF MpInv, Staged
  <2> QED
    BY <2>2, <2>3 DEF Refused
<1> QED
  BY <1>1, MpInvariant, PTL

-----------------------------------------------------------------------------
(***************************************************************************)
(* Completes.  HasBody and HasSidecar say that the object a complete is    *)
(* for is there: its own, or one that another complete of the same upload  *)
(* stored over it, as long as no other request writes the key.             *)
(***************************************************************************)
Bodies(u) == {Full(y) : y \in Calls("complete", u)}

Exclusive(c) == Writers(Bkt(c), Key(c)) \subseteq Calls("complete", up[c])

Target(c) == req[c].op = "complete" /\ Bkt(c) \in Buckets /\ Key(c) \in Keys

HasBody(c) ==
  Target(c) /\ (Exclusive(c) => objects[Bkt(c)][Key(c)] \in Bodies(up[c]))

HasSidecar(c) ==
  Target(c) /\ (Exclusive(c) => meta[Bkt(c)][Key(c)] \in Bodies(up[c]))

Progress(c) ==
  /\ pc[c] \in {"idle", "mk_odir", "asm_temp"} => parts[c] = <<>>
  /\ pc[c] = "assemble" => otmp[c] = Assembly(c, parts[c])
  /\ pc[c] \in {"asm_meta_temp", "asm_meta_rename"} => HasBody(c)
  /\ pc[c] = "asm_meta_rename" => mtmp[c] = Full(c)
  /\ pc[c] \in RmLabels /\ req[c].op = "complete" => HasBody(c) /\ HasSidecar(c)

Progresses == \A c \in Reqs : Progress(c)

(* A complete writes its own body and sidecar, whole, and nothing else.    *)
LEMMA CompleteWrites ==
  ASSUME Shape, Placed, Progresses, NEW x \in Reqs, FsStep(x) \/ MpStep(x),
         req'[x].op = "complete", NEW b \in Buckets, NEW k \in Keys
  PROVE  /\ objects'[b][k] # objects[b][k] => objects'[b][k] = Full(x)
         /\ meta'[b][k] # meta[b][k] => meta'[b][k] = Full(x)
<1> USE DEF Shape, CtlShape, FileShape, fileVars, Goto, Return
<1>1. CASE FsStep(x)
  BY <1>1, FsPlain DEF PlainStep
<1>2. CASE MpBegin(x) \/ MpPart(x) \/ MpRemove(x)
  BY <1>2 DEF MpBegin, CreateUpload, MakeStagingDir, WriteUploadMeta,
              MpPart, UploadPart, CreatePartTemp, RenamePart, UnlinkPartTemp, PartError,
              MpRemove, AbortUpload, ScanStaging, UnlinkEntry, RemoveStagingDir
<1>3. CASE MpComplete(x)
  <2>1. CASE RenameAssembly(x)
    <3>1. otmp[x] = Full(x)
      BY <2>1 DEF RenameAssembly, Progresses, Progress, Assembly
    <3> QED
      BY <2>1, <3>1 DEF RenameAssembly
  <2>2. CASE RenameAssemblySidecar(x)
    <3>1. mtmp[x] = Full(x)
      BY <2>2 DEF RenameAssemblySidecar, Progresses, Progress
    <3> QED
      BY <2>2, <3>1 DEF RenameAssemblySidecar
  <2> QED
    BY <1>3, <2>1, <2>2 DEF MpComplete, CompleteUpload, EnsureObjectsDir, CreateAssemblyTemp,
       ReadPart, CreateAssemblySidecarTemp, AssemblyError, AssemblySidecarError
<1> QED
  BY <1>1, <1>2, <1>3, MpKinds

(* Requests join the calls of an upload and never leave them.              *)
LEMMA CallsGrow ==
  ASSUME Placed, NEW x \in Reqs, Footprint(x), NEW op, op # "none", NEW u
  PROVE  /\ Calls(op, u) \subseteq Calls(op, u)'
         /\ \A w \in Calls(op, u)' : w # x \/ pc[x] # "idle" => w \in Calls(op, u)
BY DEF Calls, Footprint, OthersAlone, Placed, PlacedReq, NoRequest

LEMMA ExclusiveBefore ==
  ASSUME Placed, NEW x \in Reqs, Footprint(x), NEW c \in Reqs, req[c].op = "complete", Exclusive(c)'
  PROVE  Exclusive(c)
<1>1. req'[c] = req[c] /\ up'[c] = up[c]
  BY DEF Footprint, OthersAlone, Placed, PlacedReq, NoRequest
<1>2. ASSUME NEW w \in Writers(Bkt(c), Key(c))
      PROVE  w \in Calls("complete", up[c])
  <2>1. w \in Reqs /\ pc[w] # "idle"
    BY DEF Writers, Placed, PlacedReq, NoRequest, WriterOps
  <2>2. req'[w] = req[w] /\ up'[w] = up[w]
    BY <2>1 DEF Footprint, OthersAlone
  <2>3. w \in Writers(Bkt(c), Key(c))'
    BY <1>1, <2>1, <2>2 DEF Writers, Bkt, Key
  <2> QED
    BY <1>1, <2>1, <2>2, <2>3 DEF Exclusive, Calls
<1> QED
  BY <1>2 DEF Exclusive

LEMMA ObjectStays ==
  ASSUME Shape, Placed, Progresses, NEW x \in Reqs, FsStep(x) \/ MpStep(x), NEW c \in Reqs
  PROVE  (HasBody(c) => HasBody(c)') /\ (HasSidecar(c) => HasSidecar(c)')
<1>1. Footprint(x)
  BY FsFootprint, MpFootprint
<1> SUFFICES ASSUME Target(c)
             PROVE  (HasBody(c) => HasBody(c)') /\ (HasSidecar(c) => HasSidecar(c)')
  BY DEF HasBody, HasSidecar
<1>2. req'[c] = req[c] /\ up'[c] = up[c]
  BY <1>1 DEF Footprint, OthersAlone, Placed, PlacedReq, NoRequest, Target
<1>3. Target(c)' /\ Bkt(c)' = Bkt(c) /\ Key(c)' = Key(c)
  BY <1>2 DEF Target, Bkt, Key
<1>4. Bodies(up[c]) \subseteq Bodies(up[c])'
  BY <1>1, <1>2, CallsGrow DEF Bodies, Full
<1>5. ASSUME Exclusive(c)'
      PROVE  /\ Exclusive(c)
             /\ objects'[Bkt(c)][Key(c)] \in {objects[Bkt(c)][Key(c)]} \cup Bodies(up[c])'
             /\ meta'[Bkt(c)][Key(c)] \in {meta[Bkt(c)][Key(c)]} \cup Bodies(up[c])'
  <2>1. Exclusive(c)
    BY <1>1, <1>5, ExclusiveBefore DEF Target
  <2>2. CASE x \in Writers(Bkt(c), Key(c))'
    <3>1. x \in Calls("complete", up[c])'
      BY <1>3, <1>5, <2>2 DEF Exclusive
    <3>2. req'[x].op = "complete" /\ Full(x) \in Bodies(up[c])'
      BY <3>1 DEF Calls, Bodies, Full
    <3> QED
      BY <2>1, <3>2, CompleteWrites DEF Target
  <2>3. CASE x \notin Writers(Bkt(c), Key(c))'
    <3>1. ~(req'[x].op \in WriterOps /\ req'[x].bkt = req[c].bkt /\ req'[x].key = req[c].key)
      BY <1>2, <2>3 DEF Writers, Bkt, Key
    <3>2. /\ objects'[Bkt(c)][Key(c)] = objects[Bkt(c)][Key(c)]
          /\ meta'[Bkt(c)][Key(c)] = meta[Bkt(c)][Key(c)]
      BY <1>1, <3>1 DEF Footprint, OtherKeysAlone, Target, Writers, Bkt, Key
    <3> QED
      BY <2>1, <3>2
  <2> QED
    BY <2>2, <2>3
<1> QED
  BY <1>3, <1>4, <1>5 DEF HasBody, HasSidecar

LEMMA ProgressStep ==
  ASSUME Shape, Placed, Progresses, NEW x \in Reqs, FsStep(x) \/ MpStep(x)
  PROVE  Progresses'
<1>1. Footprint(x)
  BY FsFootprint, MpFootprint
<1>2. ASSUME NEW c \in Reqs \ {x}
      PROVE  Progress(c)'
  <2>1. /\ pc'[c] = pc[c] /\ req'[c] = req[c] /\ parts'[c] = parts[c] /\ list'[c] = list[c]
        /\ otmp'[c] = otmp[c] /\ mtmp'[c] = mtmp[c]
    BY <1>1 DEF Footprint, OthersAlone
  <2>2. (HasBody(c) => HasBody(c)') /\ (HasSidecar(c) => HasSidecar(c)')
    BY ObjectStays
  <2>3. Assembly(c, parts[c])' = Assembly(c, parts[c]) /\ Full(c)' = Full(c)
    BY <2>1 DEF Assembly, Full
  <2> QED
    BY <2>1, <2>2, <2>3 DEF Progresses, Progress
<1>3. (HasBody(x) => HasBody(x)') /\ (HasSidecar(x) => HasSidecar(x)')
  BY ObjectStays
<1>4. Progress(x)'
  <2> USE DEF Progress, Shape, CtlShape, FileShape, MpShape, Goto, Return, AcceptMp, ctlVars, mpVars,
              mpCallVars, mpReadVars, RmLabels
  <2>1. CASE FsStep(x)
    BY <1>1, <2>1, FsPlain DEF PlainStep, Labels, Footprint
  <2>2. CASE MpBegin(x) \/ MpPart(x)
    BY <2>2 DEF MpBegin, CreateUpload, MakeStagingDir, WriteUploadMeta,
                MpPart, UploadPart, CreatePartTemp, RenamePart, UnlinkPartTemp, PartError
  <2>3. CASE MpRemove(x)
    <3>1. CASE \E u \in KnownUploads : AbortUpload(x, u)
      BY <3>1 DEF AbortUpload
    <3>2. CASE ScanStaging(x) \/ UnlinkEntry(x) \/ RemoveStagingDir(x)
      BY <1>3, <3>2 DEF ScanStaging, UnlinkEntry, RemoveStagingDir, RemovalEnds, Progresses, callVars
    <3> QED
      BY <2>3, <3>1, <3>2 DEF MpRemove
  <2>4. CASE MpComplete(x)
    <3> USE DEF Progresses
    <3>1. CASE \/ \E u \in KnownUploads, k \in Keys, l \in PartLists : CompleteUpload(x, u, k, l)
               \/ EnsureObjectsDir(x)
      BY <3>1 DEF CompleteUpload, EnsureObjectsDir
    <3>2. CASE CreateAssemblyTemp(x)
      BY <3>2 DEF CreateAssemblyTemp, Assembly, Full
    <3>3. CASE ReadPart(x)
      BY <3>3 DEF ReadPart, Assembly, Full
    <3>4. CASE RenameAssembly(x)
      <4>1. otmp[x] = Full(x) /\ Target(x) /\ x \in Reqs
        BY <3>4 DEF RenameAssembly, Assembly, Target, Placed, PlacedReq, AsmLabels
      <4>2. objects'[Bkt(x)][Key(x)] = Full(x) /\ req'[x] = req[x] /\ up'[x] = up[x]
        BY <3>4, <4>1 DEF RenameAssembly, Target, callVars
      <4>3. HasBody(x)'
        BY <4>1, <4>2 DEF HasBody, Target, Bkt, Key, Bodies, Calls, Full
      <4> QED
        BY <3>4, <4>3 DEF RenameAssembly
    <3>5. CASE CreateAssemblySidecarTemp(x) \/ AssemblyError(x) \/ AssemblySidecarError(x)
      BY <1>3, <3>5 DEF CreateAssemblySidecarTemp, AssemblyError, AssemblySidecarError, Full
    <3>6. CASE RenameAssemblySidecar(x)
      <4>1. mtmp[x] = Full(x) /\ HasBody(x) /\ Target(x) /\ x \in Reqs
        BY <3>6 DEF RenameAssemblySidecar, HasBody
      <4>2. meta'[Bkt(x)][Key(x)] = Full(x) /\ req'[x] = req[x] /\ up'[x] = up[x]
        BY <3>6, <4>1 DEF RenameAssemblySidecar, Target, callVars
      <4>3. HasSidecar(x)'
        BY <4>1, <4>2 DEF HasSidecar, Target, Bkt, Key, Bodies, Calls, Full
      <4> QED
        BY <1>3, <3>6, <4>1, <4>3 DEF RenameAssemblySidecar
    <3> QED
      BY <2>4, <3>1, <3>2, <3>3, <3>4, <3>5, <3>6 DEF MpComplete
  <2> QED
    BY <2>1, <2>2, <2>3, <2>4, MpKinds
<1> QED
  BY <1>2, <1>4 DEF Progresses

(***************************************************************************)
(* An upload_part that succeeds has just renamed its part into place.      *)
(***************************************************************************)
LEMMA PartSucceeds ==
  ASSUME Shape, Placed, Informed, NEW x \in Reqs, FsStep(x) \/ MpStep(x),
         req'[x].op = "upload_part", Succeeded(x)'
  PROVE  /\ pc[x] # "idle" /\ req[x].op = "upload_part"
         /\ up[x] \in Uploads /\ up'[x] = up[x]
         /\ partNo[x] \in PartNos /\ partNo'[x] = partNo[x]
         /\ ufile'[up[x]][partNo[x]] = x
<1>1. Footprint(x)
  BY FsFootprint, MpFootprint
<1>2. pc'[x] = "done" /\ res'[x] = "Ok"
  BY DEF Succeeded
<1>3. MpStep(x)
  <2>1. ~(FsStep(x) /\ pc[x] = "idle")
    BY FsPlain DEF PlainStep, AllOps
  <2>2. ~(FsStep(x) /\ pc[x] # "idle")
    BY <1>1, <1>2, FsEnds DEF Footprint, MpAllOps
  <2> QED
    BY <2>1, <2>2
<1>4. pc[x] # "idle"
  <2>1. SUFFICES ASSUME pc[x] = "idle" PROVE FALSE
    OBVIOUS
  <2>2. MpIssue(x)
    BY <1>3, <2>1, Issued
  <2> QED
    BY <1>2, <2>2 DEF MpIssue, CreateUpload, UploadPart, CompleteUpload, AbortUpload,
       AcceptMp, Shape, CtlShape, Goto, Return
<1>5. req[x].op = "upload_part" /\ up'[x] = up[x] /\ partNo'[x] = partNo[x]
  BY <1>1, <1>4 DEF Footprint
<1>6. up[x] \in Uploads /\ partNo[x] \in PartNos
  BY <1>5, Known DEF Informed, Knows, Uses
<1>7. CreatePartTemp(x) \/ RenamePart(x) \/ UnlinkPartTemp(x) \/ PartError(x)
  BY <1>3, <1>4, <1>5, AtLabel DEF Placed, PlacedReq, BeginLabels, AsmLabels, RmLabels
<1>8. RenamePart(x) /\ utmp[x] # None
  BY <1>2, <1>7 DEF CreatePartTemp, RenamePart, UnlinkPartTemp, PartError, Shape, CtlShape,
     Goto, Return
<1>9. ufile'[up[x]][partNo[x]] = x
  BY <1>6, <1>8 DEF RenamePart, Shape, StagingShape
<1> QED
  BY <1>4, <1>5, <1>6, <1>9

(***************************************************************************)
(* An upload stays intact until it is aborted or its object is stored.     *)
(***************************************************************************)
Safe(u) == \E c \in Calls("complete", u) : HasBody(c) /\ HasSidecar(c)

Kept(u) == u \in KnownUploads => Calls("abort", u) # {} \/ Intact(u) \/ Safe(u)

LEMMA KeptStep ==
  ASSUME Shape, Placed, Informed, Progresses, NEW x \in Reqs, FsStep(x) \/ MpStep(x),
         NEW u \in Uploads, Kept(u)
  PROVE  Kept(u)'
<1>1. Footprint(x) /\ StagingFoot(x)
  BY FsFootprint, MpFootprint, StagingStep
<1> SUFFICES ASSUME u \in KnownUploads'
             PROVE  (Calls("abort", u) # {})' \/ Intact(u)' \/ Safe(u)'
  BY DEF Kept
<1>2. \A w \in Reqs : w # x => (Succeeded(w)' => Succeeded(w))
  BY <1>1 DEF Footprint, OthersAlone, Succeeded
<1>3. CASE u \in KnownUploads
  <2>1. CASE Calls("abort", u) # {}
    BY <1>1, <2>1, CallsGrow
  <2>2. CASE Safe(u)
    <3>1. PICK c \in Calls("complete", u) : HasBody(c) /\ HasSidecar(c)
      BY <2>2 DEF Safe
    <3>2. c \in Calls("complete", u)' /\ c \in Reqs
      BY <1>1, CallsGrow DEF Calls
    <3> QED
      BY <3>1, <3>2, ObjectStays DEF Safe
  <2>3. CASE Intact(u) /\ Removes(x, u)
    <3>1. req[x].op \in {"complete", "abort"}
      BY <2>3 DEF Removes, Placed, PlacedReq, RmLabels
    <3>2. CASE req[x].op = "abort"
      BY <2>1, <2>3, <3>2 DEF Removes, Calls
    <3>3. CASE req[x].op = "complete"
      <4>1. HasBody(x) /\ HasSidecar(x) /\ x \in Calls("complete", u)
        BY <2>3, <3>3 DEF Removes, Progresses, Progress, RmLabels, Calls
      <4> QED
        BY <2>2, <4>1 DEF Safe
    <3> QED
      BY <3>1, <3>2, <3>3
  <2>4. CASE Intact(u) /\ ~Removes(x, u)
    <3>1. umeta'[u] # None
      BY <1>1, <2>4 DEF StagingFoot, UmetaFoot, Intact
    <3>2. ASSUME NEW p \in PartNos, ufile[u][p] # None
          PROVE  ufile'[u][p] # None
      BY <1>1, <2>4, <3>2, ConstantsAssumption DEF StagingFoot, UfileFoot
    <3>3. ASSUME NEW w \in Calls("upload_part", u)', Succeeded(w)'
          PROVE  ufile'[u][partNo'[w]] # None
      <4>1. w \in Reqs
        BY DEF Calls
      <4>2. CASE w # x
        <5>1. w \in Calls("upload_part", u) /\ Succeeded(w) /\ partNo'[w] = partNo[w]
          BY <1>1, <1>2, <3>3, <4>1, <4>2, CallsGrow DEF Footprint, OthersAlone
        <5>2. partNo[w] \in PartNos /\ ufile[u][partNo[w]] # None
          BY <2>4, <5>1 DEF Informed, Knows, Calls, Intact
        <5> QED
          BY <3>2, <5>1, <5>2
      <4>3. CASE w = x
        <5>1. req'[x].op = "upload_part" /\ up'[x] = u
          BY <3>3, <4>3 DEF Calls
        <5>2. /\ up'[x] = up[x] /\ partNo'[x] = partNo[x]
              /\ partNo[x] \in PartNos /\ ufile'[up[x]][partNo[x]] = x
          BY <3>3, <4>3, <5>1, PartSucceeds
        <5> QED
          BY <4>3, <5>1, <5>2, ConstantsAssumption
      <4> QED
        BY <4>2, <4>3
    <3> QED
      BY <3>1, <3>3 DEF Intact
  <2> QED
    BY <1>3, <2>1, <2>2, <2>3, <2>4 DEF Kept
<1>4. CASE u \notin KnownUploads
  <2>1. u = x /\ req'[x].op = "create_upload" /\ pc'[x] = "done" /\ res'[x] = "Ok" /\ pc[x] # "done"
    BY <1>1, <1>4 DEF KnownUploads, Created, Footprint, OthersAlone
  <2>2. MpStep(x)
    <3>1. ~(FsStep(x) /\ pc[x] = "idle")
      BY <2>1, FsPlain DEF PlainStep, AllOps
    <3>2. ~(FsStep(x) /\ pc[x] # "idle")
      BY <1>1, <2>1, FsEnds DEF Footprint, MpAllOps
    <3> QED
      BY <3>1, <3>2
  <2>3. pc[x] # "idle"
    <3>1. SUFFICES ASSUME pc[x] = "idle" PROVE FALSE
      OBVIOUS
    <3>2. MpIssue(x)
      BY <2>2, <3>1, Issued
    <3> QED
      BY <2>1, <3>2 DEF MpIssue, CreateUpload, UploadPart, CompleteUpload, AbortUpload,
         AcceptMp, Shape, CtlShape, Goto, Return
  <2>4. req[x].op = "create_upload"
    BY <1>1, <2>1, <2>3 DEF Footprint
  <2>5. WriteUploadMeta(x)
    BY <2>1, <2>2, <2>3, <2>4, AtLabel DEF Placed, PlacedReq, PartLabels, AsmLabels, RmLabels,
       MakeStagingDir, Shape, CtlShape, Goto
  <2>6. umeta'[x] = [bkt |-> Bkt(x), key |-> Key(x)]
    BY <2>1, <2>5 DEF WriteUploadMeta, Shape, StagingShape, CtlShape, Return
  <2>7. umeta'[x] # None
    BY <2>5, <2>6, MpAssumption DEF WriteUploadMeta, Placed, PlacedReq, BeginLabels
  <2>8. Calls("upload_part", x)' = {}
    <3>1. SUFFICES ASSUME NEW w \in Calls("upload_part", x)' PROVE FALSE
      OBVIOUS
    <3>2. w \in Calls("upload_part", x) /\ w \in Reqs
      BY <1>1, <2>3, CallsGrow DEF Calls
    <3> QED
      BY <1>4, <2>1, <3>2 DEF Calls, Informed, Knows, Uses
  <2> QED
    BY <2>1, <2>7, <2>8 DEF Intact
<1> QED
  BY <1>3, <1>4

-----------------------------------------------------------------------------
(***************************************************************************)
(* Parts.  A part file is that of its last upload, if that one is known to *)
(* be the last, or it has been unlinked; so is what a complete reads of    *)
(* it, and later uploads do not change what was read.                      *)
(***************************************************************************)
PartFile(u, p) ==
  /\ ufile[u][p] \in {None, Old} \cup PartUploads(u, p)
  /\ \A w \in PartUploads(u, p) :
       Succeeded(w) /\ (\A y \in PartUploads(u, p) \ {w} : y \in before[w])
         => ufile[u][p] \in {w, None}

PartFiles == \A u \in Uploads : \A p \in PartNos : PartFile(u, p)

UsesPart(c, p, file) ==
  LET W == PartUploads(up[c], p)
  IN  /\ file \in W \cup {Old}
      /\ \A w \in W :
           /\ Succeeded(w)
           /\ w \in before[c]
           /\ \A y \in W \ {w} : y \in before[w] \/ c \in before[y]
           => file = w

Reading(c) ==
  /\ parts[c] \in Seq(Uploads)
  /\ list[c] \in Seq(PartNos)
  /\ Len(parts[c]) <= Len(list[c])
  /\ req[c].op = "complete" =>
       /\ pc[c] \in {"asm_meta_temp", "asm_meta_rename"} \cup RmLabels \/ Succeeded(c)
            => Len(parts[c]) = Len(list[c])
       /\ \A i \in 1..Len(parts[c]) : UsesPart(c, list[c][i], parts[c][i])

LEMMA PartUploadsGrow ==
  ASSUME Placed, NEW x \in Reqs, Footprint(x), NEW u, NEW p
  PROVE  /\ PartUploads(u, p) \subseteq PartUploads(u, p)'
         /\ \A w \in PartUploads(u, p)' : w # x \/ pc[x] # "idle" => w \in PartUploads(u, p)
BY DEF PartUploads, Calls, Footprint, OthersAlone, Placed, PlacedReq, NoRequest

LEMMA PartFileStep ==
  ASSUME Shape, Placed, Informed, Staged, NEW x \in Reqs, FsStep(x) \/ MpStep(x),
         NEW u \in Uploads, NEW p \in PartNos, PartFile(u, p)
  PROVE  PartFile(u, p)'
<1>1. Footprint(x) /\ StagingFoot(x)
  BY FsFootprint, MpFootprint, StagingStep
<1>2. /\ PartUploads(u, p) \subseteq PartUploads(u, p)'
      /\ \A w \in PartUploads(u, p)' : w # x \/ pc[x] # "idle" => w \in PartUploads(u, p)
  BY <1>1, PartUploadsGrow
<1>3. \/ ufile'[u][p] = ufile[u][p]
      \/ ufile'[u][p] = None
      \/ ufile'[u][p] = x /\ x \in PartUploads(u, p)
  BY <1>1 DEF StagingFoot, UfileFoot, Placed, PlacedReq, PartLabels, PartUploads, Calls
<1>4. ASSUME NEW w \in PartUploads(u, p)', Succeeded(w)',
             \A y \in PartUploads(u, p)' \ {w} : y \in before'[w]
      PROVE  ufile'[u][p] \in {w, None}
  <2>1. w \in Reqs
    BY DEF PartUploads, Calls
  <2>2. CASE w = x
    <3>1. req'[x].op = "upload_part" /\ up'[x] = u /\ partNo'[x] = p
      BY <2>2 DEF PartUploads, Calls
    <3> QED
      BY <1>4, <2>2, <3>1, PartSucceeds
  <2>3. CASE w # x
    <3>1. w \in PartUploads(u, p) /\ Succeeded(w) /\ before'[w] = before[w]
      BY <1>1, <1>2, <1>4, <2>1, <2>3 DEF Footprint, OthersAlone, Succeeded
    <3>2. ufile[u][p] \in {w, None}
      BY <1>2, <1>4, <3>1 DEF PartFile
    <3>3. x \notin PartUploads(u, p)
      BY <1>1, <1>2, <1>4, <2>1, <2>3, <3>1 DEF Footprint, Informed, Knows, Ended
    <3> QED
      BY <1>3, <3>2, <3>3
  <2> QED
    BY <2>2, <2>3
<1>5. ufile'[u][p] \in {None, Old} \cup PartUploads(u, p)'
  BY <1>2, <1>3 DEF PartFile
<1> QED
  BY <1>4, <1>5 DEF PartFile

LEMMA UsesStays ==
  ASSUME Placed, Informed, NEW x \in Reqs, Footprint(x), NEW c \in Reqs, pc[c] # "idle",
         NEW p, NEW file, UsesPart(c, p, file)
  PROVE  UsesPart(c, p, file)'
<1>1. up'[c] = up[c] /\ before'[c] = before[c]
  BY DEF Footprint, OthersAlone
<1> DEFINE W == PartUploads(up[c], p)
<1>2. /\ W \subseteq W'
      /\ \A w \in W' : w # x \/ pc[x] # "idle" => w \in W
  BY <1>1, PartUploadsGrow
<1>3. W \subseteq Reqs /\ W' \subseteq Reqs /\ \A w \in W : pc[w] # "idle"
  BY DEF PartUploads, Calls, Placed, PlacedReq, NoRequest
<1>4. ASSUME NEW w \in W', Succeeded(w)', w \in before'[c],
             \A y \in W' \ {w} : y \in before'[w] \/ c \in before'[y]
      PROVE  file = w
  <2>1. w # x /\ w \in Reqs
    BY <1>1, <1>3, <1>4 DEF Footprint, Informed, Knows, Ended
  <2>2. w \in W /\ Succeeded(w) /\ before'[w] = before[w]
    BY <1>2, <1>4, <2>1 DEF Footprint, OthersAlone, Succeeded
  <2>3. \A y \in W : before'[y] = before[y]
    BY <1>3 DEF Footprint, OthersAlone
  <2>4. \A y \in W \ {w} : y \in before[w] \/ c \in before[y]
    BY <1>2, <1>4, <2>2, <2>3
  <2> QED
    BY <1>1, <1>4, <2>2, <2>4 DEF UsesPart
<1>5. file \in W' \cup {Old}
  BY <1>2 DEF UsesPart
<1> QED
  BY <1>4, <1>5 DEF UsesPart

(* The part that a complete reads next is the last upload of its number.   *)
LEMMA ReadsLastPart ==
  ASSUME Shape, Placed, Informed, PartFiles, NEW c \in Reqs, pc[c] = "assemble",
         NEW p \in PartNos, ufile[up[c]][p] # None
  PROVE  UsesPart(c, p, ufile[up[c]][p])
<1>1. up[c] \in Uploads
  BY Known DEF Placed, PlacedReq, AsmLabels, Informed, Knows, Uses
<1>2. PartFile(up[c], p)
  BY <1>1 DEF PartFiles
<1>3. \A y \in Reqs : c \notin before[y]
  BY DEF Informed, Knows, Ended
<1>4. PartUploads(up[c], p) \subseteq Reqs
  BY DEF PartUploads, Calls
<1> QED
  BY <1>2, <1>3, <1>4 DEF PartFile, UsesPart

LEMMA ReadingStep ==
  ASSUME Shape, Placed, Informed, Progresses, PartFiles, \A c \in Reqs : Reading(c),
         NEW x \in Reqs, FsStep(x) \/ MpStep(x)
  PROVE  \A c \in Reqs : Reading(c)'
<1>1. Footprint(x)
  BY FsFootprint, MpFootprint
<1>2. ASSUME NEW c \in Reqs, pc[c] # "idle"
      PROVE  \A p, file : UsesPart(c, p, file) => UsesPart(c, p, file)'
  BY <1>1, <1>2, UsesStays
<1>3. ASSUME NEW c \in Reqs, pc[c] # "idle", parts'[c] = parts[c], list'[c] = list[c],
             req[c].op = "complete"
      PROVE  \A i \in 1..Len(parts'[c]) : UsesPart(c, list[c][i], parts[c][i])'
  <2>1. \A i \in 1..Len(parts[c]) : UsesPart(c, list[c][i], parts[c][i])
    BY <1>3 DEF Reading
  <2>2. up'[c] = up[c] /\ before'[c] = before[c]
    BY <1>1, <1>3 DEF Footprint, OthersAlone
  <2>3. ASSUME NEW i \in 1..Len(parts[c])
        PROVE  UsesPart(c, list[c][i], parts[c][i])'
    <3> DEFINE p == list[c][i]
    <3> DEFINE file == parts[c][i]
    <3>1. p' = p /\ file' = file
      BY <1>3
    <3>2. UsesPart(c, p, file)
      BY <2>1
    <3> HIDE DEF p, file
    <3>3. UsesPart(c, p, file)'
      BY <1>2, <1>3, <3>1, <3>2
    <3> QED
      BY <3>3 DEF p, file
  <2> QED
    BY <1>3, <2>3
<1>4. ASSUME NEW c \in Reqs \ {x}
      PROVE  Reading(c)'
  <2>1. /\ pc'[c] = pc[c] /\ res'[c] = res[c] /\ req'[c] = req[c]
        /\ parts'[c] = parts[c] /\ list'[c] = list[c]
    BY <1>1 DEF Footprint, OthersAlone
  <2>2. req[c].op = "complete" => pc[c] # "idle"
    BY DEF Placed, PlacedReq, NoRequest
  <2>3. req[c].op = "complete" => \A i \in 1..Len(parts'[c]) : UsesPart(c, list[c][i], parts[c][i])'
    BY <1>3, <2>1, <2>2
  <2>4. Reading(c)
    OBVIOUS
  <2> QED
    BY <2>1, <2>3, <2>4 DEF Reading, Succeeded
<1>5. CASE pc[x] = "idle"
  <2>1. parts'[x] = parts[x] /\ parts[x] = <<>>
    <3>1. parts[x] = <<>>
      BY <1>5 DEF Progresses, Progress
    <3>2. UNCHANGED parts
      BY <1>5, Issued DEF FsStep, mpVars, mpReadVars, MpIssue, CreateUpload, UploadPart,
         CompleteUpload, AbortUpload
    <3> QED
      BY <3>1, <3>2
  <2>2. list'[x] \in Seq(PartNos)
    <3>1. list[x] \in Seq(PartNos)
      BY DEF Reading
    <3>2. list' = list \/ \E l \in PartLists : list' = [list EXCEPT ![x] = l]
      BY <1>5, Issued DEF FsStep, mpVars, mpCallVars, MpIssue, CreateUpload, UploadPart,
         CompleteUpload, AbortUpload
    <3>3. DOMAIN list = Reqs /\ PartLists \subseteq Seq(PartNos)
      BY MpAssumption DEF Shape, MpShape
    <3> QED
      BY ONLY <3>1, <3>2, <3>3
  <2>3. req'[x].op = "complete" => pc'[x] \notin {"asm_meta_temp", "asm_meta_rename"} \cup RmLabels /\ ~Succeeded(x)'
    <3>1. CASE FsStep(x)
      BY <1>5, <3>1, FsPlain DEF PlainStep, AllOps
    <3>2. CASE MpStep(x)
      BY <1>5, <3>2, Issued DEF MpIssue, CreateUpload, UploadPart, CompleteUpload, AbortUpload,
         AcceptMp, Goto, Return, RmLabels, Succeeded, Shape, CtlShape
    <3> QED
      BY <3>1, <3>2
  <2>4. Len(parts'[x]) = 0 /\ Len(list'[x]) \in Nat /\ parts'[x] \in Seq(Uploads)
    BY <2>1, <2>2
  <2>5. Reading(x)'
    BY <2>2, <2>3, <2>4 DEF Reading
  <2> QED
    BY <1>4, <2>5
<1>6. CASE pc[x] # "idle" /\ ~ReadPart(x)
  <2>1. parts'[x] = parts[x] /\ list'[x] = list[x] /\ req'[x] = req[x] /\ Reading(x)
    <3>1. UNCHANGED parts
      BY <1>6, AtLabel DEF FsStep, mpVars, mpReadVars, MakeStagingDir, WriteUploadMeta,
         CreatePartTemp, RenamePart, UnlinkPartTemp, PartError,
         EnsureObjectsDir, CreateAssemblyTemp, RenameAssembly, CreateAssemblySidecarTemp,
         RenameAssemblySidecar, AssemblyError, AssemblySidecarError,
         ScanStaging, UnlinkEntry, RemoveStagingDir
    <3> QED
      BY <1>1, <1>6, <3>1 DEF Footprint
  <2>2. req[x].op = "complete" => \A i \in 1..Len(parts'[x]) : UsesPart(x, list[x][i], parts[x][i])'
    BY <1>3, <1>6, <2>1
  <2>3. ASSUME req[x].op = "complete",
               pc'[x] \in {"asm_meta_temp", "asm_meta_rename"} \cup RmLabels \/ Succeeded(x)'
        PROVE  Len(parts[x]) = Len(list[x])
    <3>1. MpStep(x)
      BY <2>3, FsEnds DEF MpAllOps, RmLabels, Succeeded
    <3>2. pc[x] \in AsmLabels \cup RmLabels
      BY <1>6, <2>3, <3>1, AtLabel DEF Placed, PlacedReq, BeginLabels, PartLabels
    <3>3. \/ RenameAssembly(x)
          \/ pc[x] \in {"asm_meta_temp", "asm_meta_rename"} \cup RmLabels
      <4>1. CASE EnsureObjectsDir(x) \/ CreateAssemblyTemp(x) \/ AssemblyError(x)
        BY <2>3, <4>1 DEF EnsureObjectsDir, CreateAssemblyTemp, AssemblyError, RmLabels,
           Goto, Return, Succeeded, Shape, CtlShape
      <4>2. CASE \/ CreateAssemblySidecarTemp(x) \/ RenameAssemblySidecar(x)
                 \/ AssemblySidecarError(x)
        BY <4>2 DEF CreateAssemblySidecarTemp, RenameAssemblySidecar, AssemblySidecarError
      <4> QED
        BY <1>6, <3>1, <3>2, <4>1, <4>2, AtLabel
    <3> QED
      BY <2>1, <2>3, <3>3 DEF RenameAssembly, Reading
  <2>4. Reading(x)'
    BY <2>1, <2>2, <2>3 DEF Reading
  <2> QED
    BY <1>4, <2>4
<1>7. CASE ReadPart(x)
  <2>1. /\ pc[x] = "assemble" /\ req[x].op = "complete" /\ req'[x] = req[x] /\ list'[x] = list[x]
        /\ Reading(x) /\ Len(parts[x]) < Len(list[x])
    BY <1>7 DEF ReadPart, Placed, PlacedReq, AsmLabels, callVars, mpCallVars
  <2> DEFINE n == Len(parts[x]) + 1
  <2> DEFINE file == ufile[up[x]][list[x][n]]
  <2>2. CASE parts'[x] = parts[x]
    <3>1. pc'[x] \in {"assemble", "body_unlink"}
      BY <1>7, <2>1 DEF ReadPart, Goto, ctlVars, Shape, CtlShape
    <3>2. \A i \in 1..Len(parts'[x]) : UsesPart(x, list[x][i], parts[x][i])'
      BY <1>3, <2>1, <2>2
    <3> QED
      BY <1>4, <2>1, <2>2, <3>1, <3>2 DEF Reading, RmLabels, Succeeded
  <2>3. CASE parts'[x] # parts[x]
    <3>1. file # None /\ parts'[x] = Append(parts[x], file) /\ UNCHANGED <<pc, res>>
      BY <1>7, <2>3 DEF ReadPart, Shape, MpShape, ctlVars
    <3>2. parts[x] \in Seq(Uploads) /\ list[x] \in Seq(PartNos) /\ n \in 1..Len(list[x]) /\ list[x][n] \in PartNos
      BY <2>1 DEF Reading
    <3>3. UsesPart(x, list[x][n], file)
      BY <2>1, <3>1, <3>2, ReadsLastPart
    <3>4. file \in Uploads
      BY <3>3 DEF UsesPart, PartUploads, Calls, Uploads
    <3>5. /\ parts'[x] \in Seq(Uploads) /\ Len(parts'[x]) = n
          /\ \A i \in 1..Len(parts[x]) : parts'[x][i] = parts[x][i]
          /\ parts'[x][n] = file
      BY <3>1, <3>2, <3>4
    <3>6. ASSUME NEW i \in 1..n
          PROVE  UsesPart(x, list[x][i], parts'[x][i])
      <4>1. CASE i = n
        BY <3>3, <3>5, <4>1
      <4>2. CASE i \in 1..Len(parts[x])
        BY <2>1, <3>5, <4>2 DEF Reading
      <4> QED
        BY <3>2, <4>1, <4>2
    <3>7. ASSUME NEW i \in 1..n
          PROVE  UsesPart(x, list[x][i], parts[x][i])'
      <4>1. PICK p, f : p = list[x][i] /\ f = parts'[x][i]
        OBVIOUS
      <4>2. UsesPart(x, p, f)'
        BY <1>2, <2>1, <3>6, <4>1
      <4> QED
        BY <2>1, <4>1, <4>2
    <3>8. Reading(x)'
      BY <2>1, <3>1, <3>2, <3>5, <3>7 DEF Reading, RmLabels, Succeeded
    <3> QED
      BY <1>4, <3>8
  <2> QED
    BY <2>2, <2>3
<1> QED
  BY <1>5, <1>6, <1>7

-----------------------------------------------------------------------------
(***************************************************************************)
(* The inductive invariant of completes and parts, and their theorems.     *)
(***************************************************************************)
UploadInv ==
  /\ MpInv
  /\ Progresses
  /\ \A u \in Uploads : Kept(u)
  /\ PartFiles
  /\ \A c \in Reqs : Reading(c)

LEMMA UploadInit == MpInit => UploadInv
<1> SUFFICES ASSUME MpInit PROVE UploadInv
  OBVIOUS
<1> USE DEF MpInit, Init
<1>1. \A r \in Reqs : /\ pc[r] = "idle" /\ req[r] = NoRequest /\ up[r] = None
                      /\ parts[r] = <<>> /\ list[r] = <<>>
  OBVIOUS
<1>2. Progresses
  BY <1>1 DEF Progresses, Progress, RmLabels
<1>3. ASSUME NEW u \in Uploads
      PROVE  Kept(u)
  <2>1. u \in KnownUploads => u = Old
    BY <1>1 DEF KnownUploads, Created, NoRequest
  <2>2. umeta[Old] # None
    <3>1. PICK b \in bdir, k \in Keys :
            umeta = [v \in Uploads |-> IF v = Old THEN [bkt |-> b, key |-> k] ELSE None]
      OBVIOUS
    <3>2. b \in Buckets
      BY <3>1
    <3> QED
      BY <3>1, <3>2, MpAssumption DEF Uploads
  <2>3. Calls("upload_part", Old) = {}
    BY <1>1, ConstantsAssumption DEF Calls, NoRequest
  <2> QED
    BY <2>1, <2>2, <2>3 DEF Kept, Intact
<1>4. PartFiles
  <2>1. ASSUME NEW u \in Uploads, NEW p \in PartNos
        PROVE  PartFile(u, p)
    <3>1. PartUploads(u, p) = {}
      BY <1>1 DEF PartUploads, Calls, NoRequest
    <3> QED
      BY <3>1 DEF PartFile
  <2> QED
    BY <2>1 DEF PartFiles
<1>5. ASSUME NEW c \in Reqs
      PROVE  Reading(c)
  BY <1>1 DEF Reading, NoRequest
<1> QED
  BY <1>2, <1>3, <1>4, <1>5, MpInvInit DEF UploadInv

LEMMA UploadStep == UploadInv /\ [MpNext]_allVars => UploadInv'
<1> SUFFICES ASSUME UploadInv, [MpNext]_allVars PROVE UploadInv'
  OBVIOUS
<1>1. MpInv'
  BY MpInvStep DEF UploadInv
<1>2. CASE \E x \in Reqs : FsStep(x) \/ MpStep(x)
  <2>1. PICK x \in Reqs : FsStep(x) \/ MpStep(x)
    BY <1>2
  <2> USE <2>1 DEF UploadInv, MpInv
  <2>2. Progresses'
    BY ProgressStep
  <2>3. (\A u \in Uploads : Kept(u))'
    BY KeptStep
  <2>4. PartFiles'
    BY PartFileStep DEF PartFiles
  <2>5. (\A c \in Reqs : Reading(c))'
    BY ReadingStep
  <2> QED
    BY <1>1, <2>2, <2>3, <2>4, <2>5
<1>3. CASE UNCHANGED allVars
  <2> USE <1>3 DEF UploadInv, allVars, vars, fileVars, callVars, ctlVars,
                   mpVars, stagingVars, mpCallVars, mpReadVars
  <2>1. \A c \in Reqs : /\ HasBody(c)' <=> HasBody(c)
                        /\ HasSidecar(c)' <=> HasSidecar(c)
                        /\ Progress(c)' <=> Progress(c)
    BY DEF Progress, HasBody, HasSidecar, Target, Exclusive, Bodies, Calls, Writers, Bkt, Key,
           Full, Assembly
  <2>2. Progresses'
    BY <2>1 DEF Progresses
  <2>3. (\A u \in Uploads : Kept(u))'
    BY <2>1 DEF Kept, KnownUploads, Created, Intact, Safe, Calls, Succeeded
  <2>4. PartFiles'
    BY DEF PartFiles, PartFile, PartUploads, Calls, Succeeded
  <2>5. (\A c \in Reqs : Reading(c))'
    BY DEF Reading, UsesPart, PartUploads, Calls, Succeeded
  <2> QED
    BY <1>1, <2>2, <2>3, <2>4, <2>5
<1> QED
  BY <1>2, <1>3, MpSteps

LEMMA UploadInvariant == MpSpec => []UploadInv
BY UploadInit, UploadStep, PTL DEF MpSpec

(* complete_multipart_upload never loses an upload: until someone aborts   *)
(* it, either every acknowledged part is still there to be completed, or   *)
(* the object is stored with its sidecar, whatever fails, is dropped or    *)
(* completes at the same time.                                             *)
THEOREM UploadsAreNeverLost == MpSpec => []UploadsAreNotLost
<1>1. UploadInv => UploadsAreNotLost
  <2> SUFFICES ASSUME UploadInv, NEW u \in KnownUploads
               PROVE  Calls("abort", u) # {} \/ Intact(u) \/ Stored(u)
    BY DEF UploadsAreNotLost
  <2>1. Calls("abort", u) # {} \/ Intact(u) \/ Safe(u)
    BY Known DEF UploadInv, Kept
  <2>2. ASSUME Safe(u)
        PROVE  Stored(u)
    <3>1. PICK c \in Calls("complete", u) : HasBody(c) /\ HasSidecar(c)
      BY <2>2 DEF Safe
    <3>2. c \in Reqs /\ req[c].op = "complete" /\ up[c] = u
      BY DEF Calls
    <3>3. c \in Writers(Bkt(c), Key(c))
      BY <3>2 DEF Writers, WriterOps
    <3> QED
      BY <3>1, <3>2, <3>3 DEF Stored, HasBody, HasSidecar, Target, Exclusive, Bodies
  <2> QED
    BY <2>1, <2>2
<1> QED
  BY <1>1, UploadInvariant, PTL

(* A successful complete has put exactly the listed parts into the object, *)
(* and of each number the last upload that it can be held to, for any part *)
(* list and any number of racing uploads.                                  *)
THEOREM CompletesUseLastParts == MpSpec => []CompleteUsesLastParts
<1>1. UploadInv => CompleteUsesLastParts
  <2> SUFFICES ASSUME UploadInv, NEW c \in Reqs, req[c].op = "complete", Succeeded(c)
               PROVE  /\ Len(parts[c]) = Len(list[c])
                      /\ \A i \in 1..Len(list[c]) : UsesPart(c, list[c][i], parts[c][i])
    BY DEF CompleteUsesLastParts, UsesPart
  <2>1. Reading(c)
    BY DEF UploadInv
  <2> QED
    BY <2>1 DEF Reading
<1> QED
  BY <1>1, UploadInvariant, PTL
=============================================================================
