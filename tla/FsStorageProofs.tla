-------------------------- MODULE FsStorageProofs --------------------------
(***************************************************************************)
(* Theorems about FsStorage, for any sets of buckets, keys and requests    *)
(* and any number of chunks: its types, and what concurrent requests can   *)
(* and cannot do.  Writers (BodiesAreWhole, NoTempLeak, LastWriterWins),   *)
(* readers (ReadsSeeLastWriter), bucket operations (LastBucketOpWins) and  *)
(* listings (QuietListingIsExact).                                         *)
(***************************************************************************)
EXTENDS FsStorage, TLAPS

(***************************************************************************)
(* Type correctness is not inductive by itself: which fields of a request  *)
(* and which temporary files are defined depends on where the request is.  *)
(***************************************************************************)
ObjectLabels == {"body_temp", "stream", "body_unlink", "meta_temp",
                 "meta_rename", "meta_unlink", "meta_delete", "open"}
BucketLabels == Labels \ (ObjectLabels \cup {"idle", "done", "dropped", "read_json"})

Located ==
  \A r \in Reqs :
    /\ pc[r] \in ObjectLabels => Bkt(r) \in Buckets /\ Key(r) \in Keys
    /\ pc[r] \in BucketLabels => Bkt(r) \in Buckets
    /\ pc[r] = "read_json" => names[r] \subseteq Buckets

TempsHeld ==
  \A r \in Reqs :
    /\ pc[r] = "stream" => otmp[r] \in Content /\ otmp[r].w = r
    /\ pc[r] = "meta_rename" => mtmp[r] = Full(r)

DirType  == /\ bdir \in SUBSET Buckets
            /\ odir \in SUBSET Buckets
            /\ mdir \in SUBSET Buckets
            /\ bjson \in [Buckets -> Json \cup {None}]
FileType == /\ objects \in [Buckets -> [Keys -> File]]
            /\ meta \in [Buckets -> [Keys -> File]]
            /\ otmp \in [Reqs -> File]
            /\ mtmp \in [Reqs -> File]
CallType == /\ req \in [Reqs -> Request]
            /\ before \in [Reqs -> SUBSET Reqs]
CtlType  == /\ pc \in [Reqs -> Labels]
            /\ res \in [Reqs -> Results]
ReadType == /\ sidecar \in [Reqs -> File]
            /\ stream \in [Reqs -> File]
            /\ names \in [Reqs -> SUBSET Entry]
            /\ listed \in [Reqs -> SUBSET ((Keys \cup Buckets) \X File)]
            /\ fd \in [Reqs -> Inode]

TypeInv == TypeOK /\ Located /\ TempsHeld

(* A whole body is a file, an absent file is one, and they differ.         *)
LEMMA FullContent == /\ \A r \in Reqs \cup {Old} : Full(r) \in File /\ Full(r) # None
                     /\ None \in File
                     /\ \A r \in Reqs : [w |-> r, n |-> 0] \in Content
                     /\ Content \subseteq File
                     /\ None \notin Content
BY ConstantsAssumption DEF Full, Content, File

LEMMA TypeInit == Init => TypeInv
<1> SUFFICES ASSUME Init PROVE TypeInv
  OBVIOUS
<1>1. TypeOK
  BY FullContent, ConstantsAssumption DEF Init, TypeOK, File, Json, Inode, Request, NoRequest, Labels, Results
<1>2. Located /\ TempsHeld
  BY DEF Init, Located, TempsHeld, ObjectLabels, BucketLabels, Labels
<1> QED
  BY <1>1, <1>2 DEF TypeInv

(* Every step preserves the types.                                         *)
LEMMA TypeStep == TypeInv /\ [Next]_vars => TypeInv'
<1> SUFFICES ASSUME DirType, FileType, CallType, CtlType, ReadType,
                    Located, TempsHeld, [Next]_vars
             PROVE  /\ DirType' /\ FileType' /\ CallType' /\ CtlType' /\ ReadType'
                    /\ Located' /\ TempsHeld'
  BY DEF TypeInv, TypeOK, DirType, FileType, CallType, CtlType, ReadType
<1> DEFINE Typed == /\ DirType /\ FileType /\ CallType /\ CtlType /\ ReadType
                    /\ Located /\ TempsHeld
<1> USE FullContent
<1> USE DEF Accept, Goto, Return, Bkt, Key, dirVars, fileVars, callVars, ctlVars, readVars
<1>1. ASSUME NEW r \in Reqs, NEW b \in Buckets, NEW k \in Keys, PutObject(r, b, k) PROVE Typed'
  <2> USE <1>1 DEF PutObject
  <2>1. DirType' /\ FileType' /\ ReadType'
    BY DEF DirType, FileType, ReadType
  <2>2. CallType'
    BY DEF CallType, Request, AllOps, Ended
  <2>3. CtlType'
    BY DEF CtlType, Labels, Results
  <2>4. Located'
    BY DEF Located, CallType, ReadType, CtlType, Labels, ObjectLabels, BucketLabels
  <2>5. TempsHeld'
    BY DEF TempsHeld, CtlType
  <2> QED BY <2>1, <2>2, <2>3, <2>4, <2>5
<1>2. ASSUME NEW r \in Reqs, NEW b \in Buckets, NEW k \in Keys, GetObject(r, b, k) PROVE Typed'
  <2> USE <1>2 DEF GetObject
  <2>1. DirType' /\ FileType'
    BY DEF DirType, FileType
  <2>2. CallType'
    BY DEF CallType, Request, AllOps, Ended
  <2>3. CtlType'
    BY DEF CtlType, Labels, Results
  <2>4. ReadType'
    BY DEF ReadType, FileType
  <2>5. Located'
    BY DEF Located, CallType, ReadType, CtlType, Labels, ObjectLabels, BucketLabels
  <2>6. TempsHeld'
    BY DEF TempsHeld, CtlType
  <2> QED BY <2>1, <2>2, <2>3, <2>4, <2>5, <2>6
<1>3. ASSUME NEW r \in Reqs, NEW b \in Buckets, NEW k \in Keys, HeadObject(r, b, k) PROVE Typed'
  <2> USE <1>3 DEF HeadObject
  <2>1. DirType' /\ FileType'
    BY DEF DirType, FileType
  <2>2. CallType'
    BY DEF CallType, Request, AllOps, Ended
  <2>3. CtlType'
    BY DEF CtlType, Labels, Results
  <2>4. ReadType'
    BY DEF ReadType, FileType
  <2>5. Located'
    BY DEF Located, CallType, ReadType, CtlType, Labels, ObjectLabels, BucketLabels
  <2>6. TempsHeld'
    BY DEF TempsHeld, CtlType
  <2> QED BY <2>1, <2>2, <2>3, <2>4, <2>5, <2>6
<1>4. ASSUME NEW r \in Reqs, NEW b \in Buckets, NEW k \in Keys, DeleteObject(r, b, k) PROVE Typed'
  <2> USE <1>4 DEF DeleteObject
  <2>1. DirType' /\ ReadType'
    BY DEF DirType, ReadType
  <2>2. [objects[b] EXCEPT ![k] = None] \in [Keys -> File]
    BY DEF FileType
  <2>3. FileType'
    BY <2>2 DEF FileType
  <2>4. CallType'
    BY DEF CallType, Request, AllOps, Ended
  <2>5. CtlType'
    BY DEF CtlType, Labels, Results
  <2>6. Located'
    BY DEF Located, CallType, ReadType, CtlType, Labels, ObjectLabels, BucketLabels
  <2>7. TempsHeld'
    BY DEF TempsHeld, FileType, CtlType, Full
  <2> QED BY <2>1, <2>2, <2>3, <2>4, <2>5, <2>6, <2>7
<1>5. ASSUME NEW r \in Reqs, NEW b \in Buckets, ListObjects(r, b) PROVE Typed'
  <2> USE <1>5 DEF ListObjects
  <2>1. DirType' /\ FileType' /\ ReadType'
    BY DEF DirType, FileType, ReadType
  <2>2. CallType'
    BY DEF CallType, Request, AllOps, Ended
  <2>3. CtlType'
    BY DEF CtlType, Labels, Results
  <2>4. Located'
    BY DEF Located, CallType, ReadType, CtlType, Labels, ObjectLabels, BucketLabels
  <2>5. TempsHeld'
    BY DEF TempsHeld, CtlType
  <2> QED BY <2>1, <2>2, <2>3, <2>4, <2>5
<1>6. ASSUME NEW r \in Reqs, NEW b \in Buckets, CreateBucket(r, b) PROVE Typed'
  <2> USE <1>6 DEF CreateBucket
  <2>1. FileType' /\ ReadType'
    BY DEF FileType, ReadType
  <2>2. DirType'
    BY DEF DirType, Json, Inode, Located, CtlType, Labels, ObjectLabels, BucketLabels
  <2>3. CallType'
    BY DEF CallType, Request, AllOps, Ended
  <2>4. CtlType'
    BY DEF CtlType, Labels, Results
  <2>5. Located'
    BY DEF Located, CallType, ReadType, CtlType, Labels, ObjectLabels, BucketLabels
  <2>6. TempsHeld'
    BY DEF TempsHeld, CtlType
  <2> QED BY <2>1, <2>2, <2>3, <2>4, <2>5, <2>6
<1>7. ASSUME NEW r \in Reqs, NEW b \in Buckets, DeleteBucket(r, b) PROVE Typed'
  <2> USE <1>7 DEF DeleteBucket
  <2>1. DirType' /\ FileType' /\ ReadType'
    BY DEF DirType, FileType, ReadType
  <2>2. CallType'
    BY DEF CallType, Request, AllOps, Ended
  <2>3. CtlType'
    BY DEF CtlType, Labels, Results
  <2>4. Located'
    BY DEF Located, CallType, ReadType, CtlType, Labels, ObjectLabels, BucketLabels
  <2>5. TempsHeld'
    BY DEF TempsHeld, CtlType
  <2> QED BY <2>1, <2>2, <2>3, <2>4, <2>5
<1>8. ASSUME NEW r \in Reqs, ListBuckets(r) PROVE Typed'
  <2> USE <1>8 DEF ListBuckets
  <2>1. DirType' /\ FileType'
    BY DEF DirType, FileType
  <2>2. CallType'
    BY DEF CallType, Request, AllOps, Ended
  <2>3. CtlType'
    BY DEF CtlType, Labels, Results
  <2>4. ReadType'
    BY DEF ReadType, DirType, Entry
  <2>5. Located'
    BY DEF Located, CallType, ReadType, DirType, CtlType, Labels, ObjectLabels, BucketLabels
  <2>6. TempsHeld'
    BY DEF TempsHeld, CtlType
  <2> QED BY <2>1, <2>2, <2>3, <2>4, <2>5, <2>6
<1>9. ASSUME NEW r \in Reqs, CreateBodyTemp(r) PROVE Typed'
  <2> USE <1>9 DEF CreateBodyTemp
  <2>1. DirType' /\ CallType' /\ ReadType'
    BY DEF DirType, CallType, ReadType
  <2>2. FileType'
    BY DEF FileType
  <2>3. CtlType'
    BY DEF CtlType, Labels, Results
  <2>4. Located'
    BY DEF Located, CallType, ReadType, CtlType, Labels, ObjectLabels, BucketLabels
  <2>5. TempsHeld'
    BY DEF TempsHeld, FileType, CtlType, Content
  <2> QED BY <2>1, <2>2, <2>3, <2>4, <2>5
<1>10. ASSUME NEW r \in Reqs, WriteChunk(r) PROVE Typed'
  <2> USE <1>10 DEF WriteChunk
  <2>1. DirType' /\ CallType' /\ CtlType' /\ ReadType'
    BY DEF DirType, CallType, CtlType, ReadType
  <2>2. [otmp[r] EXCEPT !.n = @ + 1] \in Content /\ [otmp[r] EXCEPT !.n = @ + 1].w = r
    BY ConstantsAssumption DEF TempsHeld, Content
  <2>3. FileType'
    BY <2>2 DEF FileType
  <2>4. Located'
    BY DEF Located, CallType, ReadType, CtlType, Labels, ObjectLabels, BucketLabels
  <2>5. TempsHeld'
    BY <2>2 DEF TempsHeld, FileType, CtlType
  <2> QED BY <2>1, <2>2, <2>3, <2>4, <2>5
<1>11. ASSUME NEW r \in Reqs, RenameBody(r) PROVE Typed'
  <2> USE <1>11 DEF RenameBody
  <2>1. DirType' /\ CallType' /\ ReadType'
    BY DEF DirType, CallType, ReadType
  <2>2. FileType'
    BY DEF FileType
  <2>3. CtlType'
    BY DEF CtlType, Labels, Results
  <2>4. Located'
    BY DEF Located, CallType, ReadType, CtlType, Labels, ObjectLabels, BucketLabels
  <2>5. TempsHeld'
    BY DEF TempsHeld, FileType, CtlType, Full
  <2> QED BY <2>1, <2>2, <2>3, <2>4, <2>5
<1>12. ASSUME NEW r \in Reqs, UnlinkBodyTemp(r) PROVE Typed'
  <2> USE <1>12 DEF UnlinkBodyTemp
  <2>1. DirType' /\ CallType' /\ ReadType'
    BY DEF DirType, CallType, ReadType
  <2>2. FileType'
    BY DEF FileType
  <2>3. CtlType'
    BY DEF CtlType, Labels, Results
  <2>4. Located'
    BY DEF Located, CallType, ReadType, CtlType, Labels, ObjectLabels, BucketLabels
  <2>5. TempsHeld'
    BY DEF TempsHeld, FileType, CtlType, Full
  <2> QED BY <2>1, <2>2, <2>3, <2>4, <2>5
<1>13. ASSUME NEW r \in Reqs, CreateSidecarTemp(r) PROVE Typed'
  <2> USE <1>13 DEF CreateSidecarTemp
  <2>1. DirType' /\ CallType' /\ ReadType'
    BY DEF DirType, CallType, ReadType
  <2>2. FileType'
    BY DEF FileType
  <2>3. CtlType'
    BY DEF CtlType, Labels, Results
  <2>4. Located'
    BY DEF Located, CallType, ReadType, CtlType, Labels, ObjectLabels, BucketLabels
  <2>5. TempsHeld'
    BY DEF TempsHeld, FileType, CtlType, Full
  <2> QED BY <2>1, <2>2, <2>3, <2>4, <2>5
<1>14. ASSUME NEW r \in Reqs, RenameSidecar(r) PROVE Typed'
  <2> USE <1>14 DEF RenameSidecar
  <2>1. DirType' /\ CallType' /\ ReadType'
    BY DEF DirType, CallType, ReadType
  <2>2. FileType'
    BY DEF FileType
  <2>3. CtlType'
    BY DEF CtlType, Labels, Results
  <2>4. Located'
    BY DEF Located, CallType, ReadType, CtlType, Labels, ObjectLabels, BucketLabels
  <2>5. TempsHeld'
    BY DEF TempsHeld, FileType, CtlType, Full
  <2> QED BY <2>1, <2>2, <2>3, <2>4, <2>5
<1>15. ASSUME NEW r \in Reqs, UnlinkSidecarTemp(r) PROVE Typed'
  <2> USE <1>15 DEF UnlinkSidecarTemp
  <2>1. DirType' /\ CallType' /\ ReadType'
    BY DEF DirType, CallType, ReadType
  <2>2. FileType'
    BY DEF FileType
  <2>3. CtlType'
    BY DEF CtlType, Labels, Results
  <2>4. Located'
    BY DEF Located, CallType, ReadType, CtlType, Labels, ObjectLabels, BucketLabels
  <2>5. TempsHeld'
    BY DEF TempsHeld, FileType, CtlType, Full
  <2> QED BY <2>1, <2>2, <2>3, <2>4, <2>5
<1>16. ASSUME NEW r \in Reqs, OpenBody(r) PROVE Typed'
  <2> USE <1>16 DEF OpenBody
  <2>1. DirType' /\ FileType' /\ CallType'
    BY DEF DirType, FileType, CallType
  <2>2. CtlType'
    BY DEF CtlType, Labels, Results
  <2>3. ReadType'
    BY DEF ReadType, FileType, Located, ObjectLabels
  <2>4. Located'
    BY DEF Located, CallType, ReadType, CtlType, Labels, ObjectLabels, BucketLabels
  <2>5. TempsHeld'
    BY DEF TempsHeld, CtlType
  <2> QED BY <2>1, <2>2, <2>3, <2>4, <2>5
<1>17. ASSUME NEW r \in Reqs, DeleteSidecar(r) PROVE Typed'
  <2> USE <1>17 DEF DeleteSidecar
  <2>1. DirType' /\ CallType' /\ ReadType'
    BY DEF DirType, CallType, ReadType
  <2>2. FileType'
    BY DEF FileType
  <2>3. CtlType'
    BY DEF CtlType, Labels, Results
  <2>4. Located'
    BY DEF Located, CallType, ReadType, CtlType, Labels, ObjectLabels, BucketLabels
  <2>5. TempsHeld'
    BY DEF TempsHeld, FileType, CtlType, Full
  <2> QED BY <2>1, <2>2, <2>3, <2>4, <2>5
<1>18. ASSUME NEW r \in Reqs, ReadObjectsDir(r) PROVE Typed'
  <2> USE <1>18 DEF ReadObjectsDir
  <2>1. DirType' /\ FileType' /\ CallType'
    BY DEF DirType, FileType, CallType
  <2>2. CtlType'
    BY DEF CtlType, Labels, Results
  <2>3. ReadType'
    BY DEF ReadType, BodyNames, BodyTemps, Entry
  <2>4. Located'
    BY DEF Located, CallType, ReadType, CtlType, Labels, ObjectLabels, BucketLabels
  <2>5. TempsHeld'
    BY DEF TempsHeld, CtlType
  <2> QED BY <2>1, <2>2, <2>3, <2>4, <2>5
<1>19. ASSUME NEW r \in Reqs, ListEntry(r) PROVE Typed'
  <2> USE <1>19 DEF ListEntry
  <2>1. DirType' /\ FileType' /\ CallType'
    BY DEF DirType, FileType, CallType
  <2>2. CtlType'
    BY DEF CtlType, Labels, Results
  <2>3. ReadType'
    BY DEF ReadType, MetaNames, FileType, Located, CtlType, Labels, ObjectLabels, BucketLabels
  <2>4. Located'
    BY DEF Located, CallType, ReadType, CtlType, Labels, ObjectLabels, BucketLabels
  <2>5. TempsHeld'
    BY DEF TempsHeld, CtlType
  <2> QED BY <2>1, <2>2, <2>3, <2>4, <2>5
<1>20. ASSUME NEW r \in Reqs, ListDone(r) PROVE Typed'
  <2> USE <1>20 DEF ListDone
  <2>1. DirType' /\ FileType' /\ CallType' /\ ReadType'
    BY DEF DirType, FileType, CallType, ReadType
  <2>2. CtlType'
    BY DEF CtlType, Labels, Results
  <2>3. Located'
    BY DEF Located, CallType, ReadType, CtlType, Labels, ObjectLabels, BucketLabels
  <2>4. TempsHeld'
    BY DEF TempsHeld, CtlType
  <2> QED BY <2>1, <2>2, <2>3, <2>4
<1>21. ASSUME NEW r \in Reqs, ReadBucketJson(r) PROVE Typed'
  <2> USE <1>21 DEF ReadBucketJson
  <2>1. DirType' /\ FileType' /\ CallType'
    BY DEF DirType, FileType, CallType
  <2>2. CtlType'
    BY DEF CtlType, Labels, Results
  <2>3. ReadType'
    BY DEF ReadType, Located
  <2>4. Located'
    BY DEF Located, CallType, ReadType, CtlType, Labels, ObjectLabels, BucketLabels
  <2>5. TempsHeld'
    BY DEF TempsHeld, CtlType
  <2> QED BY <2>1, <2>2, <2>3, <2>4, <2>5
<1>22. ASSUME NEW r \in Reqs, ListBucketsDone(r) PROVE Typed'
  <2> USE <1>22 DEF ListBucketsDone
  <2>1. DirType' /\ FileType' /\ CallType' /\ ReadType'
    BY DEF DirType, FileType, CallType, ReadType
  <2>2. CtlType'
    BY DEF CtlType, Labels, Results
  <2>3. Located'
    BY DEF Located, CallType, ReadType, CtlType, Labels, ObjectLabels, BucketLabels
  <2>4. TempsHeld'
    BY DEF TempsHeld, CtlType
  <2> QED BY <2>1, <2>2, <2>3, <2>4
<1>23. ASSUME NEW r \in Reqs, MakeObjectsDir(r) PROVE Typed'
  <2> USE <1>23 DEF MakeObjectsDir
  <2>1. FileType' /\ CallType' /\ ReadType'
    BY DEF FileType, CallType, ReadType
  <2>2. DirType'
    BY DEF DirType, Json, Inode, Located, CtlType, Labels, ObjectLabels, BucketLabels
  <2>3. CtlType'
    BY DEF CtlType, Labels, Results
  <2>4. Located'
    BY DEF Located, CallType, ReadType, CtlType, Labels, ObjectLabels, BucketLabels
  <2>5. TempsHeld'
    BY DEF TempsHeld, CtlType
  <2> QED BY <2>1, <2>2, <2>3, <2>4, <2>5
<1>24. ASSUME NEW r \in Reqs, MakeMetaDir(r) PROVE Typed'
  <2> USE <1>24 DEF MakeMetaDir
  <2>1. FileType' /\ CallType' /\ ReadType'
    BY DEF FileType, CallType, ReadType
  <2>2. DirType'
    BY DEF DirType, Json, Inode, Located, CtlType, Labels, ObjectLabels, BucketLabels
  <2>3. CtlType'
    BY DEF CtlType, Labels, Results
  <2>4. Located'
    BY DEF Located, CallType, ReadType, CtlType, Labels, ObjectLabels, BucketLabels
  <2>5. TempsHeld'
    BY DEF TempsHeld, CtlType
  <2> QED BY <2>1, <2>2, <2>3, <2>4, <2>5
<1>25. ASSUME NEW r \in Reqs, OpenBucketJson(r) PROVE Typed'
  <2> USE <1>25 DEF OpenBucketJson
  <2>1. FileType' /\ CallType'
    BY DEF FileType, CallType
  <2>2. bjson[req[r].bkt] # None => bjson[req[r].bkt].ino \in Inode
    BY DEF DirType, Json, Located, CtlType, Labels, ObjectLabels, BucketLabels
  <2>3. req[r].bkt \in Buckets /\ r \in Inode
    BY DEF Inode, Located, CtlType, Labels, ObjectLabels, BucketLabels
  <2>4. DirType'
    <3>1. \A i \in Inode : [ino |-> i, ok |-> FALSE] \in Json
      BY DEF Json
    <3>2. \/ UNCHANGED bjson
          \/ \E i \in Inode :
               bjson' = [bjson EXCEPT ![req[r].bkt] = [ino |-> i, ok |-> FALSE]]
      BY <2>2, <2>3
    <3>3. bjson' \in [Buckets -> Json \cup {None}]
      <4>1. CASE UNCHANGED bjson
        BY <4>1 DEF DirType
      <4>2. ASSUME NEW i \in Inode,
                   bjson' = [bjson EXCEPT ![req[r].bkt] = [ino |-> i, ok |-> FALSE]]
            PROVE  bjson' \in [Buckets -> Json \cup {None}]
        <5> HIDE <1>25
        <5> QED BY <3>1, <4>2 DEF DirType
      <4> QED BY <3>2, <4>1, <4>2
    <3> QED
      BY <3>3 DEF DirType
  <2>5. CtlType'
    BY DEF CtlType, Labels, Results
  <2>6. ReadType'
    BY <2>2, <2>3 DEF ReadType, DirType, Json, Inode, Located, CtlType, Labels, ObjectLabels, BucketLabels
  <2>7. Located'
    BY DEF Located, CallType, ReadType, CtlType, Labels, ObjectLabels, BucketLabels
  <2>8. TempsHeld'
    BY DEF TempsHeld, CtlType
  <2> QED BY <2>1, <2>2, <2>3, <2>4, <2>5, <2>6, <2>7, <2>8
<1>26. ASSUME NEW r \in Reqs, WriteBucketJson(r) PROVE Typed'
  <2> USE <1>26 DEF WriteBucketJson
  <2>1. FileType' /\ CallType' /\ ReadType'
    BY DEF FileType, CallType, ReadType
  <2>2. DirType'
    BY DEF DirType, Json, Inode, Located, CtlType, Labels, ObjectLabels, BucketLabels
  <2>3. CtlType'
    BY DEF CtlType, Labels, Results
  <2>4. Located'
    BY DEF Located, CallType, ReadType, CtlType, Labels, ObjectLabels, BucketLabels
  <2>5. TempsHeld'
    BY DEF TempsHeld, CtlType
  <2> QED BY <2>1, <2>2, <2>3, <2>4, <2>5
<1>27. ASSUME NEW r \in Reqs, CheckEmpty(r) PROVE Typed'
  <2> USE <1>27 DEF CheckEmpty
  <2>1. DirType' /\ FileType' /\ CallType' /\ ReadType'
    BY DEF DirType, FileType, CallType, ReadType
  <2>2. CtlType'
    BY DEF CtlType, Labels, Results
  <2>3. Located'
    BY DEF Located, CallType, ReadType, CtlType, Labels, ObjectLabels, BucketLabels
  <2>4. TempsHeld'
    BY DEF TempsHeld, CtlType
  <2> QED BY <2>1, <2>2, <2>3, <2>4
<1>28. ASSUME NEW r \in Reqs, RemoveObjectsDir(r) PROVE Typed'
  <2> USE <1>28 DEF RemoveObjectsDir
  <2>1. FileType' /\ CallType' /\ ReadType'
    BY DEF FileType, CallType, ReadType
  <2>2. DirType'
    BY DEF DirType, Json, Inode, Located, CtlType, Labels, ObjectLabels, BucketLabels
  <2>3. CtlType'
    BY DEF CtlType, Labels, Results
  <2>4. Located'
    BY DEF Located, CallType, ReadType, CtlType, Labels, ObjectLabels, BucketLabels
  <2>5. TempsHeld'
    BY DEF TempsHeld, CtlType
  <2> QED BY <2>1, <2>2, <2>3, <2>4, <2>5
<1>29. ASSUME NEW r \in Reqs, RecheckObjects(r) PROVE Typed'
  <2> USE <1>29 DEF RecheckObjects
  <2>1. DirType' /\ FileType' /\ CallType' /\ ReadType'
    BY DEF DirType, FileType, CallType, ReadType
  <2>2. CtlType'
    BY DEF CtlType, Labels, Results
  <2>3. Located'
    BY DEF Located, CallType, ReadType, CtlType, Labels, ObjectLabels, BucketLabels
  <2>4. TempsHeld'
    BY DEF TempsHeld, CtlType
  <2> QED BY <2>1, <2>2, <2>3, <2>4
<1>30. ASSUME NEW r \in Reqs, RemoveMetaDir(r) PROVE Typed'
  <2> USE <1>30 DEF RemoveMetaDir
  <2>1. FileType' /\ CallType' /\ ReadType'
    BY DEF FileType, CallType, ReadType
  <2>2. DirType'
    BY DEF DirType, Json, Inode, Located, CtlType, Labels, ObjectLabels, BucketLabels
  <2>3. CtlType'
    BY DEF CtlType, Labels, Results
  <2>4. Located'
    BY DEF Located, CallType, ReadType, CtlType, Labels, ObjectLabels, BucketLabels
  <2>5. TempsHeld'
    BY DEF TempsHeld, CtlType
  <2> QED BY <2>1, <2>2, <2>3, <2>4, <2>5
<1>31. ASSUME NEW r \in Reqs, RecheckMeta(r) PROVE Typed'
  <2> USE <1>31 DEF RecheckMeta
  <2>1. DirType' /\ FileType' /\ CallType' /\ ReadType'
    BY DEF DirType, FileType, CallType, ReadType
  <2>2. CtlType'
    BY DEF CtlType, Labels, Results
  <2>3. Located'
    BY DEF Located, CallType, ReadType, CtlType, Labels, ObjectLabels, BucketLabels
  <2>4. TempsHeld'
    BY DEF TempsHeld, CtlType
  <2> QED BY <2>1, <2>2, <2>3, <2>4
<1>32. ASSUME NEW r \in Reqs, RemoveBucketJson(r) PROVE Typed'
  <2> USE <1>32 DEF RemoveBucketJson
  <2>1. FileType' /\ CallType' /\ ReadType'
    BY DEF FileType, CallType, ReadType
  <2>2. DirType'
    BY DEF DirType, Json, Inode, Located, CtlType, Labels, ObjectLabels, BucketLabels
  <2>3. CtlType'
    BY DEF CtlType, Labels, Results
  <2>4. Located'
    BY DEF Located, CallType, ReadType, CtlType, Labels, ObjectLabels, BucketLabels
  <2>5. TempsHeld'
    BY DEF TempsHeld, CtlType
  <2> QED BY <2>1, <2>2, <2>3, <2>4, <2>5
<1>33. ASSUME NEW r \in Reqs, RemoveBucketDir(r) PROVE Typed'
  <2> USE <1>33 DEF RemoveBucketDir
  <2>1. FileType' /\ CallType' /\ ReadType'
    BY DEF FileType, CallType, ReadType
  <2>2. DirType'
    BY DEF DirType, Json, Inode, Located, CtlType, Labels, ObjectLabels, BucketLabels
  <2>3. CtlType'
    BY DEF CtlType, Labels, Results
  <2>4. Located'
    BY DEF Located, CallType, ReadType, CtlType, Labels, ObjectLabels, BucketLabels
  <2>5. TempsHeld'
    BY DEF TempsHeld, CtlType
  <2> QED BY <2>1, <2>2, <2>3, <2>4, <2>5
<1>34. ASSUME NEW r \in Reqs, BodyError(r) PROVE Typed'
  <2> USE <1>34 DEF BodyError
  <2>1. DirType' /\ FileType' /\ CallType' /\ ReadType'
    BY DEF DirType, FileType, CallType, ReadType
  <2>2. CtlType'
    BY DEF CtlType, Labels, Results
  <2>3. Located'
    BY DEF Located, CallType, ReadType, CtlType, Labels, ObjectLabels, BucketLabels
  <2>4. TempsHeld'
    BY DEF TempsHeld, CtlType
  <2> QED BY <2>1, <2>2, <2>3, <2>4
<1>35. ASSUME NEW r \in Reqs, SidecarError(r) PROVE Typed'
  <2> USE <1>35 DEF SidecarError
  <2>1. DirType' /\ FileType' /\ CallType' /\ ReadType'
    BY DEF DirType, FileType, CallType, ReadType
  <2>2. CtlType'
    BY DEF CtlType, Labels, Results
  <2>3. Located'
    BY DEF Located, CallType, ReadType, CtlType, Labels, ObjectLabels, BucketLabels
  <2>4. TempsHeld'
    BY DEF TempsHeld, CtlType
  <2> QED BY <2>1, <2>2, <2>3, <2>4
<1>36. ASSUME NEW r \in Reqs, DeleteSidecarError(r) PROVE Typed'
  <2> USE <1>36 DEF DeleteSidecarError
  <2>1. DirType' /\ FileType' /\ CallType' /\ ReadType'
    BY DEF DirType, FileType, CallType, ReadType
  <2>2. CtlType'
    BY DEF CtlType, Labels, Results
  <2>3. Located'
    BY DEF Located, CallType, ReadType, CtlType, Labels, ObjectLabels, BucketLabels
  <2>4. TempsHeld'
    BY DEF TempsHeld, CtlType
  <2> QED BY <2>1, <2>2, <2>3, <2>4
<1>37. ASSUME NEW r \in Reqs, Drop(r) PROVE Typed'
  <2> USE <1>37 DEF Drop
  <2>1. DirType' /\ FileType' /\ CallType' /\ ReadType'
    BY DEF DirType, FileType, CallType, ReadType
  <2>2. CtlType'
    BY DEF CtlType, Labels, Results
  <2>3. Located'
    BY DEF Located, CallType, ReadType, CtlType, Labels, ObjectLabels, BucketLabels
  <2>4. TempsHeld'
    BY DEF TempsHeld, CtlType
  <2> QED BY <2>1, <2>2, <2>3, <2>4
<1>38. CASE UNCHANGED vars
  BY <1>38 DEF vars, DirType, FileType, CallType, CtlType, ReadType, Located, TempsHeld
<1> QED
  BY <1>1, <1>2, <1>3, <1>4, <1>5, <1>6, <1>7, <1>8, <1>9, <1>10, <1>11,
     <1>12, <1>13, <1>14, <1>15, <1>16, <1>17, <1>18, <1>19, <1>20, <1>21,
     <1>22, <1>23, <1>24, <1>25, <1>26, <1>27, <1>28, <1>29, <1>30, <1>31,
     <1>32, <1>33, <1>34, <1>35, <1>36, <1>37, <1>38
  DEF Next, Issue, Advance, Fault, Quiescent

(* The variables always have their types: no request ever uses a bucket,   *)
(* key or temporary file it does not have.                                 *)
THEOREM TypeCorrect == Spec => []TypeOK
<1>1. TypeInv => TypeOK
  BY DEF TypeInv
<1> QED
  BY <1>1, TypeInit, TypeStep, PTL DEF Spec

-----------------------------------------------------------------------------
(***************************************************************************)
(* Writers.                                                                *)
(***************************************************************************)
PutLabels == {"body_temp", "stream", "body_unlink",
              "meta_temp", "meta_rename", "meta_unlink"}

(***************************************************************************)
(* Where a request is tells which operation it is running and which        *)
(* temporary file it may hold.                                             *)
(***************************************************************************)
Placed ==
  \A r \in Reqs :
    /\ pc[r] = "idle" => req[r] = NoRequest
    /\ pc[r] \in PutLabels => req[r].op = "put"
    /\ pc[r] = "meta_delete" => req[r].op = "delete"
    /\ pc[r] \notin PutLabels \cup {"meta_delete", "done", "dropped"}
         => req[r].op \notin WriterOps
    /\ otmp[r] # None => pc[r] \in {"stream", "body_unlink", "dropped"}
    /\ mtmp[r] # None => pc[r] \in {"meta_rename", "meta_unlink", "dropped"}

(* A request's predecessors had ended when it was issued, and ended        *)
(* requests stay so.                                                       *)
PredecessorsEnded == \A r \in Reqs : before[r] \subseteq Ended

(***************************************************************************)
(* What one step of request x leaves alone.                                *)
(***************************************************************************)
OthersAlone(x) ==
  \A r \in Reqs \ {x} :
    /\ pc'[r] = pc[r] /\ res'[r] = res[r]
    /\ req'[r] = req[r] /\ before'[r] = before[r]
    /\ otmp'[r] = otmp[r] /\ mtmp'[r] = mtmp[r] /\ fd'[r] = fd[r]
    /\ sidecar'[r] = sidecar[r] /\ stream'[r] = stream[r]
    /\ names'[r] = names[r] /\ listed'[r] = listed[r]

OtherKeysAlone(x) ==
  \A b \in Buckets, k \in Keys :
    \/ req'[x].op \in WriterOps /\ req'[x].bkt = b /\ req'[x].key = k
    \/ objects'[b][k] = objects[b][k] /\ meta'[b][k] = meta[b][k]

Footprint(x) ==
  /\ pc[x] \notin {"done", "dropped"}
  /\ OthersAlone(x)
  /\ OtherKeysAlone(x)
  /\ \/ pc[x] = "idle" /\ before'[x] = Ended
     \/ pc[x] # "idle" /\ req'[x] = req[x] /\ before'[x] = before[x]

(***************************************************************************)
(* The steps of puts and deletes, and those of all other requests.         *)
(***************************************************************************)
WriterStep(x) ==
  \/ \E b \in Buckets, k \in Keys : PutObject(x, b, k) \/ DeleteObject(x, b, k)
  \/ CreateBodyTemp(x) \/ WriteChunk(x) \/ BodyError(x) \/ UnlinkBodyTemp(x)
  \/ RenameBody(x) \/ CreateSidecarTemp(x) \/ RenameSidecar(x)
  \/ SidecarError(x) \/ UnlinkSidecarTemp(x)
  \/ DeleteSidecar(x) \/ DeleteSidecarError(x) \/ Drop(x)

OtherStep(x) ==
  /\ UNCHANGED <<objects, meta, otmp, mtmp>>
  /\ req'[x].op \notin WriterOps
  /\ pc'[x] \notin PutLabels \cup {"idle", "meta_delete"}
  /\ stream'[x] # stream[x] =>
       \E b \in Buckets, k \in Keys : objects[b][k] # None /\ stream'[x] = objects[b][k]

(* Every step is a step of one request, confined to its footprint.         *)
LEMMA StepFootprint ==
  ASSUME TypeInv, Placed, NEW x \in Reqs, Issue(x) \/ Advance(x) \/ Fault(x)
  PROVE  Footprint(x) /\ (WriterStep(x) \/ OtherStep(x))
<1> USE DEF TypeInv, TypeOK, Footprint, OthersAlone, OtherKeysAlone, WriterOps,
            Accept, Goto, Return, Bkt, Key,
            dirVars, fileVars, callVars, ctlVars, readVars
<1>1. ASSUME NEW b \in Buckets, NEW k \in Keys, PutObject(x, b, k)
      PROVE  Footprint(x) /\ WriterStep(x)
  <2>1. WriterStep(x)
    BY <1>1 DEF WriterStep
  <2>2. Footprint(x)
    BY <1>1 DEF PutObject
  <2> QED BY <2>1, <2>2
<1>2. ASSUME NEW b \in Buckets, NEW k \in Keys, GetObject(x, b, k)
      PROVE  Footprint(x) /\ OtherStep(x)
  <2>1. OtherStep(x)
    BY <1>2 DEF GetObject, OtherStep, Placed, Located, PutLabels, ObjectLabels, BucketLabels, Labels
  <2>2. Footprint(x)
    BY <1>2 DEF GetObject
  <2> QED BY <2>1, <2>2
<1>3. ASSUME NEW b \in Buckets, NEW k \in Keys, HeadObject(x, b, k)
      PROVE  Footprint(x) /\ OtherStep(x)
  <2>1. OtherStep(x)
    BY <1>3 DEF HeadObject, OtherStep, Placed, Located, PutLabels, ObjectLabels, BucketLabels, Labels
  <2>2. Footprint(x)
    BY <1>3 DEF HeadObject
  <2> QED BY <2>1, <2>2
<1>4. ASSUME NEW b \in Buckets, NEW k \in Keys, DeleteObject(x, b, k)
      PROVE  Footprint(x) /\ WriterStep(x)
  <2>1. WriterStep(x)
    BY <1>4 DEF WriterStep
  <2>2. Footprint(x)
    <3>1. objects' = [objects EXCEPT ![b][k] = None] \/ UNCHANGED objects
      BY <1>4 DEF DeleteObject
    <3>2. \A c \in Buckets, j \in Keys :
            c # b \/ j # k => objects'[c][j] = objects[c][j]
      BY <3>1
    <3>3. UNCHANGED meta
      BY <1>4 DEF DeleteObject
    <3>4. OtherKeysAlone(x)
      BY <1>4, <3>2, <3>3 DEF DeleteObject, Request
    <3> QED
      BY <1>4, <3>4 DEF DeleteObject
  <2> QED BY <2>1, <2>2
<1>5. ASSUME NEW b \in Buckets, ListObjects(x, b)
      PROVE  Footprint(x) /\ OtherStep(x)
  <2>1. OtherStep(x)
    BY <1>5 DEF ListObjects, OtherStep, Placed, Located, PutLabels, ObjectLabels, BucketLabels, Labels
  <2>2. Footprint(x)
    BY <1>5 DEF ListObjects
  <2> QED BY <2>1, <2>2
<1>6. ASSUME NEW b \in Buckets, CreateBucket(x, b)
      PROVE  Footprint(x) /\ OtherStep(x)
  <2>1. OtherStep(x)
    BY <1>6 DEF CreateBucket, OtherStep, Placed, Located, PutLabels, ObjectLabels, BucketLabels, Labels
  <2>2. Footprint(x)
    BY <1>6 DEF CreateBucket
  <2> QED BY <2>1, <2>2
<1>7. ASSUME NEW b \in Buckets, DeleteBucket(x, b)
      PROVE  Footprint(x) /\ OtherStep(x)
  <2>1. OtherStep(x)
    BY <1>7 DEF DeleteBucket, OtherStep, Placed, Located, PutLabels, ObjectLabels, BucketLabels, Labels
  <2>2. Footprint(x)
    BY <1>7 DEF DeleteBucket
  <2> QED BY <2>1, <2>2
<1>8. ASSUME ListBuckets(x)
      PROVE  Footprint(x) /\ OtherStep(x)
  <2>1. OtherStep(x)
    BY <1>8 DEF ListBuckets, OtherStep, Placed, Located, PutLabels, ObjectLabels, BucketLabels, Labels
  <2>2. Footprint(x)
    BY <1>8 DEF ListBuckets
  <2> QED BY <2>1, <2>2
<1>9. ASSUME CreateBodyTemp(x)
      PROVE  Footprint(x) /\ WriterStep(x)
  <2>1. WriterStep(x)
    BY <1>9 DEF WriterStep
  <2>2. Footprint(x)
    BY <1>9 DEF CreateBodyTemp, Placed, Located, PutLabels, ObjectLabels
  <2> QED BY <2>1, <2>2
<1>10. ASSUME WriteChunk(x)
      PROVE  Footprint(x) /\ WriterStep(x)
  <2>1. WriterStep(x)
    BY <1>10 DEF WriterStep
  <2>2. Footprint(x)
    BY <1>10 DEF WriteChunk, Placed, Located, PutLabels, ObjectLabels
  <2> QED BY <2>1, <2>2
<1>11. ASSUME RenameBody(x)
      PROVE  Footprint(x) /\ WriterStep(x)
  <2>1. WriterStep(x)
    BY <1>11 DEF WriterStep
  <2>2. Footprint(x)
    BY <1>11 DEF RenameBody, Placed, Located, PutLabels, ObjectLabels
  <2> QED BY <2>1, <2>2
<1>12. ASSUME UnlinkBodyTemp(x)
      PROVE  Footprint(x) /\ WriterStep(x)
  <2>1. WriterStep(x)
    BY <1>12 DEF WriterStep
  <2>2. Footprint(x)
    BY <1>12 DEF UnlinkBodyTemp, Placed, Located, PutLabels, ObjectLabels
  <2> QED BY <2>1, <2>2
<1>13. ASSUME CreateSidecarTemp(x)
      PROVE  Footprint(x) /\ WriterStep(x)
  <2>1. WriterStep(x)
    BY <1>13 DEF WriterStep
  <2>2. Footprint(x)
    BY <1>13 DEF CreateSidecarTemp, Placed, Located, PutLabels, ObjectLabels
  <2> QED BY <2>1, <2>2
<1>14. ASSUME RenameSidecar(x)
      PROVE  Footprint(x) /\ WriterStep(x)
  <2>1. WriterStep(x)
    BY <1>14 DEF WriterStep
  <2>2. Footprint(x)
    BY <1>14 DEF RenameSidecar, Placed, Located, PutLabels, ObjectLabels
  <2> QED BY <2>1, <2>2
<1>15. ASSUME UnlinkSidecarTemp(x)
      PROVE  Footprint(x) /\ WriterStep(x)
  <2>1. WriterStep(x)
    BY <1>15 DEF WriterStep
  <2>2. Footprint(x)
    BY <1>15 DEF UnlinkSidecarTemp, Placed, Located, PutLabels, ObjectLabels
  <2> QED BY <2>1, <2>2
<1>16. ASSUME OpenBody(x)
      PROVE  Footprint(x) /\ OtherStep(x)
  <2>1. OtherStep(x)
    <3>1. req[x].bkt \in Buckets /\ req[x].key \in Keys /\ req[x].op \notin WriterOps
      BY <1>16 DEF OpenBody, Placed, Located, PutLabels, ObjectLabels
    <3>2. UNCHANGED <<objects, meta, otmp, mtmp>> /\ UNCHANGED req /\ pc'[x] = "done"
      BY <1>16 DEF OpenBody
    <3>3. stream'[x] # stream[x] =>
            /\ objects[req[x].bkt][req[x].key] # None
            /\ stream'[x] = objects[req[x].bkt][req[x].key]
      BY <1>16 DEF OpenBody
    <3> QED
      BY <3>1, <3>2, <3>3 DEF OtherStep, PutLabels
  <2>2. Footprint(x)
    BY <1>16 DEF OpenBody
  <2> QED BY <2>1, <2>2
<1>17. ASSUME DeleteSidecar(x)
      PROVE  Footprint(x) /\ WriterStep(x)
  <2>1. WriterStep(x)
    BY <1>17 DEF WriterStep
  <2>2. Footprint(x)
    BY <1>17 DEF DeleteSidecar, Placed, Located, PutLabels, ObjectLabels
  <2> QED BY <2>1, <2>2
<1>18. ASSUME ReadObjectsDir(x)
      PROVE  Footprint(x) /\ OtherStep(x)
  <2>1. OtherStep(x)
    BY <1>18 DEF ReadObjectsDir, OtherStep, Placed, Located, PutLabels, ObjectLabels, BucketLabels, Labels
  <2>2. Footprint(x)
    BY <1>18 DEF ReadObjectsDir
  <2> QED BY <2>1, <2>2
<1>19. ASSUME ListEntry(x)
      PROVE  Footprint(x) /\ OtherStep(x)
  <2>1. OtherStep(x)
    BY <1>19 DEF ListEntry, OtherStep, Placed, Located, PutLabels, ObjectLabels, BucketLabels, Labels
  <2>2. Footprint(x)
    BY <1>19 DEF ListEntry
  <2> QED BY <2>1, <2>2
<1>20. ASSUME ListDone(x)
      PROVE  Footprint(x) /\ OtherStep(x)
  <2>1. OtherStep(x)
    BY <1>20 DEF ListDone, OtherStep, Placed, Located, PutLabels, ObjectLabels, BucketLabels, Labels
  <2>2. Footprint(x)
    BY <1>20 DEF ListDone
  <2> QED BY <2>1, <2>2
<1>21. ASSUME ReadBucketJson(x)
      PROVE  Footprint(x) /\ OtherStep(x)
  <2>1. OtherStep(x)
    BY <1>21 DEF ReadBucketJson, OtherStep, Placed, Located, PutLabels, ObjectLabels, BucketLabels, Labels
  <2>2. Footprint(x)
    BY <1>21 DEF ReadBucketJson
  <2> QED BY <2>1, <2>2
<1>22. ASSUME ListBucketsDone(x)
      PROVE  Footprint(x) /\ OtherStep(x)
  <2>1. OtherStep(x)
    BY <1>22 DEF ListBucketsDone, OtherStep, Placed, Located, PutLabels, ObjectLabels, BucketLabels, Labels
  <2>2. Footprint(x)
    BY <1>22 DEF ListBucketsDone
  <2> QED BY <2>1, <2>2
<1>23. ASSUME MakeObjectsDir(x)
      PROVE  Footprint(x) /\ OtherStep(x)
  <2>1. OtherStep(x)
    BY <1>23 DEF MakeObjectsDir, OtherStep, Placed, Located, PutLabels, ObjectLabels, BucketLabels, Labels
  <2>2. Footprint(x)
    BY <1>23 DEF MakeObjectsDir
  <2> QED BY <2>1, <2>2
<1>24. ASSUME MakeMetaDir(x)
      PROVE  Footprint(x) /\ OtherStep(x)
  <2>1. OtherStep(x)
    BY <1>24 DEF MakeMetaDir, OtherStep, Placed, Located, PutLabels, ObjectLabels, BucketLabels, Labels
  <2>2. Footprint(x)
    BY <1>24 DEF MakeMetaDir
  <2> QED BY <2>1, <2>2
<1>25. ASSUME OpenBucketJson(x)
      PROVE  Footprint(x) /\ OtherStep(x)
  <2>1. OtherStep(x)
    BY <1>25 DEF OpenBucketJson, OtherStep, Placed, Located, PutLabels, ObjectLabels, BucketLabels, Labels
  <2>2. Footprint(x)
    BY <1>25 DEF OpenBucketJson
  <2> QED BY <2>1, <2>2
<1>26. ASSUME WriteBucketJson(x)
      PROVE  Footprint(x) /\ OtherStep(x)
  <2>1. OtherStep(x)
    BY <1>26 DEF WriteBucketJson, OtherStep, Placed, Located, PutLabels, ObjectLabels, BucketLabels, Labels
  <2>2. Footprint(x)
    BY <1>26 DEF WriteBucketJson
  <2> QED BY <2>1, <2>2
<1>27. ASSUME CheckEmpty(x)
      PROVE  Footprint(x) /\ OtherStep(x)
  <2>1. OtherStep(x)
    BY <1>27 DEF CheckEmpty, OtherStep, Placed, Located, PutLabels, ObjectLabels, BucketLabels, Labels
  <2>2. Footprint(x)
    BY <1>27 DEF CheckEmpty
  <2> QED BY <2>1, <2>2
<1>28. ASSUME RemoveObjectsDir(x)
      PROVE  Footprint(x) /\ OtherStep(x)
  <2>1. OtherStep(x)
    BY <1>28 DEF RemoveObjectsDir, OtherStep, Placed, Located, PutLabels, ObjectLabels, BucketLabels, Labels
  <2>2. Footprint(x)
    BY <1>28 DEF RemoveObjectsDir
  <2> QED BY <2>1, <2>2
<1>29. ASSUME RecheckObjects(x)
      PROVE  Footprint(x) /\ OtherStep(x)
  <2>1. OtherStep(x)
    BY <1>29 DEF RecheckObjects, OtherStep, Placed, Located, PutLabels, ObjectLabels, BucketLabels, Labels
  <2>2. Footprint(x)
    BY <1>29 DEF RecheckObjects
  <2> QED BY <2>1, <2>2
<1>30. ASSUME RemoveMetaDir(x)
      PROVE  Footprint(x) /\ OtherStep(x)
  <2>1. OtherStep(x)
    BY <1>30 DEF RemoveMetaDir, OtherStep, Placed, Located, PutLabels, ObjectLabels, BucketLabels, Labels
  <2>2. Footprint(x)
    BY <1>30 DEF RemoveMetaDir
  <2> QED BY <2>1, <2>2
<1>31. ASSUME RecheckMeta(x)
      PROVE  Footprint(x) /\ OtherStep(x)
  <2>1. OtherStep(x)
    BY <1>31 DEF RecheckMeta, OtherStep, Placed, Located, PutLabels, ObjectLabels, BucketLabels, Labels
  <2>2. Footprint(x)
    BY <1>31 DEF RecheckMeta
  <2> QED BY <2>1, <2>2
<1>32. ASSUME RemoveBucketJson(x)
      PROVE  Footprint(x) /\ OtherStep(x)
  <2>1. OtherStep(x)
    BY <1>32 DEF RemoveBucketJson, OtherStep, Placed, Located, PutLabels, ObjectLabels, BucketLabels, Labels
  <2>2. Footprint(x)
    BY <1>32 DEF RemoveBucketJson
  <2> QED BY <2>1, <2>2
<1>33. ASSUME RemoveBucketDir(x)
      PROVE  Footprint(x) /\ OtherStep(x)
  <2>1. OtherStep(x)
    BY <1>33 DEF RemoveBucketDir, OtherStep, Placed, Located, PutLabels, ObjectLabels, BucketLabels, Labels
  <2>2. Footprint(x)
    BY <1>33 DEF RemoveBucketDir
  <2> QED BY <2>1, <2>2
<1>34. ASSUME BodyError(x)
      PROVE  Footprint(x) /\ WriterStep(x)
  <2>1. WriterStep(x)
    BY <1>34 DEF WriterStep
  <2>2. Footprint(x)
    BY <1>34 DEF BodyError, Placed, Located, PutLabels, ObjectLabels
  <2> QED BY <2>1, <2>2
<1>35. ASSUME SidecarError(x)
      PROVE  Footprint(x) /\ WriterStep(x)
  <2>1. WriterStep(x)
    BY <1>35 DEF WriterStep
  <2>2. Footprint(x)
    BY <1>35 DEF SidecarError, Placed, Located, PutLabels, ObjectLabels
  <2> QED BY <2>1, <2>2
<1>36. ASSUME DeleteSidecarError(x)
      PROVE  Footprint(x) /\ WriterStep(x)
  <2>1. WriterStep(x)
    BY <1>36 DEF WriterStep
  <2>2. Footprint(x)
    BY <1>36 DEF DeleteSidecarError, Placed, Located, PutLabels, ObjectLabels
  <2> QED BY <2>1, <2>2
<1>37. ASSUME Drop(x)
      PROVE  Footprint(x) /\ WriterStep(x)
  <2>1. WriterStep(x)
    BY <1>37 DEF WriterStep
  <2>2. Footprint(x)
    BY <1>37 DEF Drop
  <2> QED BY <2>1, <2>2
<1> QED
  BY <1>1, <1>2, <1>3, <1>4, <1>5, <1>6, <1>7, <1>8, <1>9, <1>10, <1>11,
     <1>12, <1>13, <1>14, <1>15, <1>16, <1>17, <1>18, <1>19, <1>20, <1>21,
     <1>22, <1>23, <1>24, <1>25, <1>26, <1>27, <1>28, <1>29, <1>30, <1>31,
     <1>32, <1>33, <1>34, <1>35, <1>36, <1>37
  DEF Issue, Advance, Fault

(***************************************************************************)
(* NoTempLeak and BodiesAreWhole.                                          *)
(***************************************************************************)
LEMMA PlacedStep ==
  ASSUME TypeInv, Placed, PredecessorsEnded, [Next]_vars
  PROVE  Placed' /\ PredecessorsEnded'
<1>1. ASSUME NEW x \in Reqs, Issue(x) \/ Advance(x) \/ Fault(x)
      PROVE  Placed' /\ PredecessorsEnded'
  <2>1. Footprint(x) /\ (WriterStep(x) \/ OtherStep(x))
    BY <1>1, StepFootprint
  <2>2. PredecessorsEnded'
    <3>1. Ended \subseteq Ended'
      BY <2>1 DEF Footprint, OthersAlone, Ended, TypeInv, TypeOK
    <3>2. \A r \in Reqs : before'[r] = before[r] \/ before'[r] = Ended
      BY <2>1 DEF Footprint, OthersAlone
    <3> QED
      BY <3>1, <3>2 DEF PredecessorsEnded
  <2>3. ASSUME NEW r \in Reqs \ {x}
        PROVE  /\ pc'[r] = pc[r] /\ req'[r] = req[r]
               /\ otmp'[r] = otmp[r] /\ mtmp'[r] = mtmp[r]
    BY <2>1, <2>3 DEF Footprint, OthersAlone
  <2> DEFINE At == /\ pc[x] = "idle" => req[x] = NoRequest
                   /\ pc[x] \in PutLabels => req[x].op = "put"
                   /\ pc[x] = "meta_delete" => req[x].op = "delete"
                   /\ pc[x] \notin PutLabels \cup {"meta_delete", "done", "dropped"}
                        => req[x].op \notin WriterOps
                   /\ otmp[x] # None => pc[x] \in {"stream", "body_unlink", "dropped"}
                   /\ mtmp[x] # None => pc[x] \in {"meta_rename", "meta_unlink", "dropped"}
  <2>4. At
    BY DEF Placed
  <2>5. At'
    <3>1. CASE OtherStep(x)
      BY <2>1, <2>4, <3>1 DEF OtherStep, Footprint, PutLabels, WriterOps
    <3>2. CASE WriterStep(x)
      <4> USE <2>4 DEF PutLabels, WriterOps, TypeInv, TypeOK, Accept, Goto, Return,
                       fileVars, callVars, ctlVars
      <4>1. ASSUME NEW b \in Buckets, NEW k \in Keys, PutObject(x, b, k) PROVE At'
        BY <4>1 DEF PutObject
      <4>2. ASSUME NEW b \in Buckets, NEW k \in Keys, DeleteObject(x, b, k) PROVE At'
        BY <4>2 DEF DeleteObject
      <4>3. CASE CreateBodyTemp(x)
        BY <4>3 DEF CreateBodyTemp
      <4>4. CASE WriteChunk(x)
        BY <4>4 DEF WriteChunk
      <4>5. CASE BodyError(x)
        BY <4>5 DEF BodyError
      <4>6. CASE UnlinkBodyTemp(x)
        BY <4>6 DEF UnlinkBodyTemp
      <4>7. CASE RenameBody(x)
        BY <4>7 DEF RenameBody
      <4>8. CASE CreateSidecarTemp(x)
        BY <4>8 DEF CreateSidecarTemp
      <4>9. CASE RenameSidecar(x)
        BY <4>9 DEF RenameSidecar
      <4>10. CASE SidecarError(x)
        BY <4>10 DEF SidecarError
      <4>11. CASE UnlinkSidecarTemp(x)
        BY <4>11 DEF UnlinkSidecarTemp
      <4>12. CASE DeleteSidecar(x)
        BY <4>12 DEF DeleteSidecar
      <4>13. CASE DeleteSidecarError(x)
        BY <4>13 DEF DeleteSidecarError
      <4>14. CASE Drop(x)
        BY <4>14 DEF Drop
      <4> QED
        BY <3>2, <4>1, <4>2, <4>3, <4>4, <4>5, <4>6, <4>7, <4>8, <4>9,
           <4>10, <4>11, <4>12, <4>13, <4>14
        DEF WriterStep
    <3> QED
      BY <2>1, <3>1, <3>2
  <2>6. Placed'
    BY <2>3, <2>5 DEF Placed
  <2> QED
    BY <2>2, <2>6
<1>2. CASE UNCHANGED vars
  BY <1>2 DEF vars, callVars, ctlVars, fileVars, Placed, PredecessorsEnded, Ended
<1> QED
  BY <1>1, <1>2 DEF Next, Quiescent

LEMMA WholeStep ==
  ASSUME TypeInv, Placed, BodiesAreWhole, [Next]_vars
  PROVE  BodiesAreWhole'
<1>1. ASSUME NEW x \in Reqs, Issue(x) \/ Advance(x) \/ Fault(x)
      PROVE  BodiesAreWhole'
  <2>1. Footprint(x) /\ (WriterStep(x) \/ OtherStep(x))
    BY <1>1, StepFootprint
  <2>2. CASE OtherStep(x)
    BY <2>1, <2>2 DEF OtherStep, Footprint, OthersAlone, BodiesAreWhole
  <2>3. CASE RenameBody(x)
    <3>1. otmp[x].n = Chunks /\ req[x].bkt \in Buckets /\ req[x].key \in Keys
      BY <2>3 DEF RenameBody, TypeInv, Located, ObjectLabels, Bkt, Key
    <3>2. \A b \in Buckets, k \in Keys :
            objects'[b][k] = objects[b][k] \/ objects'[b][k] = otmp[x]
      BY <2>3, <3>1 DEF RenameBody, TypeInv, TypeOK, Bkt, Key
    <3>3. UNCHANGED stream
      BY <2>3 DEF RenameBody, readVars
    <3> QED
      BY <3>1, <3>2, <3>3 DEF BodiesAreWhole
  <2>4. ASSUME NEW c \in Buckets, NEW j \in Keys, DeleteObject(x, c, j)
        PROVE  BodiesAreWhole'
    <3>1. \A b \in Buckets, k \in Keys :
            objects'[b][k] = objects[b][k] \/ objects'[b][k] = None
      <4>1. objects' = [objects EXCEPT ![c][j] = None] \/ UNCHANGED objects
        BY <2>4 DEF DeleteObject
      <4>2. objects \in [Buckets -> [Keys -> File]]
        BY DEF TypeInv, TypeOK
      <4> QED
        BY <4>1, <4>2
    <3>2. UNCHANGED stream
      BY <2>4 DEF DeleteObject, readVars
    <3> QED
      BY <3>1, <3>2 DEF BodiesAreWhole
  <2>5. CASE UNCHANGED <<objects, stream>>
    BY <2>5 DEF BodiesAreWhole
  <2>6. WriterStep(x) =>
          \/ UNCHANGED <<objects, stream>> \/ RenameBody(x)
          \/ \E b \in Buckets, k \in Keys : DeleteObject(x, b, k)
    BY DEF WriterStep, PutObject, CreateBodyTemp, WriteChunk, BodyError,
           UnlinkBodyTemp, CreateSidecarTemp, RenameSidecar, SidecarError,
           UnlinkSidecarTemp, DeleteSidecar, DeleteSidecarError, Drop,
           fileVars, readVars
  <2> QED
    BY <2>1, <2>2, <2>3, <2>4, <2>5, <2>6
<1>2. CASE UNCHANGED vars
  BY <1>2 DEF vars, fileVars, readVars, BodiesAreWhole
<1> QED
  BY <1>1, <1>2 DEF Next, Quiescent

(***************************************************************************)
(* LastWriterWins.  Inductively: a writer with no other writer of its key  *)
(* beside it owns the body from its rename (or unlink) on, and the sidecar *)
(* from its success on.                                                    *)
(***************************************************************************)
Alone(r, b, k) ==
  /\ r \in Writers(b, k)
  /\ \A w \in Writers(b, k) \ {r} : w \in before[r]

SidecarLabels == {"meta_temp", "meta_rename", "meta_unlink", "meta_delete"}

Owns(r, b, k) ==
  Alone(r, b, k) =>
    /\ pc[r] \in SidecarLabels \/ Succeeded(r) => objects[b][k] = Outcome(r)
    /\ Succeeded(r) => meta[b][k] = Outcome(r)

Ownership == \A b \in Buckets, k \in Keys : \A r \in Reqs : Owns(r, b, k)

(* No step of another request takes the body or sidecar from its owner: a  *)
(* writer of the same key would be one of the owner's predecessors, and    *)
(* those have ended.                                                       *)
LEMMA OwnerUndisturbed ==
  ASSUME TypeInv, Placed, PredecessorsEnded, NEW x \in Reqs, Footprint(x),
         NEW b \in Buckets, NEW k \in Keys, NEW r \in Reqs \ {x}, Owns(r, b, k)
  PROVE  Owns(r, b, k)'
<1> SUFFICES ASSUME Alone(r, b, k)'
             PROVE  /\ Alone(r, b, k)
                    /\ objects'[b][k] = objects[b][k] /\ meta'[b][k] = meta[b][k]
                    /\ pc'[r] = pc[r] /\ res'[r] = res[r] /\ req'[r] = req[r]
  BY DEF Owns, Succeeded, Outcome, Full
<1>1. pc'[r] = pc[r] /\ res'[r] = res[r] /\ req'[r] = req[r] /\ before'[r] = before[r]
  BY DEF Footprint, OthersAlone
<1>2. x \notin before[r]
  BY DEF Footprint, PredecessorsEnded, Ended
<1>3. x \notin Writers(b, k)'
  BY <1>1, <1>2 DEF Alone
<1>4. objects'[b][k] = objects[b][k] /\ meta'[b][k] = meta[b][k]
  BY <1>3 DEF Writers, Footprint, OtherKeysAlone, WriterOps, Bkt, Key
<1>5. ASSUME NEW w \in Writers(b, k)
      PROVE  w \in Writers(b, k)'
  <2>1. CASE w # x
    BY <2>1 DEF Writers, Footprint, OthersAlone, Bkt, Key
  <2>2. CASE w = x
    <3>1. pc[x] # "idle"
      BY <2>2 DEF Writers, Placed, NoRequest
    <3> QED
      BY <2>2, <3>1 DEF Writers, Footprint, Bkt, Key
  <2> QED
    BY <2>1, <2>2
<1>6. Alone(r, b, k)
  <2>1. r \in Writers(b, k)
    BY <1>1 DEF Alone, Writers, Bkt, Key
  <2>2. ASSUME NEW w \in Writers(b, k) \ {r}
        PROVE  w \in before[r]
    BY <1>1, <1>5 DEF Alone
  <2> QED
    BY <2>1, <2>2 DEF Alone
<1> QED
  BY <1>1, <1>4, <1>6

(* The owner's own steps: the rename puts its body there, the second       *)
(* rename its sidecar.                                                     *)
LEMMA OwnerStep ==
  ASSUME TypeInv, Placed, NEW x \in Reqs, WriterStep(x),
         NEW b \in Buckets, NEW k \in Keys, Owns(x, b, k)
  PROVE  Owns(x, b, k)'
<1> USE DEF TypeInv, TypeOK, Accept, Goto, Return, Bkt, Key,
            fileVars, callVars, ctlVars, SidecarLabels, Succeeded
<1>1. ASSUME NEW c \in Buckets, NEW j \in Keys, PutObject(x, c, j)
      PROVE  Owns(x, b, k)'
  BY <1>1 DEF PutObject, Owns
<1>2. ASSUME NEW c \in Buckets, NEW j \in Keys, DeleteObject(x, c, j)
      PROVE  Owns(x, b, k)'
  BY <1>2 DEF DeleteObject, Owns, Alone, Writers, Outcome
<1>3. CASE CreateBodyTemp(x)
  BY <1>3 DEF CreateBodyTemp, Owns, Alone, Writers, Outcome, Full
<1>4. CASE WriteChunk(x)
  BY <1>4 DEF WriteChunk, Owns, Alone, Writers, Outcome, Full
<1>5. CASE BodyError(x)
  BY <1>5 DEF BodyError, Owns, Alone, Writers, Outcome, Full
<1>6. CASE UnlinkBodyTemp(x)
  BY <1>6 DEF UnlinkBodyTemp, Owns, Alone, Writers, Outcome, Full
<1>7. CASE RenameBody(x)
  <2>1. pc[x] = "stream" /\ pc'[x] = "meta_temp" /\ UNCHANGED req
    BY <1>7 DEF RenameBody
  <2>2. req[x].op = "put"
    BY <2>1 DEF Placed, PutLabels
  <2>3. otmp[x] = Full(x)
    BY <1>7 DEF RenameBody, TempsHeld, Content, Full
  <2>4. x \in Writers(b, k) => objects'[b][k] = Full(x)
    <3>1. objects' = [objects EXCEPT ![req[x].bkt][req[x].key] = otmp[x]]
      BY <1>7 DEF RenameBody
    <3> QED
      BY <2>3, <3>1 DEF Writers
  <2>5. x \in Writers(b, k)' => x \in Writers(b, k)
    BY <2>1 DEF Writers
  <2>6. Outcome(x)' = Full(x)
    BY <2>1, <2>2 DEF Outcome, Full
  <2> QED
    BY <2>1, <2>4, <2>5, <2>6 DEF Owns, Alone
<1>8. CASE CreateSidecarTemp(x)
  BY <1>8 DEF CreateSidecarTemp, Owns, Alone, Writers, Outcome, Full
<1>9. CASE RenameSidecar(x)
  <2>1. pc[x] = "meta_rename" /\ UNCHANGED <<req, before, objects>>
    BY <1>9 DEF RenameSidecar
  <2>2. req[x].op = "put"
    BY <2>1 DEF Placed, PutLabels
  <2>3. mtmp[x] = Full(x)
    BY <2>1 DEF TempsHeld
  <2>4. x \in Writers(b, k) => meta'[b][k] = Full(x)
    <3>1. meta' = [meta EXCEPT ![req[x].bkt][req[x].key] = mtmp[x]]
      BY <1>9 DEF RenameSidecar
    <3> QED
      BY <2>3, <3>1 DEF Writers
  <2>5. Alone(x, b, k)' => Alone(x, b, k)
    BY <2>1 DEF Alone, Writers
  <2>6. Outcome(x)' = Full(x) /\ Outcome(x) = Full(x)
    BY <2>1, <2>2 DEF Outcome, Full
  <2> QED
    BY <2>1, <2>4, <2>5, <2>6 DEF Owns, Alone
<1>10. CASE SidecarError(x)
  BY <1>10 DEF SidecarError, Owns, Alone, Writers, Outcome, Full
<1>11. CASE UnlinkSidecarTemp(x)
  BY <1>11 DEF UnlinkSidecarTemp, Owns, Alone, Writers, Outcome, Full
<1>12. CASE DeleteSidecar(x)
  <2>1. pc[x] = "meta_delete" /\ UNCHANGED <<req, before, objects>>
    BY <1>12 DEF DeleteSidecar
  <2>2. req[x].op = "delete"
    BY <2>1 DEF Placed
  <2>3. x \in Writers(b, k) => meta'[b][k] = None
    <3>1. meta' = [meta EXCEPT ![req[x].bkt][req[x].key] = None]
      BY <1>12 DEF DeleteSidecar
    <3> QED
      BY <3>1 DEF Writers
  <2>4. Alone(x, b, k)' => Alone(x, b, k)
    BY <2>1 DEF Alone, Writers
  <2>5. Outcome(x)' = None /\ Outcome(x) = None
    BY <2>1, <2>2 DEF Outcome
  <2> QED
    BY <2>1, <2>3, <2>4, <2>5 DEF Owns, Alone
<1>13. CASE DeleteSidecarError(x)
  BY <1>13 DEF DeleteSidecarError, Owns, Alone, Writers, Outcome, Full
<1>14. CASE Drop(x)
  BY <1>14 DEF Drop, Owns, Alone, Writers, Outcome, Full
<1> QED
  BY <1>1, <1>2, <1>3, <1>4, <1>5, <1>6, <1>7, <1>8, <1>9, <1>10, <1>11,
     <1>12, <1>13, <1>14 DEF WriterStep

(***************************************************************************)
(* The inductive invariant and the theorems.                               *)
(***************************************************************************)
WriterInv ==
  TypeInv /\ Placed /\ PredecessorsEnded /\ BodiesAreWhole /\ Ownership

LEMMA WriterInit == Init => WriterInv
<1> SUFFICES ASSUME Init PROVE WriterInv
  OBVIOUS
<1>1. TypeInv
  BY TypeInit
<1>2. Placed /\ PredecessorsEnded
  BY DEF Init, Placed, PredecessorsEnded, NoRequest, PutLabels, WriterOps
<1>3. BodiesAreWhole
  BY DEF Init, BodiesAreWhole, Full
<1>4. Ownership
  BY DEF Init, Ownership, Owns, Alone, Writers, NoRequest, WriterOps
<1> QED
  BY <1>1, <1>2, <1>3, <1>4 DEF WriterInv

LEMMA WriterStepInv == WriterInv /\ [Next]_vars => WriterInv'
<1> SUFFICES ASSUME TypeInv, Placed, PredecessorsEnded, BodiesAreWhole, Ownership,
                    [Next]_vars
             PROVE  Ownership'
  BY TypeStep, PlacedStep, WholeStep DEF WriterInv
<1>1. ASSUME NEW x \in Reqs, Issue(x) \/ Advance(x) \/ Fault(x),
             NEW b \in Buckets, NEW k \in Keys, NEW r \in Reqs
      PROVE  Owns(r, b, k)'
  <2>1. Footprint(x) /\ (WriterStep(x) \/ OtherStep(x))
    BY <1>1, StepFootprint
  <2>2. Owns(r, b, k)
    BY DEF Ownership
  <2>3. CASE r # x
    BY <2>1, <2>2, <2>3, OwnerUndisturbed
  <2>4. CASE r = x /\ WriterStep(x)
    BY <2>2, <2>4, OwnerStep
  <2>5. CASE r = x /\ OtherStep(x)
    BY <2>5 DEF OtherStep, WriterOps, Owns, Alone, Writers
  <2> QED
    BY <2>1, <2>3, <2>4, <2>5
<1>2. CASE UNCHANGED vars
  BY <1>2 DEF vars, fileVars, callVars, ctlVars, Ownership, Owns, Alone, Writers,
              Succeeded, Outcome, Full, Bkt, Key
<1> QED
  BY <1>1, <1>2 DEF Next, Quiescent, Ownership

LEMMA WriterInvariant == Spec => []WriterInv
BY WriterInit, WriterStepInv, PTL DEF Spec

(* No reader ever sees part of an upload: every stored or streamed body is *)
(* the whole stream of one put, for any number of racing requests, faults  *)
(* and drops.                                                              *)
THEOREM BodiesAreAlwaysWhole == Spec => []BodiesAreWhole
<1>1. WriterInv => BodiesAreWhole
  BY DEF WriterInv
<1> QED
  BY <1>1, WriterInvariant, PTL

(* A request that returns, on any path, has removed its temporary files.   *)
THEOREM NoTempIsLeaked == Spec => []NoTempLeak
<1>1. WriterInv => NoTempLeak
  BY DEF WriterInv, Placed, NoTempLeak
<1> QED
  BY <1>1, WriterInvariant, PTL

(* An acknowledged put or delete that no other writer of its key overlaps  *)
(* decides body and sidecar, whatever was torn before it and whatever      *)
(* happens to other keys and to the bucket.                                *)
THEOREM LastWriterAlwaysWins == Spec => []LastWriterWins
<1>1. WriterInv => LastWriterWins
  <2> SUFFICES ASSUME Ownership, NEW b \in Buckets, NEW k \in Keys,
                      NEW r \in Writers(b, k), Succeeded(r),
                      \A w \in Writers(b, k) \ {r} : w \in before[r]
               PROVE  objects[b][k] = Outcome(r) /\ meta[b][k] = Outcome(r)
    BY DEF WriterInv, LastWriterWins
  <2>1. Alone(r, b, k) /\ r \in Reqs
    BY DEF Alone, Writers
  <2> QED
    BY <2>1 DEF Ownership, Owns
<1> QED
  BY <1>1, WriterInvariant, PTL

-----------------------------------------------------------------------------
(***************************************************************************)
(* Readers.  A label belongs to one operation, so that the steps of a      *)
(* request are those of its operation only.                                *)
(***************************************************************************)
ListLabels   == {"readdir", "list_meta"}
CreateLabels == {"mk_objects", "mk_meta", "open_json", "write_json"}
RemoveLabels == {"check_empty", "rm_objects", "recheck_objects",
                 "rm_meta", "recheck_meta", "rm_json", "rm_bucket"}

RunsOp(r) ==
  /\ pc[r] = "open" => req[r].op = "get"
  /\ pc[r] \in ListLabels => req[r].op = "list"
  /\ pc[r] = "read_json" => req[r].op = "list_buckets"
  /\ pc[r] \in CreateLabels => req[r].op = "create_bucket"
  /\ pc[r] \in RemoveLabels => req[r].op = "delete_bucket"

ReadStep(x) ==
  \/ \E b \in Buckets, k \in Keys : GetObject(x, b, k) \/ HeadObject(x, b, k)
  \/ OpenBody(x)

ListStep(x) ==
  \/ \E b \in Buckets : ListObjects(x, b)
  \/ ReadObjectsDir(x) \/ ListEntry(x) \/ ListDone(x)

TableStep(x) == ListBuckets(x) \/ ReadBucketJson(x) \/ ListBucketsDone(x)

CreateStep(x) ==
  \/ \E b \in Buckets : CreateBucket(x, b)
  \/ MakeObjectsDir(x) \/ MakeMetaDir(x) \/ OpenBucketJson(x) \/ WriteBucketJson(x)

RemoveStep(x) ==
  \/ \E b \in Buckets : DeleteBucket(x, b)
  \/ CheckEmpty(x) \/ RemoveObjectsDir(x) \/ RecheckObjects(x)
  \/ RemoveMetaDir(x) \/ RecheckMeta(x) \/ RemoveBucketJson(x) \/ RemoveBucketDir(x)

LEMMA StepKinds ==
  ASSUME NEW x \in Reqs, Issue(x) \/ Advance(x) \/ Fault(x)
  PROVE  WriterStep(x) \/ ReadStep(x) \/ ListStep(x) \/ TableStep(x) \/ CreateStep(x) \/ RemoveStep(x)
BY DEF Issue, Advance, Fault, WriterStep, ReadStep, ListStep, TableStep, CreateStep, RemoveStep

LEMMA RunsOpStep ==
  ASSUME TypeInv, Placed, NEW x \in Reqs, RunsOp(x), Issue(x) \/ Advance(x) \/ Fault(x)
  PROVE  RunsOp(x)'
<1> USE DEF RunsOp, ListLabels, CreateLabels, RemoveLabels, TypeInv, TypeOK,
            Accept, Goto, Return, callVars, ctlVars
<1>1. CASE ReadStep(x)
  BY <1>1 DEF ReadStep, GetObject, HeadObject, OpenBody
<1>2. CASE ListStep(x)
  BY <1>2 DEF ListStep, ListObjects, ReadObjectsDir, ListEntry, ListDone
<1>3. CASE TableStep(x)
  BY <1>3 DEF TableStep, ListBuckets, ReadBucketJson, ListBucketsDone
<1>4. CASE CreateStep(x)
  BY <1>4 DEF CreateStep, CreateBucket, MakeObjectsDir, MakeMetaDir, OpenBucketJson, WriteBucketJson
<1>5. CASE RemoveStep(x)
  BY <1>5 DEF RemoveStep, DeleteBucket, CheckEmpty, RemoveObjectsDir, RecheckObjects,
              RemoveMetaDir, RecheckMeta, RemoveBucketJson, RemoveBucketDir
<1>6. CASE WriterStep(x)
  BY <1>6 DEF WriterStep, PutObject, DeleteObject, CreateBodyTemp, WriteChunk, BodyError,
              UnlinkBodyTemp, RenameBody, CreateSidecarTemp, RenameSidecar, SidecarError,
              UnlinkSidecarTemp, DeleteSidecar, DeleteSidecarError, Drop
<1> QED
  BY <1>1, <1>2, <1>3, <1>4, <1>5, <1>6, StepKinds

(***************************************************************************)
(* What a get or head that no writer overlaps has seen so far of the last  *)
(* writer r of its key before it.                                          *)
(***************************************************************************)
Reads(g) == req[g].op \in {"get", "head"}

Undisturbed(g) == \A w \in Writers(Bkt(g), Key(g)) : Ordered(w, g)

Latest(r, g) ==
  LET W == Writers(Bkt(g), Key(g)) \cap before[g]
  IN  r \in W /\ Succeeded(r) /\ \A w \in W \ {r} : w \in before[r]

SawSidecar(g, r) == req[r].op # "delete" /\ req[g].op = "get" /\ sidecar[g] = Full(r)

SawWriter(g, r) ==
  IF req[r].op = "delete" THEN res[g] = "NoSuchKey"
  ELSE /\ res[g] = "Ok"
       /\ sidecar[g] = Full(r)
       /\ req[g].op = "get" => stream[g] = Full(r)

ReaderInv(g) ==
  Reads(g) /\ Undisturbed(g) =>
    \A r \in Reqs : Latest(r, g) =>
      /\ pc[g] = "open" => SawSidecar(g, r)
      /\ pc[g] = "done" => SawWriter(g, r)

(* A request that is under way comes before nothing, so the writers that   *)
(* do not overlap it have all ended.                                       *)
LEMMA ActiveAfterWriters ==
  ASSUME Placed, PredecessorsEnded, NEW g \in Reqs, Reads(g), Undisturbed(g), pc[g] # "done", pc[g] # "dropped"
  PROVE  \A w \in Writers(Bkt(g), Key(g)) : w \in before[g]
BY DEF Undisturbed, Ordered, PredecessorsEnded, Ended, Writers

(* What is stored under the key of such a reader is what the last writer   *)
(* left.                                                                   *)
LEMMA LatestIsStored ==
  ASSUME TypeInv, Placed, PredecessorsEnded, Ownership,
         NEW g \in Reqs, Reads(g), Undisturbed(g), pc[g] # "done", pc[g] # "dropped",
         Bkt(g) \in Buckets, Key(g) \in Keys, NEW r \in Reqs, Latest(r, g)
  PROVE  objects[Bkt(g)][Key(g)] = Outcome(r) /\ meta[Bkt(g)][Key(g)] = Outcome(r)
<1>1. Alone(r, Bkt(g), Key(g))
  BY ActiveAfterWriters DEF Latest, Alone
<1>2. Succeeded(r)
  BY DEF Latest
<1> QED
  BY <1>1, <1>2 DEF Ownership, Owns

(***************************************************************************)
(* Requests join the writers of a key and never leave them.                *)
(***************************************************************************)
LEMMA WritersGrow ==
  ASSUME Placed, NEW x \in Reqs, Footprint(x), NEW b, NEW k
  PROVE  /\ Writers(b, k) \subseteq Writers(b, k)'
         /\ Writers(b, k)' \subseteq Writers(b, k) \cup {x}
<1>1. ASSUME NEW w \in Reqs \ {x}
      PROVE  w \in Writers(b, k) <=> w \in Writers(b, k)'
  BY DEF Footprint, OthersAlone, Writers, Bkt, Key
<1>2. x \in Writers(b, k) => x \in Writers(b, k)'
  BY DEF Footprint, Placed, NoRequest, WriterOps, Writers, Bkt, Key
<1>3. Writers(b, k) \subseteq Reqs /\ Writers(b, k)' \subseteq Reqs
  BY DEF Writers
<1> QED
  BY <1>1, <1>2, <1>3

LEMMA WritersSame ==
  ASSUME Placed, NEW x \in Reqs, Footprint(x), NEW b, NEW k, x \notin Writers(b, k)'
  PROVE  Writers(b, k)' = Writers(b, k)
<1>1. Writers(b, k) \subseteq Writers(b, k)' /\ Writers(b, k)' \subseteq Writers(b, k) \cup {x}
  BY WritersGrow
<1> QED
  BY <1>1

(* A step of another request changes nothing about a reader: not the       *)
(* writers it overlaps, nor which was the last before it.                  *)
LEMMA ReaderUndisturbed ==
  ASSUME TypeInv, Placed, PredecessorsEnded, NEW x \in Reqs, Footprint(x),
         NEW g \in Reqs \ {x}, ReaderInv(g)
  PROVE  ReaderInv(g)'
<1>1. /\ pc'[g] = pc[g] /\ res'[g] = res[g] /\ req'[g] = req[g] /\ before'[g] = before[g]
      /\ sidecar'[g] = sidecar[g] /\ stream'[g] = stream[g]
  BY DEF Footprint, OthersAlone
<1>2. /\ Bkt(g)' = Bkt(g) /\ Key(g)' = Key(g) /\ (Reads(g)' => Reads(g))
  BY <1>1 DEF Bkt, Key, Reads
<1>3. x \notin before[g]
  BY DEF Footprint, PredecessorsEnded, Ended
<1>4. Undisturbed(g)' => Undisturbed(g)
  <2> SUFFICES ASSUME Undisturbed(g)', NEW w \in Writers(Bkt(g), Key(g)), ~Ordered(w, g)
               PROVE  FALSE
    BY DEF Undisturbed
  <2>1. w \in Writers(Bkt(g), Key(g))'
    BY <1>2, WritersGrow
  <2>2. w \in before'[g] \/ g \in before'[w]
    BY <1>2, <2>1 DEF Undisturbed, Ordered
  <2>3. w = x => pc[x] # "idle"
    BY DEF Writers, Placed, NoRequest, WriterOps
  <2> QED
    BY <1>1, <2>2, <2>3 DEF Ordered, Footprint, OthersAlone, Writers
<1>5. ASSUME NEW r \in Reqs, Latest(r, g)'
      PROVE  Latest(r, g) /\ r # x
  <2>1. (Writers(Bkt(g), Key(g)) \cap before[g])' = Writers(Bkt(g), Key(g)) \cap before[g]
    BY <1>1, <1>2, <1>3, WritersGrow
  <2>2. r # x
    BY <1>1, <1>3, <1>5 DEF Latest
  <2> QED
    BY <1>5, <2>1, <2>2 DEF Latest, Succeeded, Footprint, OthersAlone
<1>6. ASSUME NEW r \in Reqs, r # x
      PROVE  req'[r] = req[r]
  BY <1>6 DEF Footprint, OthersAlone
<1> QED
  BY <1>1, <1>2, <1>4, <1>5, <1>6 DEF ReaderInv, SawSidecar, SawWriter, Full

(* The reader's own steps.                                                 *)
LEMMA ReaderStep ==
  ASSUME TypeInv, Placed, PredecessorsEnded, Ownership, NEW g \in Reqs, RunsOp(g), ReaderInv(g),
         Footprint(g), Issue(g) \/ Advance(g) \/ Fault(g)
  PROVE  ReaderInv(g)'
<1> SUFFICES ASSUME Reads(g)', Undisturbed(g)', NEW r \in Reqs, Latest(r, g)',
                    pc'[g] \in {"open", "done"}
             PROVE  /\ pc'[g] = "open" => SawSidecar(g, r)'
                    /\ pc'[g] = "done" => SawWriter(g, r)'
  BY DEF ReaderInv
<1> USE DEF TypeInv, TypeOK, Accept, Goto, Return, Bkt, Key, callVars, ctlVars, fileVars
<1>1. r # g /\ req'[r] = req[r] /\ pc'[r] = pc[r] /\ res'[r] = res[r] /\ before'[r] = before[r]
  BY DEF Latest, Writers, Reads, WriterOps, Footprint, OthersAlone
<1>2. Outcome(r)' = Outcome(r) /\ Outcome(r) = IF req[r].op = "delete" THEN None ELSE Full(r)
  BY <1>1 DEF Outcome, Full
<1>3. Full(r) # None /\ Full(r)' = Full(r)
  BY FullContent DEF Full
<1>4. ASSUME NEW b \in Buckets, NEW k \in Keys, GetObject(g, b, k) \/ HeadObject(g, b, k)
      PROVE  meta[b][k] = Outcome(r)
  <2>1. /\ pc[g] = "idle" /\ req'[g].bkt = b /\ req'[g].key = k
        /\ before'[g] = Ended
    BY <1>4 DEF GetObject, HeadObject
  <2>2. \A w \in Reqs : g \notin before[w]
    BY <2>1 DEF PredecessorsEnded, Ended
  <2>3. Writers(b, k)' = Writers(b, k)
    <3>1. g \notin Writers(b, k)'
      BY DEF Writers, Reads, WriterOps
    <3> QED
      BY <3>1, WritersSame
  <2>4. ASSUME NEW w \in Writers(b, k) PROVE w \in Ended
    <3>1. w \in Writers(b, k)' /\ w # g /\ w \in Reqs
      BY <2>1, <2>3, <2>4 DEF Writers, Placed, NoRequest, WriterOps
    <3>2. w \in before'[g] \/ g \in before'[w]
      BY <2>1, <3>1 DEF Undisturbed, Ordered
    <3> QED
      BY <2>1, <2>2, <3>1, <3>2 DEF Footprint, OthersAlone, Writers
  <2>5. Alone(r, b, k) /\ Succeeded(r)
    <3>2. \A w \in Writers(b, k) : w \in before'[g]
      BY <2>1, <2>4
    <3> QED
      BY <1>1, <2>1, <2>3, <3>2 DEF Latest, Alone, Succeeded
  <2> QED
    BY <2>5 DEF Ownership, Owns
<1>5. ASSUME NEW b \in Buckets, NEW k \in Keys, GetObject(g, b, k)
      PROVE  /\ pc'[g] = "open" => SawSidecar(g, r)'
             /\ pc'[g] = "done" => SawWriter(g, r)'
  <2>1. meta[b][k] = Outcome(r)
    BY <1>4, <1>5
  <2>2. req'[g].op = "get"
    BY <1>5 DEF GetObject
  <2>3. CASE meta[b][k] = None
    BY <1>1, <1>2, <1>3, <1>5, <2>1, <2>3 DEF GetObject, SawWriter
  <2>4. CASE meta[b][k] # None
    BY <1>1, <1>2, <1>3, <1>5, <2>1, <2>2, <2>4 DEF GetObject, SawSidecar
  <2> QED
    BY <2>3, <2>4
<1>6. ASSUME NEW b \in Buckets, NEW k \in Keys, HeadObject(g, b, k)
      PROVE  /\ pc'[g] = "open" => SawSidecar(g, r)'
             /\ pc'[g] = "done" => SawWriter(g, r)'
  <2>1. meta[b][k] = Outcome(r)
    BY <1>4, <1>6
  <2>2. req'[g].op = "head" /\ pc'[g] = "done"
    BY <1>6 DEF HeadObject
  <2>3. CASE meta[b][k] = None
    BY <1>1, <1>2, <1>3, <1>6, <2>1, <2>2, <2>3 DEF HeadObject, SawWriter
  <2>4. CASE meta[b][k] # None
    BY <1>1, <1>2, <1>3, <1>6, <2>1, <2>2, <2>4 DEF HeadObject, SawWriter
  <2> QED
    BY <2>2, <2>3, <2>4
<1>7. CASE OpenBody(g)
  <2>1. pc[g] = "open" /\ pc'[g] = "done" /\ UNCHANGED <<req, before, objects, meta, sidecar>>
    BY <1>7 DEF OpenBody
  <2>2. Reads(g) /\ Undisturbed(g) /\ Latest(r, g)
    BY <1>1, <2>1 DEF Reads, Undisturbed, Latest, Writers, Ordered, Succeeded
  <2>3. Bkt(g) \in Buckets /\ Key(g) \in Keys
    BY <2>1 DEF Located, ObjectLabels
  <2>4. objects[Bkt(g)][Key(g)] = Outcome(r)
    BY <2>1, <2>2, <2>3, LatestIsStored
  <2>5. SawSidecar(g, r)
    BY <2>1, <2>2 DEF ReaderInv
  <2>6. objects[Bkt(g)][Key(g)] = Full(r)
    BY <1>2, <2>4, <2>5 DEF SawSidecar
  <2>7. stream'[g] = Full(r) /\ res'[g] = "Ok"
    BY <1>3, <1>7, <2>6 DEF OpenBody
  <2> QED
    BY <1>1, <1>3, <2>1, <2>5, <2>7 DEF SawSidecar, SawWriter
<1>8. ReadStep(g)
  <2>1. pc'[g] # "dropped"
    OBVIOUS
  <2>2. ~WriterStep(g)
    BY DEF WriterStep, Placed, PutLabels, Reads, PutObject, DeleteObject, CreateBodyTemp,
           WriteChunk, BodyError, UnlinkBodyTemp, RenameBody, CreateSidecarTemp, RenameSidecar,
           SidecarError, UnlinkSidecarTemp, DeleteSidecar, DeleteSidecarError, Drop
  <2>3. ~ListStep(g) /\ ~TableStep(g)
    BY DEF RunsOp, ListLabels, Reads, ListStep, ListObjects, ReadObjectsDir, ListEntry, ListDone,
           TableStep, ListBuckets, ReadBucketJson, ListBucketsDone
  <2>4. ~CreateStep(g)
    BY DEF RunsOp, CreateLabels, Reads, CreateStep, CreateBucket, MakeObjectsDir, MakeMetaDir,
           OpenBucketJson, WriteBucketJson
  <2>5. ~RemoveStep(g)
    BY DEF RunsOp, RemoveLabels, Reads, RemoveStep, DeleteBucket, CheckEmpty, RemoveObjectsDir,
           RecheckObjects, RemoveMetaDir, RecheckMeta, RemoveBucketJson, RemoveBucketDir
  <2> QED
    BY <2>2, <2>3, <2>4, <2>5, StepKinds
<1> QED
  BY <1>5, <1>6, <1>7, <1>8 DEF ReadStep

-----------------------------------------------------------------------------
(***************************************************************************)
(* Bucket operations.  The directories of a bucket are changed by its      *)
(* create_bucket and delete_bucket requests only.                          *)
(***************************************************************************)
SameBucket(b) ==
  /\ b \in bdir' <=> b \in bdir
  /\ b \in odir' <=> b \in odir
  /\ b \in mdir' <=> b \in mdir
  /\ bjson'[b] = bjson[b]

LEMMA BucketFootprint ==
  ASSUME TypeInv, Placed, NEW x \in Reqs, RunsOp(x), Issue(x) \/ Advance(x) \/ Fault(x), NEW b \in Buckets
  PROVE  SameBucket(b) \/ x \in BucketOps(b)'
<1> USE DEF SameBucket, BucketOps, TypeInv, TypeOK, Accept, Goto, Return, Bkt,
            dirVars, callVars
<1>1. CASE CreateStep(x)
  BY <1>1 DEF RunsOp, CreateLabels, CreateStep, CreateBucket, MakeObjectsDir, MakeMetaDir,
              OpenBucketJson, WriteBucketJson
<1>2. CASE RemoveStep(x)
  BY <1>2 DEF RunsOp, RemoveLabels, RemoveStep, DeleteBucket, CheckEmpty, RemoveObjectsDir,
              RecheckObjects, RemoveMetaDir, RecheckMeta, RemoveBucketJson, RemoveBucketDir
<1>3. CASE ReadStep(x)
  BY <1>3 DEF ReadStep, GetObject, HeadObject, OpenBody
<1>4. CASE ListStep(x)
  BY <1>4 DEF ListStep, ListObjects, ReadObjectsDir, ListEntry, ListDone
<1>5. CASE TableStep(x)
  BY <1>5 DEF TableStep, ListBuckets, ReadBucketJson, ListBucketsDone
<1>6. CASE WriterStep(x)
  BY <1>6 DEF WriterStep, PutObject, DeleteObject, CreateBodyTemp, WriteChunk, BodyError,
              UnlinkBodyTemp, RenameBody, CreateSidecarTemp, RenameSidecar, SidecarError,
              UnlinkSidecarTemp, DeleteSidecar, DeleteSidecarError, Drop
<1> QED
  BY <1>1, <1>2, <1>3, <1>4, <1>5, <1>6, StepKinds

(***************************************************************************)
(* A bucket operation that no other one overlaps finds, at each of its     *)
(* steps, what its earlier steps made.                                     *)
(***************************************************************************)
AloneOnBucket(r, b) ==
  /\ r \in BucketOps(b)
  /\ \A x \in BucketOps(b) \ {r} : x \in before[r]

Made(r, b) ==
  /\ pc[r] = "mk_meta" => b \in odir
  /\ pc[r] = "open_json" => b \in bdir \cap odir \cap mdir
  /\ pc[r] = "write_json" => /\ b \in bdir \cap odir \cap mdir
                             /\ bjson[b] \in Json
                             /\ bjson[b].ino = fd[r]
  /\ Succeeded(r) => Whole(b)

HasBucket(r, b) ==
  AloneOnBucket(r, b) =>
    IF req[r].op = "create_bucket" THEN Made(r, b)
    ELSE Succeeded(r) => b \notin bdir

LEMMA BucketUndisturbed ==
  ASSUME TypeInv, Placed, PredecessorsEnded, NEW x \in Reqs, Footprint(x), RunsOp(x),
         Issue(x) \/ Advance(x) \/ Fault(x),
         NEW b \in Buckets, NEW r \in Reqs \ {x}, HasBucket(r, b)
  PROVE  HasBucket(r, b)'
<1> SUFFICES ASSUME AloneOnBucket(r, b)'
             PROVE  /\ AloneOnBucket(r, b) /\ SameBucket(b)
                    /\ pc'[r] = pc[r] /\ res'[r] = res[r] /\ req'[r] = req[r] /\ fd'[r] = fd[r]
  BY DEF HasBucket, Made, Succeeded, SameBucket, Whole
<1>1. /\ pc'[r] = pc[r] /\ res'[r] = res[r] /\ req'[r] = req[r] /\ fd'[r] = fd[r]
      /\ before'[r] = before[r]
  BY DEF Footprint, OthersAlone
<1>2. x \notin before[r]
  BY DEF Footprint, PredecessorsEnded, Ended
<1>3. x \notin BucketOps(b)'
  BY <1>1, <1>2 DEF AloneOnBucket
<1>4. SameBucket(b)
  BY <1>3, BucketFootprint
<1>5. \A w \in Reqs \ {x} : w \in BucketOps(b) <=> w \in BucketOps(b)'
  BY DEF Footprint, OthersAlone, BucketOps, Bkt
<1>6. x \in BucketOps(b) => x \in BucketOps(b)'
  BY DEF Footprint, Placed, NoRequest, BucketOps, Bkt
<1>7. AloneOnBucket(r, b)
  <2>1. BucketOps(b) \subseteq Reqs
    BY DEF BucketOps
  <2> QED
    BY <1>1, <1>3, <1>5, <1>6, <2>1 DEF AloneOnBucket
<1> QED
  BY <1>1, <1>4, <1>7

LEMMA BucketStep ==
  ASSUME TypeInv, Placed, NEW x \in Reqs, RunsOp(x), Issue(x) \/ Advance(x) \/ Fault(x),
         NEW b \in Buckets, HasBucket(x, b)
  PROVE  HasBucket(x, b)'
<1> SUFFICES ASSUME AloneOnBucket(x, b)'
             PROVE  IF req'[x].op = "create_bucket" THEN Made(x, b)'
                    ELSE Succeeded(x)' => b \notin bdir'
  BY DEF HasBucket
<1> USE DEF TypeInv, TypeOK, Accept, Goto, Return, Bkt, dirVars, callVars, ctlVars
<1>1. req'[x].bkt = b /\ req'[x].op \in {"create_bucket", "delete_bucket"}
  BY DEF AloneOnBucket, BucketOps
<1>2. pc[x] # "idle" =>
        /\ AloneOnBucket(x, b)
        /\ req[x].op = "create_bucket" => Made(x, b)
        /\ req'[x] = req[x]
  <2>1. pc[x] # "idle" => req'[x] = req[x] /\ before'[x] = before[x]
    BY StepFootprint DEF Footprint
  <2>2. \A w \in Reqs \ {x} : w \in BucketOps(b) <=> w \in BucketOps(b)'
    BY StepFootprint DEF Footprint, OthersAlone, BucketOps
  <2>3. BucketOps(b) \subseteq Reqs /\ BucketOps(b)' \subseteq Reqs
    BY DEF BucketOps
  <2>4. pc[x] # "idle" => AloneOnBucket(x, b)
    BY <2>1, <2>2, <2>3 DEF AloneOnBucket, BucketOps
  <2> QED
    BY <2>1, <2>4 DEF HasBucket
<1>3. CASE CreateStep(x)
  <2> USE DEF Made, Succeeded, Whole
  <2>1. ASSUME NEW c \in Buckets, CreateBucket(x, c)
        PROVE  req'[x].op = "create_bucket" /\ Made(x, b)'
    BY <2>1 DEF CreateBucket
  <2>2. CASE MakeObjectsDir(x)
    BY <1>1, <1>2, <2>2 DEF MakeObjectsDir, RunsOp, CreateLabels
  <2>3. CASE MakeMetaDir(x)
    BY <1>1, <1>2, <2>3 DEF MakeMetaDir, RunsOp, CreateLabels
  <2>4. CASE OpenBucketJson(x)
    <3>1. pc[x] = "open_json" /\ req[x].op = "create_bucket" /\ req[x].bkt = b
      BY <1>1, <1>2, <2>4 DEF OpenBucketJson, RunsOp, CreateLabels
    <3>2. bjson[b] # None => bjson[b].ino \in Inode
      BY DEF Json
    <3>3. x \in Inode
      BY DEF Inode
    <3>4. Made(x, b) /\ b \in bdir \cap odir \cap mdir
      BY <1>2, <3>1, ConstantsAssumption
    <3> DEFINE ino == IF bjson[b] = None THEN x ELSE bjson[b].ino
    <3>5. /\ bjson' = [bjson EXCEPT ![b] = [ino |-> ino, ok |-> FALSE]]
          /\ fd' = [fd EXCEPT ![x] = ino]
          /\ pc' = [pc EXCEPT ![x] = "write_json"]
          /\ UNCHANGED <<bdir, odir, mdir, req>>
      BY <2>4, <3>1, <3>4 DEF OpenBucketJson
    <3>6. bjson'[b] \in Json /\ bjson'[b].ino = fd'[x]
      BY <3>2, <3>3, <3>5 DEF Json
    <3>7. Made(x, b)' /\ req'[x].op = "create_bucket"
      BY <3>1, <3>4, <3>5, <3>6
    <3> QED
      BY ONLY <3>7
  <2>5. CASE WriteBucketJson(x)
    <3>1. pc[x] = "write_json" /\ req[x].op = "create_bucket" /\ req[x].bkt = b
      BY <1>1, <1>2, <2>5 DEF WriteBucketJson, RunsOp, CreateLabels
    <3>2. Made(x, b) /\ bjson[b] # None
      BY <1>2, <3>1, ConstantsAssumption
    <3>3. bjson' = [bjson EXCEPT ![b] = [bjson[b] EXCEPT !.ok = TRUE]]
      BY <2>5, <3>1, <3>2 DEF WriteBucketJson
    <3>4. bjson'[b] # None /\ bjson'[b].ok
      BY <3>1, <3>2, <3>3, ConstantsAssumption DEF Json
    <3>5. pc'[x] = "done" /\ UNCHANGED <<bdir, odir, mdir, req>>
      BY <2>5 DEF WriteBucketJson
    <3>6. b \in bdir' \cap odir' \cap mdir'
      BY ONLY <3>1, <3>2, <3>5 DEF Made
    <3>7. Whole(b)'
      BY ONLY <3>4, <3>6 DEF Whole
    <3>8. Made(x, b)'
      BY ONLY <3>5, <3>7 DEF Made
    <3>9. req'[x].op = "create_bucket"
      BY ONLY <3>1, <3>5
    <3> QED
      BY ONLY <3>8, <3>9
  <2> QED
    BY <1>3, <2>1, <2>2, <2>3, <2>4, <2>5 DEF CreateStep
<1>4. CASE RemoveStep(x)
  <2>1. req'[x].op = "delete_bucket"
    BY <1>2, <1>4 DEF RemoveStep, RunsOp, RemoveLabels, DeleteBucket, CheckEmpty, RemoveObjectsDir,
       RecheckObjects, RemoveMetaDir, RecheckMeta, RemoveBucketJson, RemoveBucketDir
  <2>2. Succeeded(x)' => RemoveBucketDir(x)
    BY <1>4 DEF Succeeded, RemoveStep, DeleteBucket, CheckEmpty, RemoveObjectsDir,
       RecheckObjects, RemoveMetaDir, RecheckMeta, RemoveBucketJson
  <2>3. RemoveBucketDir(x) /\ Succeeded(x)' => b \notin bdir'
    BY <1>1, <1>2 DEF RemoveBucketDir, Succeeded
  <2> QED
    BY <2>1, <2>2, <2>3
<1>5. pc'[x] = "dropped" \/ CreateStep(x) \/ RemoveStep(x)
  <2> USE <1>1
  <2>1. WriterStep(x) => pc'[x] = "dropped"
    BY DEF WriterStep, Placed, PutLabels, PutObject, DeleteObject, CreateBodyTemp, WriteChunk,
           BodyError, UnlinkBodyTemp, RenameBody, CreateSidecarTemp, RenameSidecar,
           SidecarError, UnlinkSidecarTemp, DeleteSidecar, DeleteSidecarError, Drop
  <2>2. ~ReadStep(x) /\ ~ListStep(x) /\ ~TableStep(x)
    BY DEF RunsOp, ListLabels, ReadStep, GetObject, HeadObject, OpenBody,
           ListStep, ListObjects, ReadObjectsDir, ListEntry, ListDone,
           TableStep, ListBuckets, ReadBucketJson, ListBucketsDone
  <2> QED
    BY <2>1, <2>2, StepKinds
<1>6. CASE pc'[x] = "dropped"
  BY <1>6 DEF Made, Succeeded
<1> QED
  BY <1>3, <1>4, <1>5, <1>6

-----------------------------------------------------------------------------
(***************************************************************************)
(* The inductive invariant of readers and bucket operations, on top of the *)
(* writers'.                                                               *)
(***************************************************************************)
RequestInv ==
  /\ WriterInv
  /\ \A r \in Reqs : RunsOp(r)
  /\ \A r \in Reqs : ReaderInv(r)
  /\ \A r \in Reqs : \A b \in Buckets : HasBucket(r, b)

LEMMA RequestInit == Init => RequestInv
<1> SUFFICES ASSUME Init, NEW r \in Reqs
             PROVE  RunsOp(r) /\ ReaderInv(r) /\ \A b \in Buckets : HasBucket(r, b)
  BY WriterInit DEF RequestInv
<1>1. pc[r] = "idle" /\ req[r] = NoRequest
  BY DEF Init
<1> QED
  BY <1>1 DEF NoRequest, RunsOp, ListLabels, CreateLabels, RemoveLabels, ReaderInv, Reads,
              HasBucket, AloneOnBucket, BucketOps

LEMMA RequestStep == RequestInv /\ [Next]_vars => RequestInv'
<1> SUFFICES ASSUME RequestInv, [Next]_vars
             PROVE  RequestInv'
  OBVIOUS
<1> USE DEF RequestInv
<1>1. WriterInv'
  BY WriterStepInv
<1>2. ASSUME NEW x \in Reqs, Issue(x) \/ Advance(x) \/ Fault(x),
             NEW r \in Reqs
      PROVE  RunsOp(r)' /\ ReaderInv(r)' /\ \A b \in Buckets : HasBucket(r, b)'
  <2>1. TypeInv /\ Placed /\ PredecessorsEnded /\ Ownership
    BY DEF WriterInv
  <2>2. Footprint(x)
    BY <1>2, <2>1, StepFootprint
  <2>3. RunsOp(r)'
    <3>1. CASE r = x
      BY <1>2, <2>1, <3>1, RunsOpStep
    <3>2. CASE r # x
      BY <2>2, <3>2 DEF Footprint, OthersAlone, RunsOp
    <3> QED
      BY <3>1, <3>2
  <2>4. ReaderInv(r)'
    <3>1. CASE r = x
      BY <1>2, <2>1, <2>2, <3>1, ReaderStep
    <3>2. CASE r # x
      BY <2>1, <2>2, <3>2, ReaderUndisturbed
    <3> QED
      BY <3>1, <3>2
  <2>5. ASSUME NEW b \in Buckets
        PROVE  HasBucket(r, b)'
    <3>1. CASE r = x
      BY <1>2, <2>1, <3>1, BucketStep
    <3>2. CASE r # x
      BY <1>2, <2>1, <2>2, <3>2, BucketUndisturbed
    <3> QED
      BY <3>1, <3>2
  <2> QED
    BY <2>3, <2>4, <2>5
<1>3. CASE UNCHANGED vars
  <2> SUFFICES ASSUME NEW r \in Reqs
               PROVE  RunsOp(r)' /\ ReaderInv(r)' /\ \A b \in Buckets : HasBucket(r, b)'
    BY <1>1
  <2> USE <1>3 DEF vars, dirVars, callVars, ctlVars, readVars, Bkt, Key, Succeeded
  <2>1. RunsOp(r)'
    BY DEF RunsOp
  <2>2. ReaderInv(r)'
    BY DEF ReaderInv, Reads, Undisturbed, Ordered, Latest, Writers, SawSidecar, SawWriter, Full
  <2>3. \A b \in Buckets : HasBucket(r, b)'
    BY DEF HasBucket, AloneOnBucket, BucketOps, Made, Whole
  <2> QED
    BY <2>1, <2>2, <2>3
<1> QED
  BY <1>1, <1>2, <1>3 DEF Next, Quiescent

LEMMA RequestInvariant == Spec => []RequestInv
BY RequestInit, RequestStep, PTL DEF Spec

(* Read-after-write: a get or head that no put or delete of its key        *)
(* overlaps answers with body and metadata of the last one that succeeded  *)
(* before it, or NoSuchKey, whatever runs on other keys and on the bucket  *)
(* (get_object and head_object take no lock and read two files).           *)
THEOREM ReadsAlwaysSeeLastWriter == Spec => []ReadsSeeLastWriter
<1>1. RequestInv => ReadsSeeLastWriter
  <2> SUFFICES ASSUME RequestInv, NEW g \in Reqs, pc[g] = "done", Reads(g), Undisturbed(g),
                      NEW r \in Writers(Bkt(g), Key(g)) \cap before[g], Succeeded(r),
                      \A w \in (Writers(Bkt(g), Key(g)) \cap before[g]) \ {r} : w \in before[r]
               PROVE  SawWriter(g, r)
    BY DEF ReadsSeeLastWriter, Reads, Undisturbed, SawWriter
  <2>1. Latest(r, g) /\ r \in Reqs
    BY DEF Latest, Writers
  <2> QED
    BY <2>1 DEF RequestInv, ReaderInv
<1> QED
  BY <1>1, RequestInvariant, PTL

(* A create_bucket that no other bucket operation on its name overlaps     *)
(* leaves a whole bucket, and such a delete_bucket leaves none, whatever   *)
(* half-made bucket it starts from.                                        *)
THEOREM LastBucketOpAlwaysWins == Spec => []LastBucketOpWins
<1>1. RequestInv => LastBucketOpWins
  <2> SUFFICES ASSUME RequestInv, NEW b \in Buckets, NEW r \in BucketOps(b), Succeeded(r),
                      \A x \in BucketOps(b) \ {r} : x \in before[r]
               PROVE  IF req[r].op = "create_bucket" THEN Whole(b) ELSE b \notin bdir
    BY DEF LastBucketOpWins
  <2>1. r \in Reqs /\ AloneOnBucket(r, b)
    BY DEF AloneOnBucket, BucketOps
  <2>2. HasBucket(r, b)
    BY <2>1 DEF RequestInv
  <2> QED
    BY <2>1, <2>2 DEF HasBucket, Made
<1> QED
  BY <1>1, RequestInvariant, PTL

-----------------------------------------------------------------------------
(***************************************************************************)
(* Listings.  A key whose writers have run one after the other to a clean  *)
(* end has a sidecar exactly when it has a body, and it describes it.      *)
(***************************************************************************)
Agree(b, k) == SerialWriters(b, k) => objects[b][k] = meta[b][k]

(* A temporary body belongs to a put of some key.                          *)
TempsOwned ==
  \A t \in Reqs : otmp[t] # None => req[t].op = "put" /\ Key(t) \in Keys

Fresh(l) == pc[l] \in {"idle", "readdir"} => listed[l] = {}

(***************************************************************************)
(* A listing that every writer of its bucket precedes, those of a key one  *)
(* at a time to a clean end; and one that may precede some, when those     *)
(* before it ran one at a time.                                            *)
(***************************************************************************)
Calm(l) ==
  /\ BucketWriters(Bkt(l)) \subseteq before[l]
  /\ \A k \in Keys : SerialWriters(Bkt(l), k)

Earlier(l) == BucketWriters(Bkt(l)) \cap before[l]

Quiet(l) ==
  /\ req[l].op = "list"
  /\ \A w \in BucketWriters(Bkt(l)) : Ordered(w, l)
  /\ \A w \in Earlier(l) : Clean(w) /\ \A x \in Earlier(l) \ {w} : Ordered(w, x)

(* What it has listed, while it runs, is the part of the store it has      *)
(* resolved; at its end, every key as its last writer left it.             *)
Resolved(l) ==
  LET b == Bkt(l) IN
    /\ names[l] \subseteq BodyNames(b)
    /\ listed[l] = {<<k, objects[b][k]>> : k \in BodyNames(b) \ names[l]}

LastOf(r, k, l) ==
  /\ r \in Earlier(l)
  /\ Key(r) = k
  /\ Succeeded(r)
  /\ \A w \in (Earlier(l) \cap Writers(Bkt(l), k)) \ {r} : w \in before[r]

Exact(l) ==
  /\ res[l] \in {"Ok", "NoSuchBucket"}
  /\ res[l] = "Ok" =>
       \A r \in Reqs : \A k \in Keys :
         LastOf(r, k, l) =>
           {e \in listed[l] : e[1] = k} =
             IF req[r].op = "delete" THEN {} ELSE {<<k, Full(r)>>}

ListInv(l) ==
  /\ Calm(l) /\ pc[l] = "list_meta" => Resolved(l)
  /\ Quiet(l) /\ pc[l] = "done" => Exact(l)

LEMMA AgreeStep ==
  ASSUME TypeInv, Placed, PredecessorsEnded, Ownership', NEW x \in Reqs, Footprint(x),
         WriterStep(x) \/ OtherStep(x), NEW b \in Buckets, NEW k \in Keys, Agree(b, k)
  PROVE  Agree(b, k)'
<1> SUFFICES ASSUME SerialWriters(b, k)'
             PROVE  objects'[b][k] = meta'[b][k]
  BY DEF Agree
<1> USE DEF TypeInv, TypeOK
<1>1. \A w \in Reqs \ {x} : /\ pc'[w] = pc[w] /\ res'[w] = res[w]
                            /\ before'[w] = before[w] /\ x \notin before[w]
  BY DEF Footprint, OthersAlone, PredecessorsEnded, Ended
<1>2. CASE x \notin Writers(b, k)'
  <2>1. Writers(b, k)' = Writers(b, k)
    BY <1>2, WritersSame
  <2>2. objects'[b][k] = objects[b][k] /\ meta'[b][k] = meta[b][k]
    BY <1>2 DEF Writers, Footprint, OtherKeysAlone, Bkt, Key
  <2>3. SerialWriters(b, k)
    BY <1>1, <1>2, <2>1 DEF SerialWriters, Clean, Ordered, Writers
  <2> QED
    BY <2>2, <2>3 DEF Agree
<1>3. CASE x \in Writers(b, k)' /\ Succeeded(x)'
  <2>1. ASSUME NEW w \in Writers(b, k)', w # x
        PROVE  w \in before'[x]
    <3>1. w \in Reqs \ {x}
      BY <2>1 DEF Writers
    <3>2. w \in before'[x] \/ x \in before'[w]
      BY <1>3, <2>1 DEF SerialWriters, Ordered
    <3> QED
      BY <1>1, <3>1, <3>2
  <2>2. Alone(x, b, k)'
    BY <1>3, <2>1 DEF Alone
  <2> QED
    BY <1>3, <2>2 DEF Ownership, Owns
<1>4. CASE x \in Writers(b, k)' /\ ~Succeeded(x)'
  <2>1. pc'[x] = "done" /\ res'[x] \notin {"Ok", "Io"}
    BY <1>4 DEF SerialWriters, Clean, Succeeded
  <2>2. WriterStep(x)
    BY <1>4 DEF OtherStep, Writers
  <2>3. pc[x] = "idle" /\ UNCHANGED <<objects, meta>>
    BY <2>1, <2>2 DEF WriterStep, PutObject, DeleteObject, CreateBodyTemp, WriteChunk, BodyError,
           UnlinkBodyTemp, RenameBody, CreateSidecarTemp, RenameSidecar, SidecarError,
           UnlinkSidecarTemp, DeleteSidecar, DeleteSidecarError, Drop,
           Accept, Goto, Return, fileVars, ctlVars
  <2>4. x \notin Writers(b, k)
    BY <2>3 DEF Placed, Writers, NoRequest, WriterOps
  <2>5. Writers(b, k) \subseteq Writers(b, k)'
    BY WritersGrow
  <2>6. SerialWriters(b, k)
    BY <1>1, <2>4, <2>5 DEF SerialWriters, Clean, Ordered, Writers
  <2> QED
    BY <2>3, <2>6 DEF Agree
<1> QED
  BY <1>2, <1>3, <1>4

LEMMA TempsOwnedStep ==
  ASSUME TypeInv, Placed, TempsOwned, NEW x \in Reqs, Footprint(x), WriterStep(x) \/ OtherStep(x)
  PROVE  TempsOwned'
<1> SUFFICES ASSUME NEW t \in Reqs, otmp'[t] # None
             PROVE  req'[t].op = "put" /\ Key(t)' \in Keys
  BY DEF TempsOwned
<1>1. CASE t # x
  BY <1>1 DEF Footprint, OthersAlone, TempsOwned, Key
<1>2. CASE t = x
  <2>1. pc[x] # "idle"
    BY <1>2 DEF OtherStep, WriterStep, Placed, PutObject, DeleteObject, CreateBodyTemp, WriteChunk,
           BodyError, UnlinkBodyTemp, RenameBody, CreateSidecarTemp, RenameSidecar, SidecarError,
           UnlinkSidecarTemp, DeleteSidecar, DeleteSidecarError, Drop, Accept, fileVars
  <2>2. req'[x] = req[x]
    BY <2>1 DEF Footprint
  <2>3. otmp[x] # None \/ CreateBodyTemp(x)
    BY <1>2, FullContent DEF OtherStep, WriterStep, PutObject, DeleteObject, WriteChunk, TypeInv, TypeOK,
           BodyError, UnlinkBodyTemp, RenameBody, CreateSidecarTemp, RenameSidecar, SidecarError,
           UnlinkSidecarTemp, DeleteSidecar, DeleteSidecarError, Drop, TempsHeld, Content, fileVars
  <2>4. CASE CreateBodyTemp(x)
    BY <1>2, <2>2, <2>4 DEF CreateBodyTemp, Placed, PutLabels, TypeInv, Located, ObjectLabels, Key
  <2>5. CASE otmp[x] # None
    BY <1>2, <2>2, <2>5 DEF TempsOwned, Key
  <2> QED
    BY <2>3, <2>4, <2>5
<1> QED
  BY <1>1, <1>2

(***************************************************************************)
(* A listing under way comes before nothing, so the writers of its bucket  *)
(* that do not overlap it have ended, and one after the other.             *)
(***************************************************************************)
LEMMA QuietIsCalm ==
  ASSUME Placed, PredecessorsEnded, NEW l \in Reqs, Quiet(l),
         pc[l] \notin {"idle", "done", "dropped"}
  PROVE  Calm(l)
<1>1. ASSUME NEW w \in BucketWriters(Bkt(l))
      PROVE  w \in before[l]
  BY <1>1 DEF Quiet, Ordered, PredecessorsEnded, Ended, BucketWriters, Writers
<1>2. \A k \in Keys : SerialWriters(Bkt(l), k)
  <2> SUFFICES ASSUME NEW k \in Keys, NEW w \in Writers(Bkt(l), k)
               PROVE  Clean(w) /\ \A x \in Writers(Bkt(l), k) : w # x => Ordered(w, x)
    BY DEF SerialWriters
  <2>1. \A x \in Writers(Bkt(l), k) : x \in Earlier(l)
    BY <1>1 DEF Earlier, BucketWriters
  <2> QED
    BY <2>1 DEF Quiet
<1> QED
  BY <1>1, <1>2 DEF Calm

LEMMA CalmHasNoTemps ==
  ASSUME Placed, TempsOwned, NEW l \in Reqs, Calm(l)
  PROVE  BodyTemps(Bkt(l)) = {}
<1> SUFFICES ASSUME NEW t \in BodyTemps(Bkt(l))
             PROVE  FALSE
  OBVIOUS
<1>1. t \in Reqs /\ otmp[t] # None /\ Bkt(t) = Bkt(l)
  BY DEF BodyTemps
<1>2. Key(t) \in Keys /\ t \in Writers(Bkt(l), Key(t))
  BY <1>1 DEF TempsOwned, Writers, WriterOps
<1>3. Clean(t)
  BY <1>2 DEF Calm, SerialWriters
<1> QED
  BY <1>1, <1>3 DEF Placed, Clean

LEMMA CalmUndisturbed ==
  ASSUME Placed, PredecessorsEnded, NEW x \in Reqs, Footprint(x), NEW l \in Reqs \ {x}, Calm(l)'
  PROVE  /\ Calm(l)
         /\ \A k \in Keys : x \notin Writers(Bkt(l), k)'
<1>1. Bkt(l)' = Bkt(l) /\ before'[l] = before[l] /\ x \notin before[l]
  BY DEF Bkt, Footprint, OthersAlone, PredecessorsEnded, Ended
<1>2. ASSUME NEW k \in Keys
      PROVE  /\ x \notin Writers(Bkt(l), k)'
             /\ Writers(Bkt(l), k) \subseteq before[l]
             /\ SerialWriters(Bkt(l), k)
  <2>1. x \notin Writers(Bkt(l), k)'
    BY <1>1 DEF Calm, BucketWriters
  <2>2. x \notin Writers(Bkt(l), k) /\ Writers(Bkt(l), k) \subseteq Writers(Bkt(l), k)'
    BY <1>1, <2>1, WritersGrow DEF Writers
  <2>3. Writers(Bkt(l), k) \subseteq before[l]
    BY <1>1, <2>2 DEF Calm, BucketWriters, Writers
  <2>4. SerialWriters(Bkt(l), k)'
    BY DEF Calm
  <2>5. \A w \in Reqs \ {x} : pc'[w] = pc[w] /\ res'[w] = res[w] /\ before'[w] = before[w]
    BY DEF Footprint, OthersAlone
  <2>6. SerialWriters(Bkt(l), k)
    BY <1>1, <2>2, <2>4, <2>5 DEF SerialWriters, Clean, Ordered, Writers
  <2> QED
    BY <2>1, <2>3, <2>6
<1> QED
  BY <1>2 DEF Calm, BucketWriters

LEMMA CalmKept ==
  ASSUME NEW l \in Reqs, RunsOp(l), pc[l] \in ListLabels, Footprint(l),
         UNCHANGED <<req, before>>, Calm(l)'
  PROVE  Calm(l)
<1>1. \A k : Writers(Bkt(l), k)' = Writers(Bkt(l), k)
  BY DEF Writers, Bkt, Key
<1>2. BucketWriters(Bkt(l)) \subseteq before[l]
  BY <1>1 DEF Calm, BucketWriters
<1>3. ASSUME NEW k \in Keys
      PROVE  SerialWriters(Bkt(l), k)
  <2>1. SerialWriters(Bkt(l), k)'
    BY DEF Calm
  <2>2. Writers(Bkt(l), k) \subseteq Reqs \ {l}
    BY DEF RunsOp, Writers, WriterOps
  <2>3. \A w \in Reqs \ {l} : pc'[w] = pc[w] /\ res'[w] = res[w]
    BY DEF Footprint, OthersAlone
  <2> QED
    BY <1>1, <2>1, <2>2, <2>3 DEF SerialWriters, Clean, Ordered
<1> QED
  BY <1>2, <1>3 DEF Calm

(* A step of another request leaves a listing's quiet and what it has seen *)
(* as they are: a writer of its bucket would overlap it.                   *)
LEMMA ListUndisturbed ==
  ASSUME TypeInv, Placed, PredecessorsEnded, NEW x \in Reqs, Footprint(x),
         NEW l \in Reqs \ {x}, ListInv(l)
  PROVE  ListInv(l)'
<1> SUFFICES ASSUME NEW b, b = Bkt(l)
             PROVE  ListInv(l)'
  OBVIOUS
<1>1. /\ pc'[l] = pc[l] /\ res'[l] = res[l] /\ req'[l] = req[l] /\ before'[l] = before[l]
      /\ names'[l] = names[l] /\ listed'[l] = listed[l]
  BY DEF Footprint, OthersAlone
<1>2. Bkt(l)' = b /\ x \notin before[l]
  BY <1>1 DEF Bkt, Footprint, PredecessorsEnded, Ended
<1>3. /\ BucketWriters(b) \subseteq BucketWriters(b)'
      /\ BucketWriters(b)' \subseteq BucketWriters(b) \cup {x}
  BY WritersGrow DEF BucketWriters
<1>4. Earlier(l)' = Earlier(l) /\ Earlier(l) \subseteq Reqs \ {x}
  <2>1. BucketWriters(Bkt(l))' = BucketWriters(b)'
    BY <1>2
  <2> QED
    BY <1>1, <1>2, <1>3, <2>1 DEF Earlier, BucketWriters, Writers
<1>5. \A w \in Reqs \ {x} : pc'[w] = pc[w] /\ res'[w] = res[w] /\ before'[w] = before[w] /\ req'[w] = req[w]
  BY DEF Footprint, OthersAlone
<1>6. ASSUME Quiet(l)'
      PROVE  Quiet(l)
  <2>1. ASSUME NEW w \in BucketWriters(b)
        PROVE  Ordered(w, l)
    <3>1. Ordered(w, l)'
      BY <1>2, <1>3, <1>6, <2>1 DEF Quiet, BucketWriters, Writers
    <3>2. w \in Reqs /\ (w = x => pc[x] # "idle")
      BY <2>1 DEF BucketWriters, Writers, Placed, NoRequest, WriterOps
    <3> QED
      BY <1>1, <1>5, <3>1, <3>2 DEF Ordered, Footprint
  <2>2. \A w \in Earlier(l) : Clean(w) /\ \A y \in Earlier(l) \ {w} : Ordered(w, y)
    BY <1>4, <1>5, <1>6 DEF Quiet, Clean, Ordered
  <2> QED
    BY <1>1, <1>6, <2>1, <2>2 DEF Quiet
<1>7. ASSUME Calm(l)', pc[l] = "list_meta"
      PROVE  Resolved(l)'
  <2>1. Calm(l) /\ \A k \in Keys : x \notin Writers(b, k)'
    BY <1>2, <1>7, CalmUndisturbed
  <2>2. b \in Buckets
    BY <1>7 DEF TypeInv, Located, BucketLabels, ObjectLabels, Labels
  <2>3. \A k \in Keys : objects'[b][k] = objects[b][k]
    BY <2>1, <2>2 DEF Writers, Footprint, OtherKeysAlone, Bkt, Key
  <2>4. Resolved(l)
    BY <1>7, <2>1 DEF ListInv
  <2>5. BodyNames(Bkt(l))' = BodyNames(b)
    BY <1>2, <2>3 DEF BodyNames
  <2>6. {<<k, objects[b][k]>> : k \in BodyNames(b) \ names[l]}
          = {<<k, objects'[b][k]>> : k \in BodyNames(b) \ names[l]}
    BY <2>3 DEF BodyNames
  <2> QED
    BY <1>1, <1>2, <2>4, <2>5, <2>6 DEF Resolved
<1>8. ASSUME Quiet(l)', pc[l] = "done"
      PROVE  Exact(l)'
  <2>1. Exact(l)
    BY <1>6, <1>8 DEF ListInv
  <2>2. ASSUME NEW r \in Reqs, NEW k \in Keys, LastOf(r, k, l)'
        PROVE  LastOf(r, k, l) /\ req'[r] = req[r]
    <3>1. r \in Earlier(l) /\ r # x
      BY <1>4, <2>2 DEF LastOf
    <3>2. Writers(b, k) \subseteq Writers(Bkt(l), k)'
      BY <1>2, WritersGrow DEF Writers
    <3> QED
      BY <1>4, <1>5, <2>2, <3>1, <3>2 DEF LastOf, Succeeded, Key
  <2> QED
    BY <1>1, <2>1, <2>2 DEF Exact, Full
<1> QED
  BY <1>1, <1>7, <1>8 DEF ListInv

(* The listing's own steps.                                                *)
LEMMA ListOwnStep ==
  ASSUME TypeInv, Placed, PredecessorsEnded, Ownership, TempsOwned,
         \A b \in Buckets, k \in Keys : Agree(b, k),
         NEW l \in Reqs, RunsOp(l), Fresh(l), ListInv(l),
         Footprint(l), Issue(l) \/ Advance(l) \/ Fault(l)
  PROVE  Fresh(l)' /\ ListInv(l)'
<1> USE DEF TypeInv, TypeOK, Accept, Goto, Return, callVars, ctlVars, readVars
<1>1. CASE ListStep(l)
  <2>1. ASSUME NEW b \in Buckets, ListObjects(l, b)
        PROVE  Fresh(l)' /\ ListInv(l)'
    BY <2>1 DEF ListObjects, Fresh, ListInv, Exact
  <2>2. ASSUME pc[l] \in ListLabels, UNCHANGED <<req, before>>
        PROVE  /\ Bkt(l) \in Buckets
               /\ Calm(l)' => Calm(l)
               /\ Quiet(l)' => Quiet(l) /\ Calm(l)
               /\ Calm(l) => BodyTemps(Bkt(l)) = {}
               /\ Calm(l) => \A k \in Keys : objects[Bkt(l)][k] = meta[Bkt(l)][k]
    <3>1. Bkt(l) \in Buckets
      BY <2>2 DEF Located, ListLabels, BucketLabels, ObjectLabels, Labels
    <3>2. \A k : Writers(Bkt(l), k)' = Writers(Bkt(l), k)
      BY <2>2 DEF Writers, Bkt, Key
    <3>3. Earlier(l)' = Earlier(l) /\ BucketWriters(Bkt(l))' = BucketWriters(Bkt(l))
      BY <2>2, <3>2 DEF Earlier, BucketWriters
    <3>4. \A w \in Reqs \ {l} : pc'[w] = pc[w] /\ res'[w] = res[w]
      BY DEF Footprint, OthersAlone
    <3>5. ASSUME Quiet(l)'
          PROVE  Quiet(l)
      <4>1. Earlier(l) \subseteq Reqs \ {l}
        BY <2>2, <3>3, <3>5 DEF Earlier, BucketWriters, Writers, Quiet, WriterOps
      <4> QED
        BY <2>2, <3>3, <3>4, <3>5, <4>1 DEF Quiet, Clean, Ordered
    <3>6. Calm(l)' => Calm(l)
      BY <2>2, CalmKept
    <3>7. Quiet(l) => Calm(l)
      BY <2>2, QuietIsCalm DEF ListLabels
    <3>8. Calm(l) => BodyTemps(Bkt(l)) = {}
      BY CalmHasNoTemps
    <3> QED
      BY <3>1, <3>5, <3>6, <3>7, <3>8 DEF Agree, Calm
  <2>3. CASE ReadObjectsDir(l)
    <3>1. pc[l] = "readdir" /\ pc'[l] = "list_meta" /\ UNCHANGED <<req, before, objects, listed>>
      BY <2>3 DEF ReadObjectsDir, fileVars
    <3>2. names'[l] = BodyNames(Bkt(l)) \cup BodyTemps(Bkt(l))
      BY <2>3 DEF ReadObjectsDir
    <3>3. listed'[l] = {}
      BY <3>1 DEF Fresh
    <3>4. Bkt(l)' = Bkt(l) /\ BodyNames(Bkt(l))' = BodyNames(Bkt(l))
      BY <3>1 DEF Bkt, BodyNames
    <3>5. Calm(l)' => Resolved(l)'
      BY <2>2, <3>1, <3>2, <3>3, <3>4 DEF Resolved, ListLabels
    <3> QED
      BY <3>1, <3>5 DEF Fresh, ListInv
  <2>4. CASE ListEntry(l)
    <3>1. pc[l] = "list_meta" /\ UNCHANGED <<req, before, objects, meta>>
      BY <2>4 DEF ListEntry, fileVars
    <3>2. PICK x \in names[l] :
            \/ /\ x \in MetaNames(Bkt(l))
               /\ names' = [names EXCEPT ![l] = @ \ {x}]
               /\ listed' = [listed EXCEPT ![l] = @ \cup {<<x, meta[Bkt(l)][x]>>}]
               /\ UNCHANGED <<pc, res>>
            \/ /\ x \notin MetaNames(Bkt(l))
               /\ pc'[l] = "done"
      BY <2>4 DEF ListEntry
    <3>3. Bkt(l)' = Bkt(l) /\ BodyNames(Bkt(l))' = BodyNames(Bkt(l))
      BY <3>1 DEF Bkt, BodyNames
    <3>4. ASSUME Calm(l)
          PROVE  pc'[l] = "list_meta" /\ Resolved(l)'
      <4>1. Calm(l) /\ Resolved(l)
        BY <2>2, <3>1, <3>4 DEF ListInv, ListLabels
      <4>2. x \in Keys /\ objects[Bkt(l)][x] # None /\ meta[Bkt(l)][x] = objects[Bkt(l)][x]
        BY <2>2, <3>1, <3>2, <4>1 DEF Resolved, BodyNames, ListLabels
      <4>3. /\ names'[l] = names[l] \ {x}
            /\ listed'[l] = listed[l] \cup {<<x, objects[Bkt(l)][x]>>}
            /\ pc'[l] = "list_meta"
        BY <3>1, <3>2, <4>2 DEF MetaNames
      <4>4. BodyNames(Bkt(l)) \ names'[l] = (BodyNames(Bkt(l)) \ names[l]) \cup {x}
        BY <4>1, <4>2, <4>3 DEF Resolved, BodyNames
      <4>5. listed'[l] = {<<k, objects[Bkt(l)][k]>> : k \in BodyNames(Bkt(l)) \ names'[l]}
        BY <4>1, <4>3, <4>4 DEF Resolved
      <4> QED
        BY <3>1, <3>3, <4>1, <4>3, <4>5 DEF Resolved
    <3>5. (Calm(l)' => Calm(l)) /\ (Quiet(l)' => Calm(l))
      BY <2>2, <3>1 DEF ListLabels
    <3>6. pc'[l] \in {"list_meta", "done"}
      BY <3>1, <3>2
    <3> QED
      BY <3>4, <3>5, <3>6 DEF Fresh, ListInv
  <2>5. CASE ListDone(l)
    <3>1. /\ pc[l] = "list_meta" /\ pc'[l] = "done" /\ res'[l] = "Ok" /\ names[l] = {}
          /\ UNCHANGED <<req, before, listed, objects>>
      BY <2>5 DEF ListDone, fileVars
    <3>2. ASSUME Quiet(l)', NEW r \in Reqs, NEW k \in Keys, LastOf(r, k, l)'
          PROVE  {e \in listed[l] : e[1] = k} = IF req[r].op = "delete" THEN {} ELSE {<<k, Full(r)>>}
      <4>1. Calm(l) /\ Bkt(l) \in Buckets /\ Resolved(l)
        BY <2>2, <3>1, <3>2 DEF ListInv, ListLabels
      <4>2. r # l
        BY <3>1, <3>2 DEF LastOf, Earlier, BucketWriters, Writers, Quiet, WriterOps
      <4>3. Succeeded(r)
        BY <3>2, <4>2 DEF LastOf, Succeeded, Footprint, OthersAlone
      <4>4. \A j : Writers(Bkt(l), j)' = Writers(Bkt(l), j)
        BY <3>1 DEF Writers, Bkt, Key
      <4>5. BucketWriters(Bkt(l)) \subseteq before[l]
        BY <4>1 DEF Calm
      <4>6. Alone(r, Bkt(l), k)
        <5>1. Earlier(l) = BucketWriters(Bkt(l)) /\ Earlier(l)' = BucketWriters(Bkt(l))
          BY <3>1, <4>4, <4>5 DEF Earlier, BucketWriters
        <5>2. Writers(Bkt(l), k) \subseteq Earlier(l)
          BY <5>1 DEF BucketWriters
        <5>3. r \in Writers(Bkt(l), k)
          BY <3>1, <3>2, <5>1 DEF LastOf, BucketWriters, Writers, Key
        <5> QED
          BY <3>1, <3>2, <4>4, <5>1, <5>2, <5>3 DEF LastOf, Alone, Bkt
      <4>7. objects[Bkt(l)][k] = Outcome(r)
        BY <4>1, <4>3, <4>6 DEF Ownership, Owns
      <4>8. listed[l] = {<<j, objects[Bkt(l)][j]>> : j \in BodyNames(Bkt(l))}
        BY <3>1, <4>1 DEF Resolved
      <4>9. {e \in listed[l] : e[1] = k} = IF objects[Bkt(l)][k] = None THEN {} ELSE {<<k, objects[Bkt(l)][k]>>}
        BY <4>8 DEF BodyNames
      <4> QED
        BY <4>7, <4>9, FullContent DEF Outcome
    <3> QED
      BY <3>1, <3>2 DEF Fresh, ListInv, Exact, Full
  <2> QED
    BY <1>1, <2>1, <2>3, <2>4, <2>5 DEF ListStep
<1>2. CASE WriterStep(l)
  <2>1. listed' = listed
    BY <1>2 DEF WriterStep, PutObject, DeleteObject, CreateBodyTemp, WriteChunk, BodyError,
           UnlinkBodyTemp, RenameBody, CreateSidecarTemp, RenameSidecar, SidecarError,
           UnlinkSidecarTemp, DeleteSidecar, DeleteSidecarError, Drop
  <2>2. pc'[l] \notin {"idle", "readdir", "list_meta"}
    BY <1>2 DEF WriterStep, PutObject, DeleteObject, CreateBodyTemp, WriteChunk, BodyError,
           UnlinkBodyTemp, RenameBody, CreateSidecarTemp, RenameSidecar, SidecarError,
           UnlinkSidecarTemp, DeleteSidecar, DeleteSidecarError, Drop
  <2>3. req'[l].op = "list" => pc'[l] = "dropped"
    BY <1>2 DEF WriterStep, Placed, PutLabels, PutObject, DeleteObject, CreateBodyTemp, WriteChunk,
           BodyError, UnlinkBodyTemp, RenameBody, CreateSidecarTemp, RenameSidecar, SidecarError,
           UnlinkSidecarTemp, DeleteSidecar, DeleteSidecarError, Drop
  <2> QED
    BY <2>1, <2>2, <2>3 DEF Fresh, ListInv, Quiet
<1>3. ASSUME req'[l].op # "list", pc'[l] \notin {"idle", "readdir", "list_meta"}
      PROVE  Fresh(l)' /\ ListInv(l)'
  BY <1>3 DEF Fresh, ListInv, Quiet
<1>4. CASE ReadStep(l)
  BY <1>3, <1>4 DEF RunsOp, ReadStep, GetObject, HeadObject, OpenBody
<1>5. CASE TableStep(l)
  BY <1>3, <1>5 DEF RunsOp, TableStep, ListBuckets, ReadBucketJson, ListBucketsDone
<1>6. CASE CreateStep(l)
  BY <1>3, <1>6 DEF RunsOp, CreateLabels, CreateStep, CreateBucket, MakeObjectsDir, MakeMetaDir,
         OpenBucketJson, WriteBucketJson
<1>7. CASE RemoveStep(l)
  BY <1>3, <1>7 DEF RunsOp, RemoveLabels, RemoveStep, DeleteBucket, CheckEmpty, RemoveObjectsDir,
         RecheckObjects, RemoveMetaDir, RecheckMeta, RemoveBucketJson, RemoveBucketDir
<1> QED
  BY <1>1, <1>2, <1>4, <1>5, <1>6, <1>7, StepKinds

(***************************************************************************)
(* The inductive invariant of listings, on top of the requests'.           *)
(***************************************************************************)
ListingInv ==
  /\ RequestInv
  /\ \A b \in Buckets, k \in Keys : Agree(b, k)
  /\ TempsOwned
  /\ \A l \in Reqs : Fresh(l) /\ ListInv(l)

LEMMA ListingInit == Init => ListingInv
<1> SUFFICES ASSUME Init
             PROVE  ListingInv
  OBVIOUS
<1>1. \A b \in Buckets, k \in Keys : Agree(b, k)
  BY DEF Init, Agree
<1>2. TempsOwned
  BY DEF Init, TempsOwned
<1>3. \A l \in Reqs : Fresh(l) /\ ListInv(l)
  BY DEF Init, Fresh, ListInv
<1> QED
  BY <1>1, <1>2, <1>3, RequestInit DEF ListingInv

LEMMA ListingStep == ListingInv /\ [Next]_vars => ListingInv'
<1> SUFFICES ASSUME ListingInv, [Next]_vars
             PROVE  ListingInv'
  OBVIOUS
<1> USE DEF ListingInv
<1>1. RequestInv'
  BY RequestStep
<1>2. ASSUME NEW x \in Reqs, Issue(x) \/ Advance(x) \/ Fault(x)
      PROVE  /\ \A b \in Buckets, k \in Keys : Agree(b, k)'
             /\ TempsOwned'
             /\ \A l \in Reqs : Fresh(l)' /\ ListInv(l)'
  <2>1. TypeInv /\ Placed /\ PredecessorsEnded /\ Ownership /\ Ownership' /\ RunsOp(x)
    BY <1>1 DEF RequestInv, WriterInv
  <2>2. Footprint(x) /\ (WriterStep(x) \/ OtherStep(x))
    BY <1>2, <2>1, StepFootprint
  <2>3. \A b \in Buckets, k \in Keys : Agree(b, k)'
    BY <2>1, <2>2, AgreeStep
  <2>4. TempsOwned'
    BY <2>1, <2>2, TempsOwnedStep
  <2>5. ASSUME NEW l \in Reqs
        PROVE  Fresh(l)' /\ ListInv(l)'
    <3>1. CASE l = x
      BY <1>2, <2>1, <2>2, <3>1, ListOwnStep
    <3>2. CASE l # x
      <4>1. ListInv(l)'
        BY <2>1, <2>2, <3>2, ListUndisturbed
      <4> QED
        BY <2>2, <3>2, <4>1 DEF Footprint, OthersAlone, Fresh
    <3> QED
      BY <3>1, <3>2
  <2> QED
    BY <2>3, <2>4, <2>5
<1>3. CASE UNCHANGED vars
  <2> USE <1>3 DEF vars, fileVars, callVars, ctlVars, readVars, Bkt, Key, Clean, Ordered, Writers, Succeeded
  <2>1. \A b \in Buckets, k \in Keys : Agree(b, k)'
    BY DEF Agree, SerialWriters
  <2>2. TempsOwned'
    BY DEF TempsOwned
  <2>3. ASSUME NEW l \in Reqs
        PROVE  Fresh(l)' /\ ListInv(l)'
    <3>1. (Quiet(l)' => Quiet(l)) /\ (Calm(l)' => Calm(l)) /\ Earlier(l)' = Earlier(l)
      BY DEF Quiet, Calm, SerialWriters, Earlier, BucketWriters
    <3>2. (Resolved(l) => Resolved(l)') /\ (Exact(l) => Exact(l)')
      BY <3>1 DEF Resolved, BodyNames, Exact, LastOf, Full
    <3> QED
      BY <3>1, <3>2 DEF Fresh, ListInv
  <2> QED
    BY <1>1, <2>1, <2>2, <2>3
<1> QED
  BY <1>1, <1>2, <1>3 DEF Next, Quiescent

LEMMA ListingInvariant == Spec => []ListingInv
BY ListingInit, ListingStep, PTL DEF Spec

(* A listing that no put or delete in its bucket overlaps, after ones that *)
(* ran one at a time to a clean end, does not fail, and lists exactly the  *)
(* keys the last of them left, each with the metadata of its body: the     *)
(* readdir and the sidecar reads of list_objects_v2 see one store, and no  *)
(* temporary file, whatever runs in other buckets and on the bucket itself.*)
THEOREM QuietListingsAreExact == Spec => []QuietListingIsExact
<1>1. ListingInv => QuietListingIsExact
  <2> SUFFICES ASSUME ListingInv, NEW l \in Reqs, pc[l] = "done", Quiet(l)
               PROVE  /\ res[l] \in {"Ok", "NoSuchBucket"}
                      /\ res[l] = "Ok" =>
                           \A r \in Earlier(l) : \A k \in Keys :
                             LastOf(r, k, l) =>
                               {e \in listed[l] : e[1] = k} =
                                 IF req[r].op = "delete" THEN {} ELSE {<<k, Full(r)>>}
    BY DEF QuietListingIsExact, Quiet, Earlier, LastOf
  <2>1. Exact(l)
    BY DEF ListingInv, ListInv
  <2> QED
    BY <2>1 DEF Exact, LastOf, Earlier, BucketWriters, Writers
<1> QED
  BY <1>1, ListingInvariant, PTL
=============================================================================
