------------------------------ MODULE Multipart ------------------------------
(***************************************************************************)
(* Multipart uploads of FsStorage (crates/storage/src/fs.rs, multipart.rs) *)
(* on top of the bucket and object operations of module FsStorage.         *)
(*                                                                         *)
(* create_multipart_upload makes a staging directory .uploads/<id> with a  *)
(* _meta.json naming bucket and key; upload_part renames part files into   *)
(* it; complete_multipart_upload concatenates the listed parts into        *)
(* objects/ and then removes the directory; abort removes it.  Nothing     *)
(* orders these calls but their clients, and remove_dir_all is itself a    *)
(* scan, an unlink per entry and an rmdir.                                 *)
(*                                                                         *)
(* An upload id is a fresh UUID, so an upload is named by the request that *)
(* created it; Old is an upload that was begun before this run.  A part    *)
(* file's content is the request that uploaded it, and an assembled body's *)
(* content the sequence of the parts it was read from (parts).  The order  *)
(* in which a client lists parts is irrelevant, as the code sorts them,    *)
(* but a number may be listed twice.                                       *)
(***************************************************************************)
EXTENDS FsStorage, Sequences

CONSTANTS
  MpOps,        \* the multipart operations the clients issue
  PartNos,      \* positive part numbers
  PartLists     \* the sorted part number lists clients complete with

MpAllOps == {"create_upload", "upload_part", "complete", "abort"}

ASSUME MpAssumption ==
  /\ MpOps \subseteq MpAllOps
  /\ PartNos \subseteq Nat \ {0}
  /\ PartLists \subseteq Seq(PartNos)
  /\ \A l \in PartLists : \A i, j \in 1..Len(l) : i < j => l[i] <= l[j]
  /\ None \notin [bkt : Buckets, key : Keys]

VARIABLES
  (* the staging area *)
  udir,         \* uploads whose staging directory exists
  umeta,        \* _meta.json: the bucket and key of an upload
  ufile,        \* part files: the request that uploaded each
  utmp,         \* the upload in whose directory a request has a temporary file
  (* the multipart requests *)
  up,           \* the upload a request is about
  partNo,       \* the part an upload_part writes
  list,         \* the sorted part numbers of a complete
  parts,        \* the parts a complete has read so far, in order
  entries       \* what remove_dir_all has still to unlink

stagingVars == <<udir, umeta, ufile, utmp>>
mpCallVars  == <<up, partNo, list>>
mpReadVars  == <<parts, entries>>
mpVars      == <<stagingVars, mpCallVars, mpReadVars>>
allVars     == <<vars, mpVars>>

Uploads == Reqs \cup {Old}

(***************************************************************************)
(* A request about upload u.  Its bucket argument is ignored by the code:  *)
(* b is the bucket it will work on, None if it touches no bucket.          *)
(***************************************************************************)
AcceptMp(r, op, b, k, u) ==
  /\ op \in MpOps
  /\ pc[r] = "idle"
  /\ req' = [req EXCEPT ![r] = [op |-> op, bkt |-> b, key |-> k]]
  /\ before' = [before EXCEPT ![r] = Ended]
  /\ up' = [up EXCEPT ![r] = u]

(***************************************************************************)
(* A client knows an upload id once create_multipart_upload has returned.  *)
(***************************************************************************)
Created(u) == u \in Reqs /\ req[u].op = "create_upload" /\ pc[u] = "done" /\ res[u] = "Ok"

KnownUploads == {u \in Uploads : u = Old \/ Created(u)}

(***************************************************************************)
(* The entries of a staging directory: _meta.json, part files, and the     *)
(* temporary files of upload_part requests.                                *)
(***************************************************************************)
MetaEntry == [kind |-> "meta", no |-> 0, of |-> None]

StagingEntries(u) ==
  {e \in {MetaEntry} : umeta[u] # None}
    \cup {[kind |-> "part", no |-> p, of |-> None] : p \in {q \in PartNos : ufile[u][q] # None}}
    \cup {[kind |-> "temp", no |-> 0, of |-> t] : t \in {x \in Reqs : utmp[x] = u}}

-----------------------------------------------------------------------------
(***************************************************************************)
(* create_multipart_upload.                                                *)
(***************************************************************************)
CreateUpload(r, b, k) ==
  /\ AcceptMp(r, "create_upload", b, k, r)
  /\ \/ b \in bdir /\ Goto(r, "make_staging")
     \/ b \notin bdir /\ Return(r, "NoSuchBucket")
  /\ UNCHANGED <<dirVars, fileVars, readVars, stagingVars, partNo, list, mpReadVars>>

MakeStagingDir(r) ==
  /\ pc[r] = "make_staging"
  /\ udir' = udir \cup {r}
  /\ Goto(r, "write_upload")
  /\ UNCHANGED <<dirVars, fileVars, callVars, readVars, umeta, ufile, utmp,
                 mpCallVars, mpReadVars>>

(* _meta.json appears whole, by rename; no one else knows the id yet.      *)
WriteUploadMeta(r) ==
  /\ pc[r] = "write_upload"
  /\ \/ /\ umeta' = [umeta EXCEPT ![r] = [bkt |-> Bkt(r), key |-> Key(r)]]
        /\ Return(r, "Ok")
     \/ /\ IoFaults
        /\ Return(r, "Io")
        /\ UNCHANGED umeta
  /\ UNCHANGED <<dirVars, fileVars, callVars, readVars, udir, ufile, utmp,
                 mpCallVars, mpReadVars>>

(***************************************************************************)
(* upload_part: only the directory has to exist, not _meta.json.           *)
(***************************************************************************)
UploadPart(r, u, p) ==
  /\ AcceptMp(r, "upload_part", None, None, u)
  /\ partNo' = [partNo EXCEPT ![r] = p]
  /\ \/ u \in udir /\ Goto(r, "part_temp")
     \/ u \notin udir /\ Return(r, "NoSuchUpload")
  /\ UNCHANGED <<dirVars, fileVars, readVars, stagingVars, list, mpReadVars>>

CreatePartTemp(r) ==
  /\ pc[r] = "part_temp"
  /\ \/ up[r] \in udir /\ utmp' = [utmp EXCEPT ![r] = up[r]] /\ Goto(r, "part_stream")
     \/ up[r] \notin udir /\ Return(r, "Io") /\ UNCHANGED utmp
  /\ UNCHANGED <<dirVars, fileVars, callVars, readVars, udir, umeta, ufile,
                 mpCallVars, mpReadVars>>

(* Mutant: the part is written in place, whether or not the directory and  *)
(* the temporary file are still there.                                     *)
RenamePartBlindly(r) ==
  /\ pc[r] = "part_stream"
  /\ ufile' = [ufile EXCEPT ![up[r]][partNo[r]] = r]
  /\ utmp' = [utmp EXCEPT ![r] = None]
  /\ Return(r, "Ok")
  /\ UNCHANGED <<dirVars, fileVars, callVars, readVars, udir, umeta,
                 mpCallVars, mpReadVars>>

(* Mutant: a part that is there already is kept.                           *)
RenamePartKeepsFirst(r) ==
  /\ pc[r] = "part_stream"
  /\ \/ /\ utmp[r] # None
        /\ ufile' = [ufile EXCEPT ![up[r]][partNo[r]] = IF @ = None THEN r ELSE @]
        /\ utmp' = [utmp EXCEPT ![r] = None]
        /\ Return(r, "Ok")
     \/ /\ utmp[r] = None
        /\ Goto(r, "part_unlink")
        /\ UNCHANGED <<ufile, utmp>>
  /\ UNCHANGED <<dirVars, fileVars, callVars, readVars, udir, umeta,
                 mpCallVars, mpReadVars>>

(* The whole part is in the temporary file, unless a concurrent            *)
(* remove_dir_all has unlinked it: then the rename fails.                  *)
RenamePart(r) ==
  /\ pc[r] = "part_stream"
  /\ \/ /\ utmp[r] # None
        /\ ufile' = [ufile EXCEPT ![up[r]][partNo[r]] = r]
        /\ utmp' = [utmp EXCEPT ![r] = None]
        /\ Return(r, "Ok")
     \/ /\ utmp[r] = None
        /\ Goto(r, "part_unlink")
        /\ UNCHANGED <<ufile, utmp>>
  /\ UNCHANGED <<dirVars, fileVars, callVars, readVars, udir, umeta,
                 mpCallVars, mpReadVars>>

(* The part's body stream yields an error, or a write fails.               *)
PartError(r) ==
  /\ pc[r] = "part_stream"
  /\ Goto(r, "part_unlink")
  /\ UNCHANGED <<dirVars, fileVars, callVars, readVars, mpVars>>

(* Mutant: the error path leaves the temporary file.                       *)
UnlinkPartTempSkipped(r) ==
  /\ pc[r] = "part_unlink"
  /\ Return(r, "Io")
  /\ UNCHANGED <<dirVars, fileVars, callVars, readVars, mpVars>>

UnlinkPartTemp(r) ==
  /\ pc[r] = "part_unlink"
  /\ utmp' = [utmp EXCEPT ![r] = None]
  /\ Return(r, "Io")
  /\ UNCHANGED <<dirVars, fileVars, callVars, readVars, udir, umeta, ufile,
                 mpCallVars, mpReadVars>>

-----------------------------------------------------------------------------
(***************************************************************************)
(* complete_multipart_upload.  The bucket comes from _meta.json, the key   *)
(* from the request; the bucket itself is not looked at.                   *)
(***************************************************************************)
CompleteUpload(r, u, k, l) ==
  /\ \/ /\ umeta[u] # None
        /\ AcceptMp(r, "complete", umeta[u].bkt, k, u)
        /\ Goto(r, "mk_odir")
     \/ /\ umeta[u] = None
        /\ AcceptMp(r, "complete", None, None, u)
        /\ Return(r, "NoSuchUpload")
  /\ list' = [list EXCEPT ![r] = l]
  /\ UNCHANGED <<dirVars, fileVars, readVars, stagingVars, partNo, mpReadVars>>

(* create_dir_all makes the missing parents too: a deleted bucket returns. *)
EnsureObjectsDir(r) ==
  /\ pc[r] = "mk_odir"
  /\ bdir' = bdir \cup {Bkt(r)}
  /\ odir' = odir \cup {Bkt(r)}
  /\ Goto(r, "asm_temp")
  /\ UNCHANGED <<mdir, bjson, fileVars, callVars, readVars, mpVars>>

(***************************************************************************)
(* The temporary body of a complete: whole once every listed part is in.   *)
(***************************************************************************)
Assembly(r, ps) == IF Len(ps) = Len(list[r]) THEN Full(r) ELSE [w |-> r, n |-> 0]

CreateAssemblyTemp(r) ==
  /\ pc[r] = "asm_temp"
  /\ \/ /\ Bkt(r) \in odir
        /\ otmp' = [otmp EXCEPT ![r] = Assembly(r, <<>>)]
        /\ Goto(r, "assemble")
     \/ /\ Bkt(r) \notin odir
        /\ Return(r, "Io")
        /\ UNCHANGED otmp
  /\ UNCHANGED <<dirVars, objects, meta, mtmp, callVars, readVars, mpVars>>

(* Mutant: a complete waits for a part that is not there yet.              *)
ReadPartWaiting(r) ==
  /\ pc[r] = "assemble"
  /\ Len(parts[r]) < Len(list[r])
  /\ LET file == ufile[up[r]][list[r][Len(parts[r]) + 1]]
         ps   == Append(parts[r], file)
     IN  /\ file # None
         /\ parts' = [parts EXCEPT ![r] = ps]
         /\ otmp' = [otmp EXCEPT ![r] = Assembly(r, ps)]
  /\ UNCHANGED <<dirVars, objects, meta, mtmp, callVars, ctlVars, readVars,
                 stagingVars, mpCallVars, entries>>

(* Each part file is opened when its turn comes; a missing one is an error *)
ReadPart(r) ==
  /\ pc[r] = "assemble"
  /\ Len(parts[r]) < Len(list[r])
  /\ LET file == ufile[up[r]][list[r][Len(parts[r]) + 1]]
         ps   == Append(parts[r], file)
     IN  \/ /\ file # None
            /\ parts' = [parts EXCEPT ![r] = ps]
            /\ otmp' = [otmp EXCEPT ![r] = Assembly(r, ps)]
            /\ UNCHANGED ctlVars
         \/ /\ file = None
            /\ Goto(r, "body_unlink")
            /\ UNCHANGED <<parts, otmp>>
  /\ UNCHANGED <<dirVars, objects, meta, mtmp, callVars, readVars,
                 stagingVars, mpCallVars, entries>>

(* Reading a part, writing the body or the rename fails.                   *)
AssemblyError(r) ==
  /\ pc[r] = "assemble"
  /\ Goto(r, "body_unlink")
  /\ UNCHANGED <<dirVars, fileVars, callVars, readVars, mpVars>>

(* Mutant: the body is renamed before its last part is in it.              *)
RenameAssemblyEarly(r) ==
  /\ pc[r] = "assemble"
  /\ objects' = [objects EXCEPT ![Bkt(r)][Key(r)] = otmp[r]]
  /\ otmp' = [otmp EXCEPT ![r] = None]
  /\ Goto(r, "asm_meta_temp")
  /\ UNCHANGED <<dirVars, meta, mtmp, callVars, readVars, mpVars>>

RenameAssembly(r) ==
  /\ pc[r] = "assemble"
  /\ Len(parts[r]) = Len(list[r])
  /\ objects' = [objects EXCEPT ![Bkt(r)][Key(r)] = otmp[r]]
  /\ otmp' = [otmp EXCEPT ![r] = None]
  /\ Goto(r, "asm_meta_temp")
  /\ UNCHANGED <<dirVars, meta, mtmp, callVars, readVars, mpVars>>

CreateAssemblySidecarTemp(r) ==
  /\ pc[r] = "asm_meta_temp"
  /\ \/ /\ Bkt(r) \in mdir
        /\ mtmp' = [mtmp EXCEPT ![r] = Full(r)]
        /\ Goto(r, "asm_meta_rename")
     \/ /\ Bkt(r) \notin mdir \/ IoFaults
        /\ Return(r, "Io")
        /\ UNCHANGED mtmp
  /\ UNCHANGED <<dirVars, objects, meta, otmp, callVars, readVars, mpVars>>

(* Mutant: the staging directory goes though the sidecar was not renamed.  *)
RenameAssemblySidecarForgotten(r) ==
  /\ pc[r] = "asm_meta_rename"
  /\ Goto(r, "rm_scan")
  /\ mtmp' = [mtmp EXCEPT ![r] = None]
  /\ UNCHANGED <<dirVars, objects, meta, otmp, callVars, readVars, mpVars>>

RenameAssemblySidecar(r) ==
  /\ pc[r] = "asm_meta_rename"
  /\ meta' = [meta EXCEPT ![Bkt(r)][Key(r)] = mtmp[r]]
  /\ mtmp' = [mtmp EXCEPT ![r] = None]
  /\ Goto(r, "rm_scan")
  /\ UNCHANGED <<dirVars, objects, otmp, callVars, readVars, mpVars>>

AssemblySidecarError(r) ==
  /\ IoFaults
  /\ pc[r] = "asm_meta_rename"
  /\ Goto(r, "meta_unlink")
  /\ UNCHANGED <<dirVars, fileVars, callVars, readVars, mpVars>>

-----------------------------------------------------------------------------
(***************************************************************************)
(* abort_multipart_upload, and remove_dir_all, which complete runs too and *)
(* whose failure complete ignores.                                         *)
(***************************************************************************)
AbortUpload(r, u) ==
  /\ AcceptMp(r, "abort", None, None, u)
  /\ Goto(r, "rm_scan")
  /\ UNCHANGED <<dirVars, fileVars, readVars, stagingVars, partNo, list, mpReadVars>>

RemovalEnds(r, result) ==
  Return(r, IF req[r].op = "complete" THEN "Ok" ELSE result)

ScanStaging(r) ==
  /\ pc[r] = "rm_scan"
  /\ \/ /\ up[r] \in udir
        /\ entries' = [entries EXCEPT ![r] = StagingEntries(up[r])]
        /\ Goto(r, "rm_entry")
     \/ /\ up[r] \notin udir
        /\ RemovalEnds(r, "NoSuchUpload")
        /\ UNCHANGED entries
  /\ UNCHANGED <<dirVars, fileVars, callVars, readVars, stagingVars, mpCallVars, parts>>

Unlink(u, e) ==
  /\ umeta' = IF e.kind = "meta" THEN [umeta EXCEPT ![u] = None] ELSE umeta
  /\ ufile' = IF e.kind = "part" THEN [ufile EXCEPT ![u][e.no] = None] ELSE ufile
  /\ utmp'  = IF e.kind = "temp" THEN [utmp EXCEPT ![e.of] = None] ELSE utmp

(* An entry that is gone already is skipped by newer standard libraries    *)
(* and an error (of kind NotFound) in older ones.                          *)
UnlinkEntry(r) ==
  /\ pc[r] = "rm_entry"
  /\ \E e \in entries[r] :
       \/ /\ e \in StagingEntries(up[r])
          /\ Unlink(up[r], e)
          /\ entries' = [entries EXCEPT ![r] = @ \ {e}]
          /\ UNCHANGED ctlVars
       \/ /\ e \notin StagingEntries(up[r])
          /\ entries' = [entries EXCEPT ![r] = @ \ {e}]
          /\ UNCHANGED <<umeta, ufile, utmp, ctlVars>>
       \/ /\ e \notin StagingEntries(up[r])
          /\ RemovalEnds(r, "NoSuchUpload")
          /\ UNCHANGED <<umeta, ufile, utmp, entries>>
  /\ UNCHANGED <<dirVars, fileVars, callVars, readVars, udir, mpCallVars, parts>>

RemoveStagingDir(r) ==
  /\ pc[r] = "rm_entry"
  /\ entries[r] = {}
  /\ \/ /\ up[r] \notin udir
        /\ RemovalEnds(r, "NoSuchUpload")
        /\ UNCHANGED udir
     \/ /\ up[r] \in udir
        /\ StagingEntries(up[r]) = {}
        /\ udir' = udir \ {up[r]}
        /\ RemovalEnds(r, "Ok")
     \/ /\ StagingEntries(up[r]) # {}
        /\ RemovalEnds(r, "Io")
        /\ UNCHANGED udir
  /\ UNCHANGED <<dirVars, fileVars, callVars, readVars, umeta, ufile, utmp,
                 mpCallVars, mpReadVars>>

-----------------------------------------------------------------------------
(***************************************************************************)
(* At start-up one upload to an existing bucket is unfinished, with any of *)
(* its parts there; clients may also begin others.                         *)
(***************************************************************************)
MpInit ==
  /\ Init
  /\ udir = {Old}
  /\ \E b \in bdir, k \in Keys :
       umeta = [u \in Uploads |-> IF u = Old THEN [bkt |-> b, key |-> k] ELSE None]
  /\ \E P \in SUBSET PartNos :
       ufile = [u \in Uploads |-> [p \in PartNos |->
                  IF u = Old /\ p \in P THEN Old ELSE None]]
  /\ utmp = [r \in Reqs |-> None]
  /\ up = [r \in Reqs |-> None]
  /\ partNo = [r \in Reqs |-> None]
  /\ list = [r \in Reqs |-> <<>>]
  /\ parts = [r \in Reqs |-> <<>>]
  /\ entries = [r \in Reqs |-> {}]

MpIssue(r) ==
  \/ \E b \in Buckets, k \in Keys : CreateUpload(r, b, k)
  \/ \E u \in KnownUploads :
       \/ \E p \in PartNos : UploadPart(r, u, p)
       \/ \E k \in Keys, l \in PartLists : CompleteUpload(r, u, k, l)
       \/ AbortUpload(r, u)

MpAdvance(r) ==
  \/ MakeStagingDir(r) \/ WriteUploadMeta(r)
  \/ CreatePartTemp(r) \/ RenamePart(r) \/ UnlinkPartTemp(r)
  \/ EnsureObjectsDir(r) \/ CreateAssemblyTemp(r) \/ ReadPart(r) \/ RenameAssembly(r)
  \/ CreateAssemblySidecarTemp(r) \/ RenameAssemblySidecar(r)
  \/ ScanStaging(r) \/ UnlinkEntry(r) \/ RemoveStagingDir(r)

MpFault(r) == PartError(r) \/ AssemblyError(r) \/ AssemblySidecarError(r)

AnyAdvance(r) == (Advance(r) /\ UNCHANGED mpVars) \/ MpAdvance(r)

MpNext ==
  \/ \E r \in Reqs :
       \/ MpIssue(r) \/ MpAdvance(r) \/ MpFault(r)
       \/ (Issue(r) \/ Advance(r) \/ Fault(r)) /\ UNCHANGED mpVars
  \/ Quiescent /\ UNCHANGED mpVars

MpSpec == MpInit /\ [][MpNext]_allVars

(* As in FairSpec: an issued request's next step is weakly fair.           *)
MpFairSpec == MpSpec /\ \A r \in Reqs : WF_allVars(AnyAdvance(r))

-----------------------------------------------------------------------------
(***************************************************************************)
(* Properties.                                                             *)
(***************************************************************************)
Calls(op, u) == {r \in Reqs : req[r].op = op /\ up[r] = u}

(* A multipart request that returns, on any path, leaves no temporary file *)
(* in objects/, meta/ or the staging directory of its upload.              *)
MpNoTempLeak ==
  NoTempLeak /\ \A r \in Reqs : pc[r] = "done" => utmp[r] = None

(* A successful complete has read one file per listed number, in ascending *)
(* order, and of each number the last upload: if an upload_part of that    *)
(* number succeeded before the complete was issued, and every other one of *)
(* that number ended before it or was issued after the complete, then its  *)
(* part and no other is in the object.                                     *)
PartUploads(u, p) == {w \in Calls("upload_part", u) : partNo[w] = p}

CompleteUsesLastParts ==
  \A c \in Reqs :
    req[c].op = "complete" /\ Succeeded(c)
      => /\ Len(parts[c]) = Len(list[c])
         /\ \A i \in 1..Len(list[c]) :
              LET W == PartUploads(up[c], list[c][i])
              IN  /\ parts[c][i] \in W \cup {Old}
                  /\ \A w \in W :
                       /\ Succeeded(w)
                       /\ w \in before[c]
                       /\ \A x \in W \ {w} : x \in before[w] \/ c \in before[x]
                       => parts[c][i] = w

(* An upload is never lost.  As long as nobody aborts it, either it is     *)
(* intact, so that a complete can be (re)tried, or the object it was       *)
(* completed to is stored with its sidecar: complete removes the staging   *)
(* directory only after both, so that a crash or an error anywhere in a    *)
(* complete, or a second complete racing the first, loses nothing.         *)
Intact(u) ==
  /\ umeta[u] # None
  /\ \A w \in Calls("upload_part", u) : Succeeded(w) => ufile[u][partNo[w]] # None

Stored(u) ==
  \E c \in Calls("complete", u) :
    /\ c \in Writers(Bkt(c), Key(c))
    /\ Writers(Bkt(c), Key(c)) \subseteq Calls("complete", u)
       => LET C == {Full(x) : x \in Calls("complete", u)}
          IN  Bkt(c) \in Buckets /\ objects[Bkt(c)][Key(c)] \in C /\ meta[Bkt(c)][Key(c)] \in C

UploadsAreNotLost ==
  \A u \in KnownUploads : Calls("abort", u) # {} \/ Intact(u) \/ Stored(u)

(* A successful abort is final: nothing of the upload is left, and no part *)
(* that was on its way when the directory was removed appears later; every *)
(* later request about the upload is told that it does not exist.          *)
AbortIsFinal ==
  \A a \in Reqs :
    req[a].op = "abort" /\ Succeeded(a)
      => /\ up[a] \notin udir
         /\ StagingEntries(up[a]) = {}
         /\ \A r \in Reqs : a \in before[r] /\ up[r] = up[a] /\ pc[r] = "done"
                              => res[r] = "NoSuchUpload"

(* A comment of complete_multipart_upload says that the bucket "was        *)
(* validated at create_multipart_upload time": a complete during which no  *)
(* bucket operation runs finds the bucket of its upload.                   *)
CompleteFindsItsBucket ==
  \A c \in Reqs :
    pc[c] = "mk_odir" /\ BucketOps(Bkt(c)) \subseteq before[c] => Bkt(c) \in bdir

=============================================================================
