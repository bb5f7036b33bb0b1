-------------------------------- MODULE Links --------------------------------
(***************************************************************************)
(* A user of the object browser, from link to link: folders, breadcrumb,   *)
(* pages and filter (ui/src/pages/object_browser.rs and its components),   *)
(* downloads and uploads (the routes of server/src/main.rs), and presigned *)
(* URLs of the page and of the command line (storage/src/presign.rs).      *)
(*                                                                         *)
(* What the modules below compute is put to use here: a link is right when *)
(* what it was made from comes out again at its other end.  The store only *)
(* grows, by uploads; storage itself is the subject of FsStorage.          *)
(***************************************************************************)
EXTENDS Names, Calendar, Listing

CONSTANTS
  BucketNames,  \* names a bucket is asked for
  Stores,       \* sets of keys clients have tried to store
  FileNames,    \* names of local files
  Filters,      \* what the user types as a prefix
  MintTimes,    \* when presigned URLs are made
  Lifetimes,    \* the values of --expires-in
  Delays,       \* how long after that they are used, in seconds
  MaxStored     \* bound: the objects in the bucket

ASSUME LinksAssumption ==
  /\ \A S \in Stores : IsFiniteSet(S) /\ S \subseteq Seq(0..127) \ {<<>>}
  /\ BucketNames \cup FileNames \cup Filters \subseteq Seq(0..127)
  /\ MintTimes \subseteq Instants
  /\ \A name \in FileNames : name # <<>> /\ Slash \notin ToSet(name)
  /\ Lifetimes \cup Delays \cup {MaxStored} \subseteq Nat

VARIABLES
  bucket,   \* the bucket looked at
  stored,   \* the keys of its objects
  at,       \* the prefix and the continuation token of the page
  typed,    \* the prefix was typed, or comes from one that was
  seen,     \* the rows shown since the first page of this prefix
  quiet,    \* nothing was stored since then
  url,      \* the presigned URL just made, or None
  last      \* what the last request was for, and what it was about

vars == <<bucket, stored, at, typed, seen, quiet, url, last>>

NoRequest == [by |-> "nobody", wanted |-> None, got |-> None, late |-> FALSE]

-----------------------------------------------------------------------------
(***************************************************************************)
(* Pages of the browser.                                                   *)
(***************************************************************************)
Query(prefix) == [prefix |-> prefix, delimiter |-> <<Slash>>, max |-> PageLimit]

Shown(S, page) == Page(S, Query(page.prefix), page.token)

Rows(S, page) ==
  LET p == Shown(S, page)
  IN  ObjectsOf(p, Query(page.prefix)) \cup PrefixesOf(p, Query(page.prefix))

(* What a query value is once it has been in a link.                       *)
Through(s) == IF s = None THEN None ELSE PercentDecode(QueryEncode(s))

Segments(prefix) ==
  LET pieces == Split(prefix, Slash)
  IN  FlattenSeq([i \in DOMAIN pieces |->
        IF pieces[i] = <<>> THEN <<>> ELSE << pieces[i] >>])

(* Mutant: a crumb leads to its own segment only.                          *)
CrumbPrefixAlone(segments, i) == segments[i] \o <<Slash>>

CrumbPrefix(segments, i) == Join(SubSeq(segments, 1, i), Slash) \o <<Slash>>

(* Mutant: the link to the next page forgets the prefix.                   *)
NextHrefUnprefixed(page) == [prefix |-> <<>>, token |-> Through(Shown(stored, page).next)]

NextHref(page) ==
  [prefix |-> Through(page.prefix), token |-> Through(Shown(stored, page).next)]

Init ==
  /\ bucket \in {b \in BucketNames : ValidBucketName(b)}
  /\ stored \in {{k \in S : Accepted(k)} : S \in Stores}
  /\ at = [prefix |-> <<>>, token |-> None]
  /\ typed = FALSE
  /\ seen = Rows(stored, at)
  /\ quiet = TRUE
  /\ url = None
  /\ last = NoRequest

GoTo(prefix) ==
  /\ at' = [prefix |-> prefix, token |-> None]
  /\ seen' = Rows(stored, at')
  /\ quiet' = TRUE
  /\ url' = None
  /\ last' = NoRequest
  /\ UNCHANGED <<bucket, stored>>

OpenFolder ==
  /\ \E folder \in PrefixesOf(Shown(stored, at), Query(at.prefix)) : GoTo(Through(folder))
  /\ UNCHANGED typed

OpenCrumb ==
  /\ LET segments == Segments(at.prefix)
     IN  \E i \in 1..(Len(segments) - 1) : GoTo(Through(CrumbPrefix(segments, i)))
  /\ UNCHANGED typed

(* The first crumb, or the cross in the filter.                            *)
OpenBucket ==
  /\ at.prefix # <<>>
  /\ GoTo(<<>>)
  /\ typed' = FALSE

Filter ==
  /\ \E t \in Filters : GoTo(t)
  /\ typed' = TRUE

NextPage ==
  /\ Shown(stored, at).next # None
  /\ at' = NextHref(at)
  /\ seen' = seen \cup Rows(stored, at')
  /\ url' = None
  /\ last' = NoRequest
  /\ UNCHANGED <<bucket, stored, typed, quiet>>

-----------------------------------------------------------------------------
(***************************************************************************)
(* Requests by path: the handlers of the console, its assets, and whatever *)
(* is left for S3.                                                         *)
(***************************************************************************)
DownloadRoute == <<100, 111, 119, 110, 108, 111, 97, 100>>
UploadRoute == <<117, 112, 108, 111, 97, 100>>

Target(by, pieces) ==
  [by     |-> by,
   bucket |-> PercentDecode(Head(pieces)),
   key    |-> PercentDecode(Join(Tail(pieces), Slash))]

(* A route takes a key that is not empty.                                  *)
Served(pieces) ==
  IF /\ Len(pieces) >= 4 /\ Join(SubSeq(pieces, 4, Len(pieces)), Slash) # <<>>
     /\ pieces[1] = Ui /\ pieces[2] \in {DownloadRoute, UploadRoute}
    THEN Target("console", Tail(Tail(pieces)))
  ELSE IF pieces[1] = Pkg THEN Target("assets", pieces)
  ELSE Target("s3", pieces)

ConsolePath(route, key) == Join(<< <<>>, Ui, route, bucket, key >>, Slash)

ObjectPath(key) == Join(<< <<>>, bucket, key >>, Slash)

Found(target) ==
  IF target.bucket = bucket /\ target.key \in stored THEN target.key ELSE None

ShownObjects == ObjectsOf(Shown(stored, at), Query(at.prefix))

Download ==
  \E key \in ShownObjects :
    /\ LET target == Served(Sent(ConsolePath(DownloadRoute, key)))
       IN  last' = [by |-> "download", wanted |-> key, late |-> FALSE,
                    got |-> IF target.by = "console" THEN Found(target) ELSE None]
    /\ url' = None
    /\ UNCHANGED <<bucket, stored, at, typed, seen, quiet>>

(* Mutant: prefix and name are put together like segments.                 *)
UploadKeySlashed(prefix, name) == IF prefix = <<>> THEN name ELSE prefix \o <<Slash>> \o name

UploadKey(prefix, name) == prefix \o name

(* A file is uploaded, and the page reloads.                               *)
Upload ==
  \E name \in FileNames :
    LET target == Served(Sent(ConsolePath(UploadRoute, UploadKey(at.prefix, name))))
        taken  == target.by = "console" /\ target.bucket = bucket /\ Accepted(target.key)
    IN  /\ Cardinality(stored) < MaxStored
        /\ stored' = IF taken THEN stored \cup {target.key} ELSE stored
        /\ last' = [by |-> "upload", wanted |-> name, late |-> FALSE,
                    got |-> IF taken THEN target.key ELSE None]
        /\ quiet' = (quiet /\ stored' = stored)
        /\ seen' = seen \cup Rows(stored', at)
        /\ url' = None
        /\ UNCHANGED <<bucket, at, typed>>

-----------------------------------------------------------------------------
(***************************************************************************)
(* Presigned URLs: a GET of a path, made at some time, good for so long.   *)
(***************************************************************************)
PresignUrl(key, time, expires) ==
  [key     |-> key,
   minted  |-> time,
   path    |-> ObjectPath(key),
   date    |-> AmzTimestamps(time).amzdate,
   scope   |-> AmzTimestamps(time).datestamp,
   expires |-> expires]

Minted(keys, expires) ==
  /\ \E key \in keys, time \in MintTimes : url' = PresignUrl(key, time, expires)
  /\ last' = NoRequest
  /\ UNCHANGED <<bucket, stored, at, typed, seen, quiet>>

(* The button of an object's panel.                                        *)
Presign == Minted(ShownObjects, 900)

(* ferrobucket presign, for any key.                                       *)
PresignOnCommandLine == \E expires \in Lifetimes : Minted(stored, expires)

After(time, delay) ==
  LET second == time.second + delay
  IN  [day |-> time.day + second \div SecondsPerDay, second |-> second % SecondsPerDay]

Age(stamp, now) ==
  SecondsPerDay * (now.day - ReadStamp(stamp).day) + now.second - ReadStamp(stamp).second

(* The verifier (s3s) signs the path anew, as it understands it.           *)
Verified(u, pieces, now) ==
  /\ u.path = PercentEncode(PercentDecode(Join(<< <<>> >> \o pieces, Slash)),
                            Unreserved \cup {Slash})
  /\ u.scope = u.date.date
  /\ Age(u.date, now) \in 0..u.expires

UseUrl ==
  /\ url # None
  /\ \E delay \in Delays :
       LET pieces == Sent(url.path)
           opens  == /\ Served(pieces).by = "s3"
                     /\ Verified(url, pieces, After(url.minted, delay))
       IN  last' = [by |-> "url", wanted |-> url.key, late |-> delay > url.expires,
                    got |-> IF opens THEN Found(Served(pieces)) ELSE None]
  /\ url' = None
  /\ UNCHANGED <<bucket, stored, at, typed, seen, quiet>>

Next ==
  \/ OpenFolder \/ OpenCrumb \/ OpenBucket \/ Filter \/ NextPage
  \/ Download \/ Upload
  \/ Presign \/ PresignOnCommandLine \/ UseUrl

Spec == Init /\ [][Next]_vars

-----------------------------------------------------------------------------
(***************************************************************************)
(* Properties.                                                             *)
(***************************************************************************)
(* A name that stands for itself in a path.                                *)
Plain(name) ==
  /\ ToSet(name) \cap {Hash, Percent, Question} = {}
  /\ ToSet(Split(name, Slash)) \cap {<<Dot>>, <<Dot, Dot>>} = {}

(* The files of objects can be told apart, and from their directory, its   *)
(* parent and temporary files, and give back their keys: listings name the *)
(* keys that were stored (encode.rs).                                      *)
FilesKeepTheirKeys ==
  \A k \in stored :
    /\ IsKeyFile(KeyFile(k)) /\ PercentDecode(KeyFile(k)) = k
    /\ Slash \notin ToSet(KeyFile(k))
    /\ Head(KeyFile(k)) # Dot
    /\ \A l \in stored : KeyFile(k) = KeyFile(l) => k = l

(* Following links only, a user never comes to an empty page: folders and  *)
(* crumbs lead to folders with objects in them, whatever their names, if   *)
(* no key has an empty segment (which the breadcrumb leaves out).          *)
LinksReachObjects ==
  (/\ ~typed
   /\ stored # {}
   /\ \A k \in stored : <<>> \notin ToSet(Front(Split(k, Slash))))
  => Rows(stored, at) # {}

(* Who turns the pages of a prefix to the last one has seen every object   *)
(* and every folder in it and nothing else, unless something was stored.   *)
PagesCoverFolder ==
  quiet /\ Shown(stored, at).next = None
    => seen = Direct(stored, Query(at.prefix)) \cup Collapsed(stored, Query(at.prefix))

(* A file uploaded in a folder becomes an object of the folder, under its  *)
(* own name, if it is accepted and can stand in a path.                    *)
UploadsLandOnPage ==
  (/\ last.by = "upload" /\ last.got # None
   /\ ~typed
   /\ Plain(at.prefix \o last.wanted))
  => /\ last.got \in Direct(stored, Query(at.prefix))
     /\ Last(Split(last.got, Slash)) = last.wanted

(* A download link opens its object, if the key can stand in a path.  So   *)
(* does a presigned URL, up to its last second and no longer, wherever its *)
(* stamp falls in the calendar; if the key has to be encoded it may open   *)
(* nothing, but only the percent sign leads to another object.             *)
LinksOpenTheirObject ==
  /\ last.by = "download" /\ Plain(last.wanted) => last.got = last.wanted
  /\ last.by = "url" =>
       /\ last.late => last.got = None
       /\ Percent \notin ToSet(last.wanted) => last.got \in {last.wanted, None}
       /\ (/\ ~last.late
           /\ Plain(last.wanted)
           /\ ToSet(last.wanted) \subseteq Unreserved \cup {Slash})
          => last.got = last.wanted
=============================================================================
