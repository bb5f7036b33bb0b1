# Verification of ferrobucket

ferrobucket is a single-node S3-compatible object store written in Rust. This
directory holds its TLA+ models, the TLC configurations that check them, and
TLAPS proofs of their most important properties.

## 1. Inventory

| component | source | state | operations | what makes it correct |
|---|---|---|---|---|
| `FsStorage`, buckets | `crates/storage/src/fs.rs` | one directory per bucket with `objects/`, `meta/`, `.bucket.json` | `create_bucket`, `delete_bucket`, `list_buckets` | a bucket is whole or absent after its last operation; deleting never destroys a live object |
| `FsStorage`, objects | `fs.rs`, `meta.rs`, `list.rs` | body file and JSON sidecar per key, temporary files | `put_object`, `get_object`, `head_object`, `delete_object`, `list_objects_v2` | no partial body is readable; body and sidecar agree after the last writer; reads see the last acknowledged write |
| multipart uploads | `fs.rs`, `multipart.rs` | staging directory `.uploads/<id>` with `_meta.json` and part files | create, upload part, complete, abort | the object is the listed parts in ascending order; staging outlives a failed completion; abort is final |
| listing algorithm | `list.rs` | none (a function of the directory) | pages by prefix, delimiter, token, `max_keys` | pages skip nothing, repeat no object, and come in order, whoever writes meanwhile |
| byte ranges | `range.rs`, `server/src/s3_impl.rs` | none | parse, resolve, 206/416 | never reads past the object, RFC semantics |
| key encoding, bucket names | `encode.rs`, `fs.rs` | none | `encode_key`, `decode_key`, `is_traversal_unsafe`, `validate_bucket_name` | injective, decode inverts encode, every object in a file of its own in `objects/` |
| ETag | `etag.rs` | running MD5 | update, finalize | external digest |
| presigned URLs | `presign.rs`, `ui/src/server_fns/presign.rs` | none | calendar, path, lifetime, signature | opens its object up to its last second, whatever the date |
| S3 adapter | `server/src/s3_impl.rs`, `error.rs` | none | maps S3 calls to `Storage` | every error reaches the client as its S3 code |
| HTTP server, CLI | `server/src/main.rs` | routes, configuration | `serve`, `presign` | a path reaches the handler its link was made for |
| UI upload endpoint, download proxy | `server/src/ui/` | none | dispatch on query parameters, streaming | each request reaches the intended operation and object |
| UI upload island | `ui/src/islands/upload_zone.rs` | entries, pending counter, reload effect | small and multipart uploads | every entry ends; the page reloads once all have |
| UI dialogs | `confirm_modal.rs`, `create_bucket_modal.rs`, `slide_over.rs` in `ui/src/islands/` | open, busy, name, error and metadata signals; calls under way | create, delete, presign, dismiss, open again | one call per dialog; a late answer destroys nothing; no dialog hangs |
| other UI islands | `ui/src/islands/` | theme, toasts, sidebar | - | presentation only |
| UI server functions | `ui/src/server_fns/` | none | list, delete, presign, settings | reflect the store |
| UI pages and components | `ui/src/pages`, `ui/src/components` | none (everything is in the URL) | folders, breadcrumb, filter, pages, links | following links reaches every object, and only what is there |

HTTP requests enter through the S3 adapter or the UI endpoints; each is served
by an asynchronous task of its own. All tasks share the data directory and
nothing else: there is no lock anywhere (`fs.rs:27-28`), so the file system's
atomic calls (rename, rmdir of an empty directory, unlink) are the only
synchronisation. A task is dropped, at any `await`, when its client hangs up.
The islands in the browser call the UI endpoints and server functions, which
call the same `Storage` trait.

### What is hard here

* **Interleavings of system calls.** An object is two files (body, sidecar) that
  are replaced one after the other; a bucket is five directory entries; a
  multipart upload is a directory that `complete` and `abort` take apart while
  parts are still renamed into it.
* **Partial failure.** Every system call may fail, every body stream may break
  off, every task may be dropped between two calls or with the process.
* **Stale state.** `delete_bucket` looks and then removes; `upload_part` looks at
  the directory once, before the body is streamed; `get_object` opens a body long
  after it has read the size; `complete` trusts a check of another request.
* **Paging** while keys come and go, with tokens that may name a deleted key.
* **Arithmetic** on `u64` offsets at 0 and at the largest value.
* **The browser** counts uploads in callbacks of many tasks, loses answers, and
  reloads the page; a dialog can be dismissed and opened again while its call
  runs, and a delete that succeeds reloads the page under uploads in progress.
* **Names** change their form on every way: a key is a file name, a piece of a
  path, a value in a query, a signed path, and has to be itself again at the end.
* **The calendar** of a presigned URL is computed by hand from the seconds since
  1970.

`PROJECT.json` lists every such hazard at the line where it bites, with the
properties that would catch it going wrong.

## 2. Modules

| module | models | extends / composes |
|---|---|---|
| `FsStorage` | buckets and objects: the system calls of eight operations and their interleavings | - |
| `Multipart` | the four multipart operations on the same data directory | extends `FsStorage`: every property of it can be checked with uploads in progress |
| `Server` | the handlers that make several storage calls: `delete_objects`, `head_bucket`, the console's bucket table | extends `FsStorage`: every call is a request of it, step by step among the others |
| `RangedGet` | a ranged get from header to reply, against a writer | - |
| `Listing` | one page of `list_objects_v2` as operators | - |
| `ListObjects` | a client that pages through a listing against puts and deletes, a system call at a time | extends `Listing` |
| `Names` | keys, file names, bucket names, and their escapes in paths and queries, as operators on bytes | - |
| `Calendar` | the presigner's date and time, as operators, and the Gregorian calendar they are measured by | - |
| `Links` | a user of the object browser, from link to link, and presigned URLs | extends `Names`, `Calendar`, `Listing`: what one of them writes another reads |
| `UploadContract` | what the console promises of a large upload (abstract) | - |
| `UploadIsland` | the upload zone in the browser, the network, and the endpoint | takes a storage operation as one step (its system calls are in `Multipart`); implements `UploadContract` |
| `Console` | a page with the three dialogs, the upload panel and the upload zone | extends `UploadIsland`: the dialogs reload the page its tasks run on |
| `MCFsStorage`, `MCMultipart`, `MCListObjects`, `MCServer`, `MCLinks` | constants and symmetry for TLC | |
| `FsStorageProofs`, `MultipartProofs`, `ServerProofs`, `RangedGetProofs`, `ListingProofs`, `ListObjectsProofs`, `ConsoleProofs`, `LinksProofs` | theorems and lemmas | each extends the module it is about, `ServerProofs` also `FsStorageProofs`, `ListObjectsProofs` and `LinksProofs` also `ListingProofs`; `ConsoleProofs` has those of `UploadIsland` too |

Operators called `...Beyond`, `...Skipped` and the like, under a comment
"Mutant:", are wrong variants of the definition that follows them. They are used
by nothing: put in place of it, each makes TLC report the property that guards
against it (`PROJECT.json`, "mutants").

### FsStorage: state and steps

The directory is `bdir`, `odir`, `mdir`, `bjson` (which directories exist, and
the inode and completeness of `.bucket.json`), `objects` and `meta` (body and
sidecar per key), `otmp` and `mtmp` (the temporary file of a request). A body is
abstracted to the request that wrote it and the number of its chunks that are
there; a sidecar to the body it describes. A request is `req` (operation, bucket,
key), `pc` (its next system call), `res`, and what it has read so far. `before`
is history: which requests had ended when this one was issued.

One action is one system call, named for it: `put_object` is `PutObject`,
`CreateBodyTemp`, `WriteChunk`/`BodyError`, `RenameBody`, `CreateSidecarTemp`,
`RenameSidecar`, with `UnlinkBodyTemp` and `UnlinkSidecarTemp` on its error paths;
`delete_bucket` is `CheckEmpty`, `RemoveObjectsDir`, `RecheckObjects`,
`RemoveMetaDir`, `RecheckMeta`, `RemoveBucketJson`, `RemoveBucketDir`. `Drop` ends a request anywhere without
clean-up except what Rust's destructors do: a hang-up, and (of all requests at
once, one after the other) a crash of the process.

### Multipart: state and steps

`udir`, `umeta`, `ufile`, `utmp` are the staging directories, their `_meta.json`,
part files and temporary files. A part's content is the request that uploaded it,
an assembled body the sequence of parts it was read from. `remove_dir_all` is
taken apart: it reads the entries, unlinks them one by one, and the final rmdir
fails when a part was renamed in meanwhile. Part lists may name a part twice or
be empty; the code sorts and keeps duplicates.

### RangedGet, Listing, ListObjects, UploadIsland

`RangedGet` has the arithmetic of `ByteRange::resolve` on wrapping `u64`s as
operators and a small state machine around it: the sidecar is read, the body is
opened later, the adapter resolves the range again for its headers, and a writer
may come in between. `Listing` has the filter, grouping and truncation of
`list.rs` as operators on sequences of characters; `ListObjects` has the client's
loop over pages as the state machine: `Scan` is the readdir and the page made of
it, `ReadSidecar` one sidecar, `FailPage` a missing one, `Deliver` the response.
Beside it run `writers`: a put adds a temporary file to `store` (the names in
`objects/`), renames it, and writes the sidecar; a delete unlinks body and
sidecar. `CutOff` ends either between two of these and cleans nothing up, `BodyError`
a put that unlinks its file. `always` and `ever` are history. `UploadIsland` has one task per file
(`pc`, `part`, `acked`, `status`), the signals `pending` and `anyDone`, the
reloading effect (`due`, `page`), the request a task awaits (`flight`), requests
nobody awaits any more (`stray`), and the server's side (`staging`, `stored`).

### The refinement: UploadIsland implements UploadContract

`UploadContract` knows three things of a file: what the panel shows, what is
stored, and whether an abort was acknowledged. It promises that a file is stored
whole in one step, is shown as done only after that, and is never stored once an
abort was acknowledged. `Contract == INSTANCE UploadContract WITH ...` in
`UploadIsland` maps `shown` to `status`, `object` to what the server has stored,
and `gone` to `aborted`. Parts, requests, answers, lost connections and reloads
are stutters. `UploadsKeepContract` is checked by the run `console`, and
`ContractIsKept` proves it for any number of files and parts.

### Console: state and steps

`view` says which page is open: the object browser, with uploads, the delete
dialog of a row and the slide-over panel, or the bucket list, with the delete
dialog of a bucket and the create dialog. `open` and `busy` are the open signals
and the loading signals of the dialogs; `calls` counts the server calls under
way. The two are separate because a dialog can be dismissed, and opened again,
while its call runs: dismissing changes `open`, never `busy`. An action is a
gesture of the user (`Gesture`), the start of a call (`Starts`), or the callback
that ends one (`Callback`, `Resume`), with every assignment the callback makes.
`ReloadPage` is `window.location().reload()`: the page goes on until `Reload`,
and then everything on it is gone (`PageEnds`) but requests on their way.

### Links: state and steps

The browser's state is its URL: `at` has the prefix and the token. Every link is
made by the code's own encoding (`QueryEncode`, the raw path of a download, the
signed path) and read by the code's, or axum's, decoding (`PercentDecode`); in
between a browser cuts off fragment and query and removes dot segments, leaving
an empty piece where the last is one (`Sent`, external). `Served` is the order of
the routes in `main.rs`; those of the console take a key that is not empty. The properties never
mention an encoding: a link is right when what it was made from comes out at its
other end. `stored` begins with the keys of a set that `Accepted` lets in, and
grows by uploads. `UseUrl` takes a presigned URL to the verifier (s3s, external)
after a delay.

### Server: state and steps

One handler (`handler`: its operation, bucket, list of keys and `quiet`) awaits one storage
call at a time (`call`), which is a request of `FsStorage` like any client's, and
goes on when that has returned: `KeyAnswered`, `HeadBucketAnswer`,
`ListBucketsReturned`, `RowReturned` take its result and make the next call in one
step, as the code does between two awaits. `todo` is what the loop has left,
`report` what it has collected (of a quiet `delete_objects` only the errors),
`answer` the response. The single-call handlers
are the requests of `FsStorage` and `Multipart` themselves. To other clients a
handler is no more than the calls it makes, so one is observed while two direct
clients work beside it. When its current call is dropped the handler is.

## 3. Runs

| run | question | bounds |
|---|---|---|
| `fs_store` | do body and sidecar stay together, and buckets whole, under all eight operations, with failing bodies and sidecar calls and drops? | 3 requests, 1 bucket (absent, empty or with an old object), 1 key, 1 chunk |
| `mp_parts` | are objects assembled from the right parts, is abort final, and do crashes, hang-ups or failing calls lose an upload? | 3 requests (`upload_part`, `complete`, `abort`), 2 parts |
| `mp_live` | does every request end, and is `complete` a writer like `put`? | 2 requests of any of the 12 operations, part lists that repeat a part, name two or none |
| `server_calls` | is a chain of storage calls right about what nobody changed meanwhile? | 1 handler of at most 3 calls, 2 buckets, 2 keys, lists of at most 2 keys, failing calls, no drops; `Bounds`: 1 client beside a `delete_objects`, 2 clients and 1 key in use beside the others |
| `get_ranges` | is every reply exact? | sizes 0..5, all ranges with offsets 0..5, largest u64 = 5 |
| `list_pages` | is nothing skipped and no object repeated, and does paging end? | all subsets of 4 keys, 1 temporary name, 2 prefixes, 2 delimiters or none, pages of 1 or 2, 2 puts or deletes |
| `console` | is what the panel says so while dialogs reload the page, is each call made once, do uploads keep their contract, does everything settle? | 1 small file and a large one of 2 parts; dialogs and uploads share a budget of 6: a call costs 2, a file 3 |
| `links` | does every link, download, upload and presigned URL end where it was made for? | 4 bucket names (two refused), 2 sets of keys (two keys refused), pages of 2 rows, at most 5 objects, 3 file names, 2 filters, 2 instants, URLs used in or one second after their lifetime |
| `fs_temps`, `fs_wedge`, `mp_resurrect`, `ui_refused` | violations: see section 6 | |

Why the bounds are enough. Requests interact in pairs, over the files of one key,
one bucket or one upload; the third request is the one that observes (a read, or
a later call that finds what two others left). Requests on different keys share
only the bucket's directories, which `fs_store` exercises. One chunk is enough
for a body to be absent, empty, or whole. Two parts are the least that can be
swapped, doubled or left out. `RangedGet`'s `u64` wraps at 5, so that every
boundary is met; its theorems hold for every width. The four keys of
`ListObjects` are two under a common prefix, one of them the prefix itself, an
object behind them and a key with the delimiter twice; `max_keys` 0 and 9 are
pages of one and of two, and two puts or deletes are enough to take away the key a
token names, to bring a new one under a prefix already listed, or to leave a torn
object beside a change. A small
file and a large one give the counter two concurrent changes, one of them beside
a chain of requests (its theorem holds for any number of files). The budget of
`Console` admits three calls, or a call beside an upload with room for no more,
or both files: one call that reloads, one that is late, one started in between;
the theorems on the dialogs have no bound. The keys of `Links` have what an
encoding can get wrong: a space, a percent sign followed by digits, a question
mark, a dot alone, `..`, three levels of folders, one key a prefix of another,
one too long for a file name (`NameMax` is 32 instead of 255). The instants are
the last second of February 29, 2024 and noon of January 1, 2100, the delays the
last second of a URL and the one after it; its theorems hold for all days, keys and names.

A handler's hazards come from one other client that changes what an
earlier call saw, and from a second that left something torn before; two buckets
are the least of which one can be torn and the other quiet, and a list of two keys
the least with another key after a failed one. The state constraint `Bounds` of
`MCServer` cuts off what no property tells apart: a `delete_objects` is explored with
two keys beside one other request at most (which may be a put of either key, or may create or
delete the bucket), the two listings beside two clients that use one
key between them. The theorems of `ServerProofs` have neither bound.

The constant `Reqs` bounds the number of calls (each is issued once), `Chunks`
the body, `CallReqs` and `MaxBatch` a handler's calls and list of keys, `PartNos` and `PartLists` the parts, `MaxWriters` the puts and deletes during a
listing, `Parts` the parts of a large file, `MaxSize` and `Offsets` a range,
`Budget` what a user does on a page of `Console`, `MaxStored` the objects of `Links`.

### What the properties say

*`FsStorage`*: `BodiesAreWhole` - no partial or mixed body is ever visible or
streamed. `NoTempLeak` - a request that returns leaves no temporary file.
`LastWriterWins` - a successful put or delete (or complete) that no other writer
of its key overlaps decides both body and sidecar. `ReadsSeeLastWriter` - a read that no writer
overlaps returns the last acknowledged write. `QuietListingIsExact` - so does a
listing. `LastBucketOpWins` - the last bucket operation decides.

*`Multipart`*: `CompleteUsesLastParts` - an object is the parts listed, in
order, each the last upload of its number that ended before. `UploadsAreNotLost` -
an upload disappears only through an abort or after its object was stored,
whatever fails. `AbortIsFinal` - after an abort nothing of the upload comes
back. `MpNoTempLeak` - `NoTempLeak` for parts and assembled bodies. `RequestsEnd` - every issued request ends.

*`Server`*: `BatchDeletesEveryKey` - `delete_objects` accounts for every key of its
list whatever happens to the others: by one entry each, in order, or, when asked to be quiet,
by its errors alone. A key it acknowledges (called deleted, or with `quiet` not
called an error) is gone unless a put overlapped, and an error is one of a call for
that key. Nothing is said of the body of a key reported as an error: either unlink
may be what failed (`fs.rs:483`, `fs.rs:491`). `HeadAgreesWithPut` - a `head_bucket`, which
reads every bucket's `.bucket.json`, and a `put_object`, which looks at one
directory, agree on a bucket nobody is changing, whatever is happening to the
others. `TableShowsQuietBuckets` - the table made of several listings has the
true row for each bucket nobody was changing, and fails only if some bucket was.

*`RangedGet`*: `WindowsAreWithin` - a resolved window lies in the object.
`ReplyIsExact` - a get no writer disturbs sends the bytes its range asks for, and
its headers say so.

*`ListObjects`*: `StableKeysAreListed` - a key that is there throughout is on some
page, itself or as its common prefix. `ListingIsOrdered` - across pages no object
comes twice and all come in order; a common prefix can come again, and does when a
key is put under it behind the token that covered it (`list.rs:89`), but only if a key
under it appeared meanwhile; nothing is listed that never was there, and no
temporary file as an object. `UndisturbedListingIsExact` - without writers the pages add
up to the one listing. `ListingEnds` - paging ends if from some time on every
object of the listing has its sidecar. The condition is needed and not always
met: a put cut off after its rename (between `fs.rs:394` and `fs.rs:404`), or a temporary
file left in `objects/` by a crash or still there while a body comes in, fails the page that
would show it (`list.rs:177`), for ever if it stays. `fs_temps` has the second
as a finding.

*`UploadIsland`*: `PendingCountsUnsettled` - the counter is the number of
unsettled uploads on every path of every task. `ReloadWaitsForAll` - the effect
never reloads the page under an upload. `LargeDoneIsStored`,
`LargeIsWholeOrAbsent`, `AbortedUploadsAreGone` - what the panel says and what is
stored agree, whatever the network lost. `UploadsKeepContract` - the refinement.
`UploadsSettle`, `SuccessReloads` - liveness.

*`Console`* checks all of these where dialogs reload the page as well, and:
`OneCallPerDialog` - dismissing and opening again never sends a delete or create
twice. `LateAnswerDiscardsNothing` - the answer to a create clears no name typed
meanwhile. `PanelShowsPending` - what the page waits for is in the panel.
`DialogsSettle` - no dialog stays busy.

*`Links`*: `FilesKeepTheirKeys` - `encode_key` is injective, `decode_key` its
inverse, and no file is hidden or outside. `LinksReachObjects` - following links
never ends on an empty page. `PagesCoverFolder` - turning all pages shows all of
a folder and nothing else. `UploadsLandOnPage` - an uploaded file becomes an
object of its folder. `LinksOpenTheirObject` - downloads and presigned URLs open
what they were made for, up to the last second of their lifetime.

### Fairness

`MpFairSpec`: the next step of an issued request is weakly fair, because the
runtime polls a ready task again and a blocking file call returns. That a client
keeps sending its body, or breaks the connection, is an assumption about the
environment: a stalled client holds its request for ever, and the code has no
timeout. Issuing requests, faults and drops are not fair. `ListObjects`: the
client keeps asking; nobody has to write. `UploadIsland`: the browser runs its
callbacks, ready tasks and effects, a reload that was ordered happens, and every
request is answered or its connection breaks (the browser's own timeout); the
user has to do nothing. On a page of `Console` one weak fairness of everything
that runs without the user (`Running`) is enough: each task, call and effect has
only finitely much to do, so that none can be passed over for ever.

## 4. Proofs

TLAPS checks these theorems for every value of the constants that satisfies the
named assumptions of the modules.

* `FsStorageProofs`: `TypeCorrect`. `TypeInv` adds to the types that a request
  past its first check has a bucket and a key (`Located`) and that a temporary
  file belongs to a step that holds one (`TempsHeld`).
* `FsStorageProofs`, writers: `BodiesAreAlwaysWhole`, `NoTempIsLeaked`,
  `LastWriterAlwaysWins`. The inductive invariant `WriterInv` is `TypeInv`,
  `Placed` (how much of its body a writer's temporary file has at each of its
  steps), `PredecessorsEnded`, `BodiesAreWhole` and `Ownership`. The last is the
  core: a writer that no other writer of its key overlaps finds, at each step,
  what its earlier steps left. `StepFootprint` says which files a step of a
  request can touch at all, so that only writers of the same key remain to be
  looked at; `OwnerUndisturbed` and `OwnerStep` are the steps of the others and
  its own.
* `FsStorageProofs`, readers and bucket operations: `ReadsAlwaysSeeLastWriter`,
  `LastBucketOpAlwaysWins`. `RequestInv` adds to `WriterInv` that a request is at a
  step of its own operation (`RunsOp`), what a reader that no writer overlaps has
  seen so far at each of its steps (`ReaderInv`: the sidecar it read is that of
  the last writer, and the body it opens then is too), and what a bucket operation
  that is alone has made or taken away (`HasBucket`).
* `FsStorageProofs`, listings: `QuietListingsAreExact`. A listing is exact only if
  its bucket was left in order, so that `ListingInv` also says what earlier
  requests leave behind: where writers of a key never overlapped, body and sidecar
  agree (`Agree`), and every temporary body belongs to a put (`TempsOwned`). `ListInv` then follows the scan: the names it took are the
  objects of the last writers, and each entry it resolved has the right sidecar.
* `MultipartProofs`: `NoMpTempIsLeaked`, `AbortsAreFinal`, `UploadsAreNeverLost`,
  `CompletesUseLastParts`. `StagingStep` gives the footprint of a step in the
  staging directories: only a `remove_dir_all` of an upload, or a part of it, can
  change them. `MpInv` is the state of a staging directory by what requests know
  of it: one that is gone is empty (`Staged`), and it stays gone after an abort,
  where every later request is refused (`Aborted`). The hard case is a part
  renamed into a directory that is being removed. `UploadInv` adds
  where a complete stands between body, sidecar and clean-up (`Progresses`),
  that an upload is intact until its object is safe (`Kept`: the order of the code,
  rename, sidecar, remove, is what makes this inductive), and which uploads a part
  file and a body under assembly can come from (`PartFiles`, `Reading`).
* `ServerProofs`: `BatchAlwaysDeletesEveryKey`, `HeadAlwaysAgreesWithPut`,
  `TableAlwaysShowsQuietBuckets`. `StoreInv` is about the calls alone and inductive
  for the storage's steps: `ListingInv`; a body deleted after the last put
  of its key stays gone (`Gone`); a bucket whose operations ran one at a time, and none of which is in
  between, has its `.bucket.json` if and only if it has its directory (`DirHasJson`); a table of the
  buckets names the quiet ones (`TableInv`), and a listing of a quiet bucket
  finds it (`RowInv`). `HandlerInv` is about the handler: its calls are made by
  nobody else and one at a time (`OneCallAtATime`), and its loops have for each
  item of their list a call that ended, the current one, or the item still to do
  (`BatchInv`, `FnInv`; `HeadInv` for `head_bucket`). For a batch, `Accounts` is
  what the report says of the keys done so far: each has a call that deleted it or stands
  among the errors, and an entry of either kind is backed by such a call. What a
  call did is not undone (`CallsStand`), and each answer adds its key to the
  account whether or not `quiet` drops its entry (`ReportGrows`).
* `RangedGetProofs`: `WindowsAlwaysWithin`, `RepliesAreExact`, resting on
  `ResolveExact`: the wrapping arithmetic computes exactly the intersection of
  range and object. The invariant carries from the sidecar's size to the body
  that is opened (`OpenInv`) and to the reply.
* `ConsoleProofs`, the island: `TypeCorrect`, `LargeDoneAlwaysStored`,
  `LargeAlwaysWholeOrAbsent`, `AbortedAlwaysGone`, `PendingAlwaysExact`,
  `ReloadAlwaysWaits`, `ContractIsKept`, for any number of files and parts. The
  stated properties are not inductive: what the panel says depends on what the
  server did for a request whose answer is on its way or lost. `IInv` adds that
  parts are posted in order (`PartsInOrder`), that a create or complete nobody
  awaits is followed by no other request of the file (`Strays`), and what the
  server has by what the task has come to (`OnServer`). The counter needs in
  addition that a chosen file's entry is in progress until its task settles, once
  (`Progress`, `TaskCounts`). The refinement takes each step of the island, under
  these invariants, to a step of the contract or to a stutter.
* `ConsoleProofs`, dialogs: `DialogsAskOnce`, `NoNameIsDiscarded`, for any number of
  calls and files. `DialogInv` is `CallsInv` (of each kind that is asked once, exactly
  one call is under way while its dialog is busy, and none otherwise) and
  `NameInv`. The first is inductive because no action but the start and the end of
  the call changes either side, and the end of the page takes both.
* `ConsoleProofs`, uploads: `PanelAlwaysShowsPending`, and that the theorems of
  the island hold on a page that dialogs reload: `PageKeepsUploads`,
  `PageReloadWaits`, `PageKeepsContract`. `PageInv` is the island's invariant with
  every unsettled upload in the panel (`Listed`). `DialogSteps` shows that a
  step of the page is a step of the island, none for it, or a reload ordered by a
  dialog, which the invariant, and the contract as a stutter, allow at any moment.
* `ListingProofs`: lemmas only. The order of keys as strings of characters is a
  strict total one, so that every finite set of keys has one sorted sequence
  (`InOrderSorts`, `SortedUnique`). The prefix that the code folds a key under is
  the shortest of its prefixes that ends with the delimiter (`GroupIsShortest`), and
  the keys between two keys of one group are of that group (`PrefixConvex`,
  `GroupsAdjoin`). From these, `PageIsExact`: a page that is followed by another shows the keys
  behind its token and up to the next token, all of them and nothing else, and the next
  token is the last key of its group; `PageSorts`: its entries are in order.
* `ListObjectsProofs`: `StableKeysAreAlwaysListed`, `ListingIsAlwaysOrdered`,
  `UndisturbedListingIsAlwaysExact`, for any finite set of keys, any page size and
  any interleaving of the system calls of puts and deletes with the pages. `ListInv`
  adds to the stated properties that a put's temporary name is no key (`Names`,
  `Writes`), that what was listed so far ends at the token (`ListedInv`), and that every key
  that was there throughout is listed or folded up to the token (`CoveredInv`).
  `TokenInv` says what a token is: the last key of its group among those that
  were there throughout, so that a prefix the next page repeats owes itself to a key
  that was not (`PrefixesInv`). Without writers nothing changes (`Unchanged`), so that no
  prefix is repeated and what is covered at the end is everything.
* `LinksProofs`, names: for words of any bytes and any length, what is
  percent-encoded comes back (`EncodeDecode`) in bytes that a file name may have
  (`EncodeBytes`), what is split comes back when it is joined (`JoinSplit`), a
  text split at a separator has the pieces of its two sides (`SplitConcat`), and a path without
  dot segments is sent as it is (`ResolvePlain`, `SentPlain`). These are inductions over
  the length. The library's induction theorems cannot be applied here, so they are
  put as statements about a set of numbers: a number that is missing from it would
  have a least one missing (`Climb`, `SeqClimb`), and a recursive function over
  0..n has a value by the same argument (`Recursion`).
* `LinksProofs`, stamps: `DatesAreExact`, `StampsAreExact`, for every day and instant
  from 1970 on. The calendar they are measured by counts days by leap years and
  lengths of months; it shares no formula with the code's eras. The code prints
  the year in four digits at least, so a stamp has its fixed width until the end
  of 9999.
* `LinksProofs`, the user: `LinksTyped`, and all five properties of `Links`, for any
  finite store, any names and any page limit. `FilesAreFaithful` and `LinksAreExact`
  rest on `TypeInv`: every stored key is accepted, and a presigned URL is one made
  for a stored key, which is what `UseUrl` has to know of it. For the rest the stated properties are not
  inductive. `PagesAreExhaustive` needs that the pages so far have shown what is
  up to the current token (`SeenInv`), with `PageIsExact` for one page more.
  `LinksLeadToObjects` and `UploadsAreShown` need `ReachInv`: unless a prefix was
  typed, the page's prefix is empty or ends with a slash, and a key under it
  lies behind the token. It is kept by a folder, because a common prefix has a key; by a crumb,
  because it leads to a prefix of the folder it is on (`CrumbIsFolder`, where
  keys without empty segments are needed); and by a next page, because a page that
  has a token leaves a key behind (`PageGoesOn`).

The assumptions on the constants are what the models mean by them: absent values
are no values (`None` is no file content, JSON or upload record), bounds are
numbers of the right sign, the bucket names a client can use are finitely many
(`ServerAssumption`), and requests are as many as one likes.

The constants of `Links` are any sets of words of bytes below 128, where a store is
finite and has no empty key, and a file name is not empty and has no slash
(`LinksAssumption`).

Only model-checked: the liveness properties (fairness is out of the prover's
reach). Every invariant and every other action property of the runs has a theorem.

## 5. Not modelled, and assumptions

* **Durability.** The code never calls fsync; a crash here is the end of the
  process, not a power failure, and every completed system call survives it.
* **A directory scan is a snapshot.** `readdir` is one step in listings, in
  `delete_bucket`'s check and in `remove_dir_all`; what POSIX leaves open for
  entries that change during a scan is not explored. `create_dir_all` is one step.
* **I/O errors** are modelled where the code reacts in a way of its own: body
  streams, sidecar writes, the unlinks of body and sidecar, missing directories. An I/O error of any
  other call returns `Io` at once and leaves what a drop at that point leaves.
* After a hang-up, a system call that is already running on its blocking thread
  completes; `remove_dir_all` then runs to its end, which is the behaviour of a
  request that is not dropped.
* Two creators of the same bucket writing one `.bucket.json` at the same time
  write the same bytes but for the time stamp; its content is whole or not.
* `Server` takes a listing whole. The code's table asks for one page, so it counts
  at most 1000 objects of a bucket (a listed hazard, `buckets.rs:55`). A batch
  delete that finds an object's sidecar without its body reports the key as
  deleted and leaves the sidecar, like `delete_object`; `BatchDeletesEveryKey`
  speaks of the body.
* `ListObjects` starts with a bucket in order, body and sidecar together; the puts
  and deletes beside it leave what torn state there is. A `complete_multipart_upload` is to
  it a put whose temporary file shows up later. Names of temporary files
  are no keys of clients. A token that was not handed out by a page is not passed.
* A listing inside `FsStorage` resolves its entries in any order; the order is
  the subject of `ListObjects`.
* `complete_multipart_upload` is called with the key its upload was created for
  (a request with another key is a listed hazard), and delimiters are not empty.
* A suffix range of length zero is an exception in `ReplyIsExact`: the code
  answers 200 with the whole object's Content-Length and no bytes. It is a listed
  hazard (`s3_impl.rs:166`).
* In `UploadIsland` a refused storage operation leaves nothing behind (what it
  can leave is the subject of `Multipart`); the progress signal is left out.
* In `Console` the answer to a call is a choice: what the server does for it is
  the subject of the storage modules. The second presign button
  (`slide_over.rs:442`) is not disabled while a URL is being made, and the panel
  asks for metadata again when it is opened again early, so presign and head calls
  can overlap; they change nothing, and `OneCallPerDialog` leaves them out. A
  create call that fails late writes its error into the dialog as it is opened
  by then (`create_bucket_modal.rs:83`), about a name no longer in the input.
* `Names` has bytes below 128. A longer character is escaped byte by byte, so it
  comes back whole; that the bytes are UTF-8 is Rust's `String`.
* In `Links` the store only grows, and a signature is taken to bind what it signs:
  the HMAC itself is not modelled. The browser, axum's path decoding and the
  verifier are external. Keys with `#`, `?`, `%` or dot segments stand raw in
  download and upload paths, which lead elsewhere or nowhere; keys with characters
  that a signed path would have to escape are signed as they are. The properties
  speak of the keys for which the code's links can work (`Plain`), and say of the
  others without a percent sign that a URL opens nothing else. The breadcrumb drops empty segments, so a
  crumb in `a//b/` leads to a prefix no key has; a prefix typed into the filter
  becomes part of the key of an uploaded file. Both are exceptions named in the
  properties (`typed`, the last condition of `LinksReachObjects`).
* A key whose encoding is 251 to 255 bytes long passes `encode_key`, but its
  sidecar, `.json` longer, has no file name: the put fails after its body was
  renamed. `FsStorage` has this as a failing sidecar call.
* `etag.rs` is a digest and has no behaviour to explore: bodies are told apart by
  their writer instead. The theme, toast, sidebar and copy-button islands, the
  bucket list and settings pages and the settings' probe file only present what is
  there. Of `main.rs`, argument parsing, start-up, anonymous mode and the embedded
  assets are left out, of `download.rs` the headers of the answer.

## 6. Where the code disagrees with its comments

| run | what happens | what the source says |
|---|---|---|
| `fs_temps` | a temporary file's name decodes as a key, so a listing during a put fails with `NoSuchKey` | `fs.rs:147-149`: invisible temp files that never decode |
| `fs_wedge` | an overlapping put and delete leave a sidecar alone; a later `delete_bucket` removes `objects/` and fails on `meta/`, for good | `fs.rs:357`: with `objects/` empty `meta/` should be empty too |
| `mp_resurrect` | a complete after a `delete_bucket` makes `objects/` again and stores the body in a bucket without `.bucket.json` | `fs.rs:640`: the bucket was validated at create time |
| `ui_refused` | `onload` fires for an error status; the refused upload is shown as done | `upload_zone.rs:389`: "Load (success)." |

Smaller ones, which no run is about:

* `encode.rs:5` and `:19` list hyphen, dot, low line and tilde as kept; the code
  escapes all but letters and digits. Files are found all the same.
* `confirm_modal.rs:54` warns that the objects of a bucket will be lost with it;
  `delete_bucket` refuses a bucket that is not empty.
* `slide_over.rs:167` says that a URL was copied even when the clipboard refused it.

## 7. Plan

1. Done: all modules of section 2, their runs, and the proofs of section 4.
2. A complete whose request names another key than its upload (`fs.rs:643`): a
   second key in `Multipart`'s requests, and what is then true of body and sidecar.
3. An abstract store with atomic puts, deletes and gets, which `FsStorage` implements
   for the keys whose requests do not overlap; `LastWriterWins` and `ReadsSeeLastWriter`
   say as much request by request.
4. The settings' server functions, as far as they read what storage writes.
