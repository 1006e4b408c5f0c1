# A TLA+ model of asio-http-file-server

The server (`src/src`, `src/include`; about 2,700 lines of C++20) serves the files
below one directory over HTTP, with a JSON interface and a part of WebDAV for
changing them. This directory holds TLA+ modules that model it, configurations
that check them with TLC, and proofs that TLAPS checks.

    tlc -workers 2 -config MCFileApi.cfg MCFileApi.tla
    tlc -workers 2 -config MCRequestStream.cfg MCRequestStream.tla
    tlapm RequestStreamProofs.tla

## 1. The system

### Components, their state and operations

| Component | State | Operations | Correct when |
|---|---|---|---|
| `HttpFileSystem` (`http_file_system.cpp`) | `root_path_`; the files of the host | `move_file`, `copy_file`, `delete_file`, `create_directory`, `get_file_entry`, `list_directory` | changes stay in the root, touch only what is named, are complete or reported as failed |
| `MyProto` (`my_proto.cpp`) | `data_`, the JSON body at hand | `/file/copy`, `/file/move`, `/file/delete`, `/directory/create`, listing | refuses before it changes; status follows the outcome |
| `WebDavProto` (`web_dav_proto.cpp`) | none that outlives a request | MOVE, COPY, DELETE, MKCOL, PROPFIND, PROPPATCH, LOCK; entity tags | as above; `Overwrite` and `Destination` respected; every href leads back to its resource |
| `BaseProto` (`base_proto.h`) | the `HttpFileSystem` | delegation | – |
| `HttpSession`, uploads (`process_put_request`) | the open file, what has been received | conditions, truncation, body, answer | no lost update, exclusive creation, success means stored |
| `HttpSession`, downloads (`process_get_request`, `parse_range`, `write_fixed_body`) | the open file, what has been sent | sizing, Range, body | what is sent is what the header promised |
| `HttpSession`, request loop (`handle_session`, `read_*`) | `buf_`, the bytes received and not used | cutting requests and bodies out of a stream | one request is never read as part of another |
| `HttpFileServer`, `main` | the acceptor, `root_path_`; the process's working directory and descriptors | accept, start a session | clients go on being accepted |
| `Parser`, `Maker`, `http_base` | none | text of messages, URL coding, MIME types | inverse to each other where both exist |
| `third_party` | – | asio, nlohmann/json, pugixml | vendored, not modelled |

### How they interact, and what is hard about it

There is one thread: `HttpFileServer::start` calls `io_context::run` once. Every
session is a coroutine (`HttpSession::start`), so a handler is atomic between two
`co_await`s and another session's steps fall only between them. That divides the
system in two:

* **Handlers that never suspend before their answer** once their request is there:
  move, copy, delete, mkdir. They cannot be interleaved with anything, but they
  make several calls of `std::filesystem`, each of which may fail with the earlier
  ones done; a recursive copy is many such calls. What is hard is partial failure,
  the order of checks and changes, and sequences of requests whose trees nobody
  thought of. *Module `FileApi`.*
* **Handlers that suspend for every piece of a body**: PUT and GET. What they read
  before the first suspension (existence, tag, size) is used after it, while other
  sessions upload, delete, move and copy the same files. *Module `Transfer`.*

Around both there are two more concurrent activities:

* **The request loop of a session.** Bytes arrive in pieces that have nothing to do
  with where requests end; four readers (`read_request`, `read_until`, and two for
  bodies) share `buf_`, and each must leave in it what belongs to the next. The
  client may send ahead, hold a body back until it is told to continue, or go away
  at any byte. *Modules `RequestFifo` (what a connection promises) and
  `RequestStream` (how the code keeps it).*
* **The accept loop**, which for every new session needs a descriptor, the working
  directory and the served directory, while the sessions hold descriptors and change
  the files, those directories included. *Module `Server`.*

Three pure computations have edges of their own: the arithmetic of `Range`, with
machine integers that wrap around (*module `ByteRange`*), the coding of URLs (*module
`UrlCodec`*), and what both protocols make of a directory (*module `Listing`*).

The hazards of the code are listed in `PROJECT.json`, each at its line, with the
properties that would catch it going wrong.

## 2. The modules

    FileTree ── FileApi ── MCFileApi        (runs file_api, deep_copy, failure_keeps_source)
       │           ├────── Server ── MCServer              (run server)
       │           │          └───── ServerProofs ──┐
       │           └────── FileApiProofs ───────────┘
       └── FileTreeProofs ──┘
    Transfer ── MCTransfer                  (runs transfer, transfer_names and three more)
       └─────── TransferProofs
    RequestFifo ── RequestStream ── MCRequestStream        (run request_stream)
                       └─────────── RequestStreamProofs
    UrlCodec ── Listing ── MCListing        (run listing)
                   └────── ListingProofs
    ByteRange ── ByteRangeProofs            (run byte_range)
    SequenceLemmas                          (for the proofs on FileApi, RequestStream, Listing)

**`FileTree`** models `std::filesystem` as the server uses it (libstdc++ on POSIX),
as operators on a function from paths to nothing, a directory or a file with a
content. It is external to the repository. Each call is an operator with its
error cases (`CanRename`, `CopyFails`, ...). `Path` is bounded by `MaxDepth`, which
stands for the longest path the host accepts: this is what ends a copy of a
directory into itself.

**`FileApi`** models the four changing operations, over both protocols. `tree` is
the host's files, `req` the request, `old` the tree when it arrived, `code` the
status. `Refusal` holds the early returns in the order of the code: missing fields,
(JSON only) a missing source, a path outside of the root, a missing source, an
existing destination without overwrite. `MoveFile`, `DeleteFile` and
`MakeDirectory` are one step each; `StartCopy` clears a destination of the other
type, then each `CopyEntry` is one call of the recursion of `fs::copy`, in every order
the entries of a directory may be read in, until an error or `ReturnFromCopy`.

**`Transfer`** models PUT and GET of several sessions. A file name leads to an inode,
an inode has blocks and a modification time; open files keep their inode, as on
POSIX. `AcceptPut` is everything from the first line of `process_put_request` to
the opening (and truncation) of the file; `ReceiveBlock` is one piece of a body, fixed
or chunked, that goes to the file or stays in the stream's buffer; `FinishPut` closes
the file and chooses the status; `AbortPut` is a broken connection or a malformed
chunk, after which `Close` ends the session. `OpenForRead` announces a size and a tag;
`SendBlock` and `FinishGet` are the loop of `write_fixed_body`. `Look` is a client
that learns a tag (HEAD, PROPFIND). `Delete`, `Move` and `Copy` are what other
requests do to the names meanwhile. A request carries at most one of the three
condition headers; refusals with 400 and 500 leave the same state as the one with
412 and are not told apart.

A session starts with any of the files present, so that a conditional upload has
something to overwrite.

**`RequestFifo`** is the abstract specification of a connection: requests are sent,
served one by one in that order, each with exactly its own body, none after the one
at which the connection ends.

**`RequestStream`** models the session that implements it. Bytes are grouped into
the units the code tells apart (a CRLF, a request line with its fields, the size on
a chunk line, a byte of data); a body may contain any of them, so a body that is not
read shows up as a request. `pc` is the place in `read_request`, `read_until`,
`read_chunked_body` or `read_fixed_body` where the coroutine waits; `buf` is `buf_`.
`Receive` is the arrival of any number of bytes; `ReadRequest` cuts off a header and
dispatches on the kind of its method; `AcceptPut` answers "100 Continue" if asked
to; `RefusePut` is every refusal of a PUT, all of which end the connection;
`TakeBuffered`, `ReadPiece` and `EndFixed` are `read_fixed_body`; `ReadSize`,
`ReadChunkEnd` and `ReadTrailer` the steps of `read_chunked_body`; `Handle` runs the
handler and writes the answer. `Hangup` loses any suffix of what is on the way.
What clients send is well formed (a `Content-Length` is a number and true); text that
is not one request comes up all the same, from bodies that were not read.

*The refinement* (`ImplementsFifo`): the sequence of served requests is the
history `handled`, each entry with the body that was collected. The
handlers of GET, HEAD, DELETE, MKCOL, COPY, MOVE, OPTIONS and UNLOCK do not look for
a body; after such a request came with one, the server takes its bytes for the next
request, and the promise ends there: `InStep` is `handled` up to and including the
first such request. Up to it, the refinement holds for every kind of request and
every split of the bytes.

**`Server`** composes the accept loop with `FileApi`. `given` says whether the server
was started with `root_path`; `cwd` is where the working directory of the process is.
`Connect` puts a client into the host's backlog; `Accept` makes a session and gives it
the root. A session is made with `fs::current_path` (`http_file_server.cpp:40` leads to
`http_file_system.cpp:232`), also if it is then given a root, and `fs::canonical` of the
root: `CanStartSession`. If one of them throws (`AcceptThrows`), that ends
`start_accept` for good (the coroutine is detached, the exception dropped), while
sessions go on. `AcceptFails` is an error of `async_accept` for want of a descriptor:
the connection stays in the backlog, and `Retry` is the loop that goes round.
`FileStep` is a step of `FileApi` for some session, with what the host makes of the
working directory: it moves with the directories it lies in, and once it is removed the
process has none, even if another directory takes its name (`WorkingDir`). `Exit` is
the end of `io_context::run`, when the last session is over.

**`UrlCodec`** models `url_encode`, `url_decode`, the target in `parse_request` and
`make_encoded_path` on sequences of bytes.

**`Listing`** models GET of a directory and PROPFIND. The host yields the entries in
any order; `ReadEntry` is one turn of the loop of `list_directory` with the error
code that all turns share; `EndRead` puts what was read into an order in which nothing
follows what it precedes, which is what `std::sort` guarantees; `AnswerJson` and
`AnswerMultistatus` build the answer. A `Response` has the path, the displayname and, of
the properties asked for, those the resource has and those it lacks, as the chain of
`append_response_properties` sorts them (`Found`, `None`); the values of the others are not
modelled. `get_requests` follows the code in which elements it finds by which prefix,
and in that it keeps of a property's name only what follows the prefix. Entries are directories, files or links to nothing; "." and ".." are
none, as `fs::directory_iterator` leaves them out.

**`ByteRange`** models `parse_range` and the answer built from it, with `size_t` and
`unsigned long long` of any width. A header is abstracted to what `stoull` makes of its
two fields.

Operators whose comment says *mutant* are not part of the model: each is the
definition after it with a plausible mistake, kept to show that a property
notices the mistake.

## 3. What is checked

| Run | Bounds | Properties |
|---|---|---|
| `file_api` | two names, three levels, two contents; every tree of two levels below the root as start state; root `/a`, requests on every path in it and on two outside | `TypeOK`, `NoCollateral`, `MoveIsAtomic`, `Confined` |
| `deep_copy` | two names, four levels, one content, one copy from every tree over eight paths below the root | `CopyIsComplete`, `CopyMerges`, `CopyTerminates` |
| `transfer` | two sessions, one file, two blocks, two uploads, two inodes; no file at the start | `TypeOK`, `ExclusiveCreate`, `NoLostUpdate`, `EtagNamesBody`, `EtagTellsChange`, `UploadIntact`, `PartIsPrefix` |
| `transfer_names` | two sessions, two files of which one or both exist, one block, one upload, two inodes, fairness, no symmetry | `NoLostUpdate`, `UploadIntact`, `TransfersEnd` |
| `request_stream` | two requests out of seven on a connection, pieces of any size, `kIoChunkSize` of 2, `size_t` of two bits | `TypeOK`, `CountExact`, `ImplementsFifo`, `SentIsAnswered` |
| `server` | two clients and a descriptor for one session, a root with up to two entries and a directory next to it; started in the root, below it or next to it, with or without `root_path` | `ServerTypeOK`, `StopsOnlyIfNamed`, `EveryoneIsAccepted` |
| `listing` | every directory of up to two out of five names (a space and a plus, an escape, not UTF-8 with a question mark, a backslash), each a directory, a file or a dead link, at the root or below a directory whose name may be a backslash; every target in it, four documents (none, no propfind, allprop under another prefix, properties under several prefixes), every depth; all texts of one byte and of up to four special ones | `HrefNamesEntry`, `ListingExact`, `SameAlone`, `UrlRoundTrip` |
| `byte_range` | `size_t` of 3 bits, `unsigned long long` of 4, numbers to 17 | `RangeInFile`, `RangeExact` |

*Why these bounds are enough to be interesting.* In `file_api` three levels allow a
path, one above it and one below it, in both roles; requests go on from whatever
the last one left, so the runs visit every tree, including the one whose root is
deleted. Copies differ from moves by recursion, hence the deeper trees. In
`transfer` two uploads and two blocks allow each of the two to be between the
other's blocks, and two inodes allow a file that is deleted and made again while it
is still written to; `MaxTime` leaves room for a second upload after the first has
written. `transfer_names` needs two names for a move or a copy; files that exist at
the start make a second upload unnecessary. Sessions and files are interchangeable,
which the runs of `Transfer` without liveness use (`Symmetry`). In `request_stream` a
second request is what the first one's leftover bytes could be mistaken for; the
seven requests cover each kind of handler, each framing, a trailer, a body that reads
like a request, one that contains the end of a header, "Connection: close",
"Expect: 100-continue" for PUT and for POST, and chunks whose sizes add up beyond
`size_t`; bodies are longer than a piece of the socket. In `server` one client may have
the only descriptor while another waits, and the root and the working directory may be
deleted, replaced and made again, the working directory also moved; it lies in the
root, is the root, or lies elsewhere, so that either can go without the other. In `listing` two entries suffice for order and for an entry that hides
another; the special bytes are those that encoder, decoder or parser single out. In
`byte_range` every value is reached of which the code could make something
else: zero, the size and its neighbours, the limits of both words and one beyond.

*Bounds in the guards.* `MaxUploads`, `MaxInode`, `MaxTime` and `MaxBlocks`
(`Transfer`) bound how often something happens; `RenameFits` (`FileTree`) takes only
renames whose result still fits in `Path`; `MaxNumber` (`ByteRange`) bounds the numbers
in a header. A run of `Transfer` may reach a state in which the bounds leave no
step, so deadlock is not checked there; nor in `byte_range` and `listing`, whose one
request ends, in `request_stream`, where a client may have sent its `MaxRequests` and a
session may wait for a client that is silent, and in `server`, whose process may exit.

*Fairness.* `deep_copy`: a copy in progress goes on, because nothing else is
scheduled before `fs::copy` returns. `transfer_names`: a session whose socket is
ready is resumed by the event loop, for clients that keep sending their body and
reading their answer. The code has no timeouts, so nothing can be promised of the
transfers of other clients: a stalled upload keeps its session for ever.
`request_stream`: the same for the session; and a client that was told to continue
sends its body. A client that asked and was not told may wait for ever before a PUT,
because `SentIsAnswered` says that it is told; for other methods the server never
says "continue" (`is_expect_continue` is read in PUT alone), so the client must tire
of waiting. `server`: strong fairness of the accept loop, because it can only run between
handlers, and the event loop takes what is ready in turn, so that it does run. That
sessions end is not assumed: a client may keep its session for ever, so
`EveryoneIsAccepted` has it as a premise that there is a descriptor again and again.

### What the code does not do

Four runs state what a comment or the project's README says and end with a
counterexample.

* `failure_keeps_source`: a file moved (or copied) onto its own parent directory with
  overwrite. The types differ, so the parent is removed, and the file with it; then
  the rename fails. Both are gone, and the answer is 500.
* `uploads_do_not_mix`: two simultaneous uploads to one path write at their own
  offsets into one inode; the file is made of both.
* `ok_means_stored`: after a failed write the stream drops the rest, and 200 or 201 is
  answered.
* `promise_kept`: a file truncated during its download ends the body early; the
  session stays open, and the client reads the next answer as body.

Seen while reading, and not stated as properties of a run that fails:

* MKCOL on an existing directory answers 201; `If-Match: *` is compared as a tag and
  always fails; PROPPATCH answers success without storing; LOCK makes up a token
  nobody asks for again; a JSON array as body ends the session.
* A directory copied onto a directory above it merges into what holds it, and may find
  itself there: with `/a/x/x`, copying `/a/x` onto `/a` copies `/a/x/x` onto `/a/x`, so that
  files of the source are overwritten by one another. The answer is 200
  (`CopyIsComplete` leaves this copy out).
* A file copied over a directory inside a recursive copy lands one level deeper and
  counts as success (`CopyIsComplete` says so).
* A body sent with a method that does not read it is taken for the next request
  (`InStep` says where the promise of `RequestFifo` ends).
* When the root is deleted, or the directory the process was started in, the accept
  loop ends silently at the next connection; the second also if the server was given a
  root and never uses that directory. The listening socket stays open until the last
  session ends, so clients connect and are not served; then the process exits with
  status 0. (`StopsOnlyIfNamed`: only a request that deletes or replaces one of the two,
  or what it lies in, leads there.)
* Out of descriptors, the accept loop goes round on the same connection without pause
  until a session ends (`AcceptFails`, `Retry`).
* One symbolic link to nothing truncates a listing at the entry after it
  (`ListingExact` says so); a name that is not UTF-8 ends the session of a
  JSON listing.
* `Depth: infinity` lists nothing below the resource. `allprop` is found with the prefix
  `D` or none only, though the comments at `web_dav_proto.cpp:46` and `:61` promise
  otherwise; with another prefix the answer has no properties. A property of another namespace
  is answered under the prefix `D`, as the one of WebDAV if there is one of that name. The
  displayname of a directory is its name in the listing of its parent, and empty when it is
  asked for under the path shown there, which ends in a slash (`SameAlone` says so). In
  the answer to a PROPFIND a file
  whose name is a backslash gets the href of its directory, and the paths of what is
  below a directory of that name lack it (`HrefNamesEntry` excepts both). The
  recursion of `list_directory` is never used.
* The JSON listing shows percent-encoded paths, while `/file/copy` and its like take
  raw ones. `+` in a target is decoded as a space.
* The entity tag of two files of the same time and size is the same: one moved over
  the other passes `If-Match`. TLC shows it when the initial stamps may coincide,
  which `FineClock` excludes.

### Assumptions about the host

No I/O errors except a full disk in `Transfer`; no symbolic links except dead ones in
`Listing`; nobody but the server changes files; open files keep their inode. With `FineClock` (all runs) no
two changes of files fall into one tick of the file system's clock. That is what
the entity tag, made of time and size, rests on: on a file system with coarse time
stamps `NoLostUpdate` and `EtagNamesBody` are weaker than stated.

## 4. What is proved

Every theorem holds for all values of the constants that satisfy the assumption of
the module (`TreeAssumption`, `ApiAssumption`, ...), which the runs evaluate. No
theorem rests on anything else, with one exception that is part of its statement:
`FineClock`. Each `...Proofs` module is checked by itself: `tlapm TransferProofs.tla`.

**`FileApiProofs`**, on the lemmas of `FileTreeProofs` about what each call of
`std::filesystem` does to a tree (`RenameKeepsTree`, `CopyNodeKeepsTree`, ...).

* `TypeCorrect`: `Spec => []TypeOK`; in particular the tree stays a tree.
* `MutationsConfined`: `Spec => Confined`.
* `NothingCollateral`: `Spec => []NoCollateral`.

  They share the invariant `Inv`. Confinement is not inductive alone:
  `create_directories` also makes what is missing *above* its path, so `Inv` says that
  what is above the root is there (`AboveRoot`), which holds because nothing outside
  of the root ever changes; and each half of that needs the other. A copy in
  progress changes what its pending calls say, so `Inv` says that they all go below the
  destination, and the destination lies in the root (`CopyBelow`).
* `MoveAllOrNothing`: `Spec => []MoveIsAtomic`. A move that succeeds is whole; one that
  fails leaves all as it was, except that a destination of the other type is gone, with
  all below it, which may be the source (`OnlyDestinationLost`). With `Inv` it is
  inductive; the work is in the one step that moves. Source and destination may lie one
  below the other and what was at the destination is deleted first, so that the lemmas
  say of every path below either of them where its entry came from.
* `CopyOnlyAdds`: `Spec => []CopyMerges`: of what was there before a copy only a destination
  of the other type goes, with what lies below it.
* `CopySucceedsWhole`: `Spec => []CopyIsComplete`: a copy onto its own source or below never
  reports success, and any other that does is whole; that onto a directory above the
  source is left out, which may overwrite files of the source. A copy is many steps, in any order the
  directories may be read in, so the invariant (`CopyInv`) speaks of the middle of it:
  every entry of the source is where it belongs or lies below one of the calls that
  are still to be made (`NoneForgotten`). To go on being true this needs that a call
  copies an entry to its own place and to no other (`CallsPair`), and that a
  directory in the way of a file was there before the copy, and is no copy itself
  (`OnlyCopied`, `RootAlike`).

**`ServerProofs`**

* `ServerServesFiles`: `ServerSpec => Spec`: with its accept loop and its sessions the
  server still behaves as `FileApi` says. `ServerConfined` carries what is proved there
  over to it.
* `ServerTypeCorrect`: `ServerSpec => []ServerTypeOK`; in particular the working directory
  is a directory wherever requests move it, and if it is the root it is never moved, which
  needs that a rename of a directory to a place below itself is refused.
* `OnlyNamingStops`: `ServerSpec => []StopsOnlyIfNamed`. The invariant (`ThereUnlessNamed`)
  adds that the root and the working directory are there until a request was carried
  out on one of them. That no other step of a handler takes them away follows from the
  invariant of `FileApiProofs`: what is not named stays as it was, the calls of a copy
  lie below its destination, and what is moved is at its new place.

**`TransferProofs`**, for any number of sessions, files, inodes and blocks.

* `TransferTypeCorrect`: `Spec => []TypeOK`. The invariant `Types` says more: unless
  a write failed, what was received of a body is stored or buffered (`Fits`), and an
  open file leads to an inode that exists.
* `CreatedOnce`: `Spec => []ExclusiveCreate`. It is inductive with `Types`, because the
  existence of a file is looked up and the file is made without a suspension between.
* `IfMatchLosesNothing`, `EtagIsOfBody`: `FineClock => (Spec => []NoLostUpdate)` and the same
  of `EtagNamesBody /\ EtagTellsChange`: while a file has the tag of a download, the bytes
  sent are those the tag stands for; and once it has changed under the download, the
  answer may mix old and new bytes, but the file does not get that tag again. An entity tag is a time and a size; what makes it name bytes is in
  the invariant `TagInv`: no two files share a time stamp (`StampsDiffer`), and what a
  client has learned under a stamp is what the file with that stamp holds
  (`SeenNamesData`). Both are lost with a clock that does not tell two changes apart;
  that is why `FineClock` is in the theorem.
* `CutShortIsPrefix`: `Spec => PartIsPrefix`, and `AnsweredIsWhole`: `Spec => UploadIntact`. Both
  are about an upload that nobody disturbed. The invariant (`AloneInv`) says that its file
  holds exactly what it has written, which only stays true because two uploads
  that go on in one inode both count as disturbed (`OnlyWriter`).

**`RequestStreamProofs`**, for any requests, any bodies and any arrival of the bytes.

* `StreamTypeCorrect`: `Spec => []TypeOK`; nothing is taken from `buf_` that is not in it,
  and no count falls below zero.
* `CountsExactly`: `Spec => []CountExact`, for every width of `size_t`. The invariant
  (`ChunkFits`) says that the chunk being read was found to fit before it was added.
* `AnswersInOrder`: `Spec => ImplementsFifo`, the refinement. A step of the session can be
  mapped to one of `RequestFifo` only if it is known that what stands in `buf_` is the
  request that comes next and not some part of a body. The invariant (`KnowsPlace`) says
  so: unless a body was left unread, the bytes that are buffered, under way or held
  back, followed by what was lost when the connection broke, are the rest of the
  request that was begun (`Position`: for each place of the coroutine, what it is about to
  read) and then all requests sent later (`Located`). There is a lemma for each step of the
  body (`...Moves`), one for each action (`...Knows`), and `StepIsFifo` for the mapping.

**`ByteRangeProofs`**, for every width of the two integer types and every header:
`AcceptedRangeInFile` and `WellFormedRangeExact`, the two properties of the run
`byte_range`.

**`ListingProofs`**, for directories of any size, read in any order, and names of any
bytes and length.

* `TextsRoundTrip`: `Spec => []UrlRoundTrip`, for every text of bytes, also when a percent
  sign with one digit or none follows it. `url_decode` goes
  through a text by recursion; the lemmas go through the text from its end, along
  `Before(text, k)`, the length of the code of the first `k` bytes.
* `EveryHrefLeadsBack`: `Spec => []HrefNamesEntry`. Encoding the names of a path one by
  one is encoding the path, as a slash is not escaped (`EncodedIsJoined`); the parser
  decodes it to the same text, which is split at the same slashes, as no name
  contains one (`SplitJoined`). With a slash at the end or none, this is the path the
  entry is found under (`TargetIsRead`, `LeadsBack`).
* `ListingIsExact`: `Spec => []ListingExact`. The invariant (`ReadInv`) says that what was
  read and what is still to be read make up the directory, each entry in one of the
  two and once, and that after an error one of the entries read is one that could
  not be examined. That the sorted list is in the *strict* order the property speaks
  of needs `LessIsTotal`: of two names that differ one comes first.
* `ShownAsAlone`: `Spec => []SameAlone`. The path shown for an entry leads back to it with
  or without a slash at its end; what the parser makes of it is encoded to the same
  text again (`ShownPathStays`), and what a resource has depends on its kind alone.
* `EveryListingCanBeSorted`: whatever was read, there is an order of it that `EndRead`
  accepts, so that the model never stops where the program goes on. The place of an entry
  is the number of entries that precede it (`OrderGivesPlaces`).

**`SequenceLemmas`** holds what these proofs share. The provers cannot use the
library's induction theorems, which take an operator as a parameter; `NatSetInduction`
and `SeqSetInduction` state induction for a *set* and are proved from the
well-founded order of the naturals. With them it is shown what `FlattenSeq`
makes of sequences of any length (`FlattenConcat`, `RemainingStep`, ...). `Cat` is `\o` under
a name that the provers do not interpret.

### Only model-checked

* Liveness: `CopyTerminates`, `TransfersEnd`, `SentIsAnswered`, `EveryoneIsAccepted`. It
  rests on fairness, hence on ENABLED, which the proof system does not cover.

Every other property of the passing runs, invariants and action properties alike, is the
statement of a theorem. The four runs that expect a violation have no theorem: what
they state is false of the code.

What is proved of recursive definitions is proved of recursive *functions*
(`url_decode`, `Split`), each after a lemma that a function with its equations exists
(`DecodingExists`, `SplittingExists`). `FlattenSeq` of the community modules is one too.

## 5. Plan

The plan is carried out: all components whose behaviour is more than text are
modelled, and all safety properties are proved. What could come next:

* the liveness properties, once the proof system covers fairness;
* a second condition header in one request (`Transfer` takes one at most), and the
  lock and property methods, should the server ever keep state for them;
* clocks that do not tell two changes apart, as a run of its own, should the entity tag
  ever be made of more than time and size.

### Not modelled

PROPPATCH and LOCK (no state is kept, and the answer depends on the request alone);
the wording of answers, dates, MIME types and status texts; `parse_response`,
`make_request`, `make_file_info`, `html_escape`, `json_escape` and
`write_chunked_body`, which nothing calls; the parsing of command-line arguments and
addresses; the vendored libraries. What the code relies on of asio is this: one
thread, a coroutine is suspended only at `co_await` and resumed when its operation is
done, and `async_read_until` returns when the delimiter is in the buffer, which may
then hold more.
