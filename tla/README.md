# RustNfsSvc in TLA+

RustNfsSvc is a user-space NFS server for Windows written in Rust on tokio.  It
serves NFSv3 and NFSv4.0 to 4.2 from one port, keeps all of its protocol state in
memory, and reads and writes ordinary files.  These modules model the parts of it
that are hard to test: what concurrent requests, retransmissions, restarts, power
failures and long sequences of legal operations do to that state.  Line numbers
refer to the files under `src/`.

## 1. The system

| Component | State | Operations | Interacts with |
|---|---|---|---|
| Exports configuration (`src/src/exports.rs`) | `exports` | load at start, `resolve_export_path`, `is_client_allowed`, `is_read_only`, `should_squash_root` | MOUNT, pseudo-root, every handler |
| File-handle table (`src/src/exports.rs`) | `fh_map`, `path_to_fhid`, `fh_counter`, `fh_hmac_key` | `get_or_create_fh`, `resolve_fh`, `try_rebuild_fh` | LOOKUP, OPEN, CREATE, READDIR make handles, PUTFH rebuilds, all others resolve |
| NFSv4 COMPOUND (`src/src/nfs/nfs4.rs`) | cursor, status, results, current and saved filehandle of one request | the loop, root_squash check, one handler per operation | file-handle table, disk |
| NFSv4 clients and sessions (`src/src/nfs/nfs4.rs`) | `clients`, `client_owner_map`, `client_counter`, `sessions` | SETCLIENTID, CONFIRM, EXCHANGE_ID, CREATE_SESSION, SEQUENCE, DESTROY_SESSION, DESTROY_CLIENTID, `cleanup_expired` | background task every 60 s |
| NFSv4 opens and locks (`src/src/nfs/nfs4.rs`) | `open_files`, `locks`, two counters | OPEN, CLOSE, LOCK, LOCKT, LOCKU | not consulted by READ or WRITE |
| Write stability (`nfs4.rs`, `protocol.rs`) | the system's cache and disk | WRITE and COMMIT of both protocols | disk, restarts |
| Directory listing (`nfs4.rs`, `protocol.rs`) | none: a cookie is a position | READDIR of a directory, of the pseudo-root, and of NFSv3 | disk |
| Admission (`src/src/nfs/mod.rs`) | `per_ip`, `conn_count` | accept loop, `ConnRateLimiter`, `ConnGuard` | one task per connection |
| Record stream and dispatch (`src/src/nfs/mod.rs`) | receive buffer of a connection | reassembly, dispatch on program and version | v3 and v4 handlers |
| NFSv3 (`src/src/nfs/protocol.rs`) | none of its own | one handler per procedure | file-handle table, disk |
| MOUNT (`src/src/nfs/mount.rs`) | none | MNT, EXPORT | exports, file-handle table |
| Portmapper (`src/src/nfs/portmap.rs`) | `mappings` | a task that fills it, GETPORT, constants | started by the server |
| Service (`src/src/service.rs`, `main.rs`) | reported status, the runtime's tasks | start, stop in two modes | Windows service manager, all listeners |
| Configuration, logging, extended paths, installation, `build.rs` | none here | I/O and string rewriting | |

What is hard here:

* **Interleaving.**  Every map has its own `tokio::sync::RwLock`.  Handlers take
  several one after the other, and mostly do not look again at what they read
  under an earlier one.  Two locks are taken in opposite orders.  File handles of
  the system are opened, written and synced by several threads at once.
* **Restarts and power failures.**  Nothing is persisted, clients keep their
  handles, the key that signs handles changes, and a reply says FILE_SYNC.
* **Retransmission.**  NFS clients repeat requests; there is no reply cache.
* **Protocol sequences.**  Permission checks are made per handler, on one of two
  filehandles; locks are listed under keys read at fixed offsets of a request;
  the next operation is read where the last handler says that its arguments end.
* **Streams.**  Records arrive in pieces, several at once, or cut.
* **Start and stop.**  The start spawns its listeners and waits for none.
* **Limits.**  A connection count that is raised before it is checked, a limiter
  with windows, ranges that saturate, a buffer with a cap, pages that fill.

What makes each component correct: a handle resolves to the file it was given for
or to none; a call returns; a client id belongs to one client; a removed session
stays removed and an idle one goes away; conflicting locks are not held together;
a read-only export is not changed; a write that was synced survives; a listing
misses and repeats nothing it need not, and ends; records are handled once each
and in order; a name leads to the export it was shown for; a result answers its
operation; the caps hold; a stop ends the process and leaves nothing behind.
The list of hazards in `PROJECT.json` gives the line of each.

## 2. The modules

| Module | Models | Proofs |
|---|---|---|
| `FileHandles` | the table with atomic critical sections, and restarts | `FileHandlesProofs` |
| `FileHandleLocks` | the same table, one lock acquisition at a time; implements `FileHandles` | `FileHandlesProofs` |
| `LockedFileHandles` | composes the two | `FileHandlesProofs` |
| `Sessions` | clients, owners, sessions, the sweep | `Nfs4StateProofs` |
| `OpenLocks` | opens and byte-range locks | `Nfs4StateProofs` |
| `Compound` | one COMPOUND: filehandles and permission checks | `CompoundProofs` |
| `CompoundReply` | one COMPOUND: cursor, loop, results | `CursorProofs` |
| `StableStore` | what a file server promises about written blocks (abstract) | |
| `StableWrites` | WRITE of both protocols over cache and disk; implements `StableStore` | `StableWritesProofs` |
| `Paging` | READDIR page by page against changes of the directory | `CursorProofs` |
| `RecordStream` | a connection's buffer, records, dispatch | `CursorProofs` |
| `Nfs3` | the NFSv3 procedures over handles and a file system | `Nfs3Proofs` |
| `ExportNames` | loading of exports, names, MOUNT, pseudo-root | `ExportNamesProofs` |
| `Admission` | limiter, cap and accept loop | `ServerProofs` |
| `Service` | start and stop of the process | `ServerProofs` |
| `Portmap` | the port mapper's table, keys and procedures | `ServerProofs` |
| `Startup` | composes `Service` and `Portmap` | `ServerProofs` |

`MC_<Module>` gives the constants of an instance, and the `.cfg` of the same name
runs it.  `LockedFileHandles` composes the two handle modules: `FileHandleLocks`
takes the steps, and the variables of `FileHandles` are kept at its refinement
mapping.  Components that share a module of proofs have names of their own for what
every module has (`PagingInit`, `ReplyNext`, `AdmissionSpec`, `OpenLocksTypeOK`).
Next to some definitions stands a variant of it that no specification uses
(`PutfhKnownToo` beside `Putfh`): the definition with one plausible mistake in
it.  With the variant in its place, the property listed with it in `PROJECT.json`
("mutants") is violated, which shows what the property watches.

### FileHandles, FileHandleLocks

`fhMap`, `pathMap`, `fhCounter` and `key` are the fields of `ExportsManager`; `pc`,
`want` and `id` say where each task is in a call; `answers` records every handle ever
given out, with the path it was asked for and the start of the server it comes from.
`LookupHit`, `LookupMiss`, `Alloc`, `Insert` are `get_or_create_fh` (377-414),
`Putfh`, `Rebuild`, `RebuildNotFound` are `try_rebuild_fh` (593-645), which reads the
id and the inode from the handle before anything looks at the MAC, so `Putfh` takes
any id with any inode.  `contended` records the ids that a rebuild and another task
had in hand at once.  `Restart` is a stop at any point and `ExportsManager::new`.  In
`FileHandles` a critical section is a step.  In `FileHandleLocks` a step acquires a
lock (a set of readers and a writer), or does what is done under the locks held and
releases them; `ImplementsTable` justifies the atomicity of `FileHandles`.  The inode
in a handle is a hash of the path; the model takes it to be the path.  A handle's MAC
is the key that made it, named after the start that drew it.

### Sessions

A step is what one lock protects.  `req` holds a request's arguments and what it
read under an earlier lock.  Time is the age of each record, in units of the lease.
`told` is every client id ever answered, with its owner and protocol.  A session's
id is a function of the client's (2970-2977), so a session is named by its client.
RENEW (2081-2087) and BIND_CONN_TO_SESSION change nothing and have no action.
SETCLIENTID_CONFIRM (2058-2079) sets `confirmed`, and SETCLIENTID a confirm verifier,
which the code never reads: both are left out of the records, and the operation too.  An
owner is the string a client sends; `NoOwner` is the empty one, which is also what the
records of EXCHANGE_ID have for `id_string`, with the verifier `Zero` (2861-2864), so
that the scan of SETCLIENTID finds them (1966-2003).  Client ids that were never
answered are left out.

### OpenLocks

Numbers are kept in base `Word` (2^32 in the code), because what matters is which
eight bytes of a stateid a handler takes for an id: for open stateids the sequence
number it was sent with and the high half (`SeqidAndHigh`), for lock stateids the
whole id.  A request may send any sequence number of `Seqid`; the code answers 1 and
NFSv4.1 clients send 0.  An owner's bytes are what the client chose, so two clients may
have the same, or none (`Holder`).  A lock is stored with what the code does not store
and the properties need: the file, the holder, and how it was asked for; `granted` has
every lock stateid that was answered.

### Compound

The caller, the two filehandles, the status, and what the last operation changed on
disk and through which filehandle.  A handle is the `export_root` in its entry, which
the checks look at, and the place its path leads to (`Spot`: an export's own directory,
inside it, or outside all), which is what the file system acts on; or the pseudo-root,
or one that does not resolve.  `Inner` says which exports lie inside others.  `Named`
is what a name leads to: a child, or, for a name that is not one component, and for a
link, any place at all.  OPEN, CREATE, REMOVE, RENAME and LINK follow such names, since
they join whatever they are given to the directory's path (1046-1050, 1574, 1650, 1891,
2355); only LOOKUP refuses them (`exports.rs` 683-740).  `joined` remembers that one has
been followed, here or by another request (`Elsewhere`): the entry made for it says one
export and its path leads elsewhere, from then on.  File contents and arguments are
left open: wherever a handler depends on them the action offers each outcome.
`FailOtherwise` is the failure any operation may meet in its arguments or on the disk.

### CompoundReply

The request as a sequence of four-byte words (opcodes, lengths, data), cut anywhere,
and the cursor `p` that walks it.  `Words` is a padded opaque; each handler has the
number of words it takes and the statuses it can answer.  The operations are one of
each shape of arguments: none, fixed, a stateid, an opaque, LOCK's two forms, and
RELEASE_LOCKOWNER, which misreads its own.  `WellEncoded` says how many words a
client puts there, which is not always what the handler takes.

### StableStore, StableWrites

A block is what one WRITE covers, its contents a version number.  `cache` is what a
READ returns, `disk` what a power failure leaves; the system may write any block
back at any time (`WriteBack`).  A WRITE is open, write_all, sync_all (if asked for)
and the answer, each a step of its own task.  A sync that fails is not told to the
client: such a WRITE is answered like the others.  `answered` is what clients were
told, `promised` the part of it whose sync_all did what it says.  Under the refinement
mapping the contents of `StableStore` are the cache, its promises are `promised`, and
a power failure is its `StoreLoss`.

### Paging

Each call reads the directory anew and sorts it (`Listing`: the i-th name has i - 1
before it); a cookie is 3 plus the position of an entry.  `DirectoryPage`, `RootPage`
and `V3Page` are the three listings.  Other clients create and remove names between
calls, and the client may start over.

### RecordStream

`stream` is what the client sends: record marks with a length, a last-fragment bit
and a program.  `at` is the offset the server's buffer starts at and `got` the
offset up to which bytes arrived, in reads of any size up to `Chunk`.  So the
history of the stream stays visible to the properties while the buffer moves.

### Nfs3

Places are sequences over `Name`, and the disk says what is at each.  The table says, for
a place, the `export_root` of each entry whose path leads there; a handle acts by any
of them.  CREATE, MKDIR, REMOVE, RMDIR and RENAME take the name of a child or one that
leads anywhere (`Named` with `out`: 487, 529, 570, 604 and 655-656 join what they are
given), LOOKUP a child or what a link in the export leads to (`LookedUp`).  `joined`
counts the names of this start that led anywhere; those of NFSv4's OPEN and CREATE,
which share the table, are requests like these.  Every procedure is
one step, since nothing another request can change lies between a handler's look at
the table and its calls to the file system.  The file system may refuse any call.
A handle of an earlier start is one value, `Stale`.  No procedure looks at the
caller's uid, so it has no part in the model.

### ExportNames

Every assignment of aliases (with or without a slash), last components, allowed
clients and orders of the hash map is an initial state.  `Resolve` is
`resolve_export_path` with its three passes; `given` records who was handed whose
directory and by which procedure.

### Admission

`AcceptAllowed` and `AcceptLimited` are an `accept` with the limiter's verdict;
`FetchAdd`, `Reject`, `Spawn` are the next steps of the one accept loop; `End` is the
drop of a `ConnGuard` in any connection task; `Cleanup` is the limiter's 120 s task.
`recent` counts, per address and age, what the limiter let through within that age.  With
`max_conn_rate_per_ip` 0 the code still lets the first connection of each window
after the first through; the constant is assumed positive.

### Service, Portmap, Startup

`pc` is the main thread of `service_main` or `main`; `scm` the last state reported;
`server` the task of `NfsServer::start`; `socket` what each listener's task came to.
Every step may fail as it can in the code.  `Portmap` keeps u32s as sets of bits, so
that `make_key` is what it is in the code, for any three u32s.  In `Startup` the table
is filled by a task of its own at any time after the start, requests come whenever a
socket of port 111 is bound, and the end of the process takes the table along.

## 3. The runs

| Run | Instance | Shows |
|---|---|---|
| `file_handles` | 2 paths, 2 tasks, 2 ids, 1 restart, any handle presented, both locks, fair tasks | the counter is ahead; handles of this start are right but for contended ids, and stale for ever after; the locks implement the atomic table; calls return unless the lock order is inverted |
| `sessions` | an owner and the empty string, 2 requests, 2 client ids, lease 0, a fair sweep | ids never shared, but for an empty `id_string`; only CREATE_SESSION makes sessions; idle sessions and clients go away |
| `open_locks` | 1 file of 3 offsets, 2 clients with the same bytes or none, sequence numbers 0 and 1, 2 opens, 2 locks | lists exclude; locks by open stateid exclude under one sequence number; whose locks a LOCKU takes |
| `admission` | 2 addresses, 3 tasks, 2 per window of 2 ticks, cap 2 | cap, exact count, rate |
| `compound` | 4 exports, one of each kind, one inside another; any names | handles stay in their export until a name led out; one-handle operations respect `ro`; squashed root |
| `compound_reply` | up to 3 of 8 encodings, cap 3, cut anywhere | results answer operations; only the result for a cut request is not counted |
| `stable_writes` | 2 blocks, 2 tasks, 3 writes | answered writes are not undone; synced ones survive; the abstract store is implemented |
| `record_stream` | 3 records of 4 lengths and 3 programs, whole or fragments | the buffer's limit drops nobody; order; everything handled |
| `export_names` | 2 exports, 2 words, all configurations | what is shown leads where it was shown for |
| `paging` | 4 names, pages of 2 small entries, 3 changes | creations skip nothing, removals repeat nothing, listings end |
| `nfs3` | 2 exports, one read-only, 4 places, 1 name of a start that leads anywhere | replies a client may believe; read-only exports; stale handles |
| `startup` | all modes and TLS settings, 27 port mapper queries | a stop ends the process and leaves nothing; only registered services are found |

**Why the bounds suffice.**  The hazards are of two tasks about at most two paths,
owners, blocks or locks: one to read, one to change what was read.  Two tasks and two
of each object make every pair of steps meet.  Two ids let two tasks allocate, or one
allocate what the other presents; one restart is the only distinction the properties
make (the proofs cover any number).  Two client ids let both protocols draw ids, and
two owners, one of them the empty string, are what can meet in an id; a lease of 0
gives records that are fresh or overdue, which is all that the sweep tells apart.
Three offsets, the last one the saturating one, give disjoint, touching, nested and
saturated ranges.  Two connections per window and a cap of two let each limit be
reached by one address and by both; a window of two ticks has a boundary that a burst
can straddle.  Three versions let a block be overwritten while another write is in
progress.  Record lengths lie below the least, at it, at the greatest and above it,
and a read holds more than a record, so that records share reads and reads share
records.  Two locks, by owners that differ in client, in bytes or in both, make every
pair that a LOCKU can confuse.  Four names on pages of two give a listing of several
pages with a first entry of another size.  Two exports of one child each let RENAME,
and any procedure with a name that leads out, cross; after one such name of a start a
place may have entries of both exports, which is all that more of them could bring.
The queries of the port mapper include protocol 262 with version 2, the key of
protocol 6 with version 3, and version 2^24 + 3 of program 100002, the key of version
3 of 100003.  Two names per export and two words make every collision of alias,
component and path that two exports can have, and the three passes of a lookup compare
two at a time.  Four operations, with a cap of three, reach the cap.  `Compound` needs
no bound: its state is finite, and four exports have every kind alone and one inside
another that has not its options.

`CHECK_DEADLOCK FALSE` is set where a bound on an id or version stops the model
(`FileHandleLocks`, `Sessions`, `OpenLocks`, `StableWrites`), where the system really
ends (`RecordStream`: the connection is closed; `CompoundReply`: the reply is made),
where nothing is left to do at the bound of changes (`Paging`), and in
`FileHandleLocks` also because of the inverted lock order, which
`CallsReturnUnlessInverted` names as the only cause.

**Fairness.**  `Sessions` asks for weak fairness of `Sweep`: the code spawns a task
that runs `cleanup_expired` every 60 s in an endless loop (`nfs/mod.rs` 240-247), and
a spawned task that can run is polled.  Nothing is asked of clients.
`FileHandleLocks` asks for strong fairness of each task inside a call, because a
tokio lock serves its waiters in order.  `RecordStream` asks for weak fairness of the
whole connection: the task runs when it can, and bytes sent arrive.  `Paging` asks it
of `Readdir`: the client goes on until the end, which is what `ListingEnds` supposes.
`Startup` asks it of the main thread alone, which waits for nothing but a stop.

### Where the code does less than one might think

Several properties carry a premise, or are narrower than a first reading of the docs
suggests, because the code does not do more.  The modules contain these behaviours;
without the premise TLC shows a counterexample.

* `SoundUnlessContended`: `try_rebuild_fh` looks for the id before it walks the disk
  and not again when it inserts (`exports.rs` 606-640), and believes any handle's id and
  inode (594-605).  An id that a PUTFH searches for while another task has drawn it, or
  searches for it too, ends up with the path of the task that writes last, and the
  handle of the other resolves to that file.  A rebuild never helps the handle it is
  made for after a restart, since `resolve_fh` checks the MAC under the new key.
* `CallsReturnUnlessInverted`: lookup takes `path_to_fhid` then `fh_map`, insertion
  the other way round (`exports.rs` 380-410); the two can wait for each other.
* `OnlyCreateSessionCreates`, `IdsNeverShared`: a SEQUENCE id that was executed
  passes the check again (`nfs4.rs` 3152); two concurrent EXCHANGE_IDs of one owner
  get two ids (2771-2786); the sweep removes a session that was used after it was
  listed (3223); RENEW does not renew (2081-2087).  A SETCLIENTID with an empty
  `id_string` and a zero verifier is answered the id of some EXCHANGE_ID (1970).
* `ListsExclusive`, `NewLocksExclusive`: a lock asked for with a lock stateid is in
  another list than one asked for with an open stateid, and the latter are in one
  list for all files (`nfs4.rs` 2500-2515), one list per sequence number that the
  stateids were sent with.  CLOSE never finds its open (1144-1151).
* `OnlyHolderReleases`: LOCKU compares the owner's bytes and not the client (2645), so
  two clients with equal bytes, or with none, release each other's locks; and since the
  list is of all files, also those asked for through another open.
* `OneHandleKeepsReadOnly`, `SquashedRootChangesNothing`, `OnlyRenameReachesReadOnly`:
  the checks look at the `export_root` of the handle's entry, and that much holds of
  every name.  Where the change lands is another matter: names that are not one
  component are joined as they are, so OPEN, CREATE, REMOVE, RENAME and LINK, and in
  NFSv3 CREATE, MKDIR, REMOVE, RMDIR and RENAME, can change any export through a
  handle of a writable one, and entries made by them let others do so later
  (`joined`).  An export inside another is checked as the outer one when it is reached
  from there, also later, since an entry keeps its first `export_root` (`exports.rs`
  384).  COPY and RENAME reach a read-only export through their second handle.  NFSv3
  has no root_squash.
* `FileSyncSurvives`: every WRITE is answered FILE_SYNC, also one that did not ask
  for it or whose sync_all failed; COMMIT syncs nothing (`nfs4.rs` 1277-1298,
  2295-2305).
* `RecordsInOrder`: a record below 20 bytes is skipped by its header only
  (`mod.rs` 482).  The error reply to NFS_ACL has message type 0, a call (600).
* `GrowingSkipsNothing`, `ShrinkingRepeatsNothing`, `ListingEnds`: cookies are
  positions, so removals skip and creations repeat; an entry that does not fit into
  maxcount is answered by empty pages for ever (`nfs4.rs` 1384-1420).
* `StaleChangesNothing`, `AnswersTrue`: several NFSv3 procedures answer OK on stale
  handles, CREATE and MKDIR whether or not anything was made, and a GUARDED create
  empties a file that is there (`protocol.rs` 488).
* `ListedMountsItself`, `RootEntriesLeadToTheirExports`: only with distinct names;
  LOOKUP in the pseudo-root (`nfs4.rs` 876) does not look at the clients of the
  export, so only MNT is held to them (`MountsAllowed`).
* `CountedButTheEnd`, `AnswersRequest`: a cut request adds a result that `rescount`
  leaves out (480); RELEASE_LOCKOWNER reads a length where the client id is (639),
  so what comes after it is read at another place; the body of a denied LOCK is
  dropped by the loop (520).
* `StopEndsIt` says nothing of a start: it is logged as successful before any port
  is bound, and an incomplete TLS configuration ends it although the warning says
  that it goes on without TLS (`mod.rs` 192-283).
* `OnlyRegisteredFound`: the protocol has 8 bits in the key and the version 24, and
  nothing checks that a request's fit (`portmap.rs` 99, 263-267).  Larger ones overlap
  (`Overlaid`), and the answer is of what they overlap to.

## 4. The proofs

All proofs are for every value of the constants, under the named assumptions on the
constants in each module (the absent values are not real ones, the bounds are
positive).  They are checked by TLAPS with SMT, Zenon and PTL.  Each module's type
invariant is proved there, not only on an instance; `OpenLocks`' is a part of
`Exclusive`.

* **FileHandlesProofs.**  `HandlesSound` and `CounterAhead` are not inductive: a handle
  stays right only if its id is not written again.  `Sound` has the types, the agreement
  of the maps, what each task has in hand, and that an answer's key is the one of its
  start, from which `StaleForEver` follows after a restart.  `Settled` says of every id
  that is not contended that one task at most has it in hand, and then it has no entry
  yet; so writing it cannot turn a handle that was given out.
  `LocksHeld` is the invariant of the locks: a task in the middle of a lookup is a
  reader of `path_to_fhid`, which nobody writes meanwhile, so the entry it found is
  still there.  With it every step under the locks is a step of the atomic table or a
  stutter of it (`LockedTable`), so the refinement
  (`LocksImplementTable`) and all invariants of the atomic table (`LockedInvariants`)
  hold of the one under the locks.
* **Nfs4StateProofs.**  `Sessions`: whoever holds, stores or was answered a client id
  *claims* it (`Claimed`): an answer, an owner entry, a record, a request between two
  locks.  `Claims` says that claims on an id agree, or one is of a SETCLIENTID with an
  empty `id_string` and the other of EXCHANGE_ID (`EmptyClaim`), and are below the
  counter.  Every step but `Alloc` makes no new claim but such a one (`NoNewClaim`),
  and `Alloc` claims an id nobody claims.  `OnlyCreateSession` goes through the steps:
  one that finds no session under the write lock writes none.
  `OpenLocks`: `Exclusive` follows from `Conflict` by arithmetic on saturated ends;
  `NewLocksExclusive` also needs that every lock asked for with an open stateid is in
  the list of its sequence number and 0 (`FreshUnderSeqid`), which is why such locks
  exclude each other although the key is not what it was meant to be.
  `HoldersRelease` needs `Holders`: lock stateids of one id are of one holder, a list
  under the key of a lock id has only locks of the holder of that id, and locks asked
  for with open stateids keep their owner's bytes.
* **CompoundProofs.**  `Protected` joins the types, `HandlesInsideRoot` and the two
  checks.  `HandlesInsideRoot` is what the checks need and what LOOKUP and LOOKUPP keep:
  of a handle inside its entry's export a child's name leads no further than into an
  export inside that one (`NamedInside`, by the transitivity of `Inner`).
* **StableWritesProofs.**  `Cached` says that a version in hand or answered is at
  most the newest of its block and, until the power fails, in the cache.  `Durable`
  adds that a request past its sync_all has its version on disk, and promises are
  below what is on disk; `Implements` maps every step to one of `StableStore` or to
  a stutter.
* **ExportNamesProofs.**  The lemmas go through the three passes of a lookup:
  distinct names leave one candidate, whatever the order of the map.
* **Nfs3Proofs.**  `RootsAbove`: as long as names were those of children, the exports in
  a place's entries are above it.  With it a procedure that is not refused as read-only
  changes nothing below a read-only export (`ReachesWritable`), unless it has a second
  handle, where exports lie apart (`Apart`): the check looks at the export of the
  handle alone.  `RenameAlone` proves that part and the one without premises, that
  nothing changes through a handle of a read-only export.  The run `nfs3` checks that its
  exports are apart.
* **CursorProofs.**  `RecordStream`: while the task waits for bytes, what is in the
  buffer is less than one record (`WaitsForMore`), so one more read stays below the
  limit (`CapUnreached`).  `InOrder` places the task's offset at the start of a
  record of the client's, given that none is shorter than a call's header.
  `CompoundReply`: `Counted` for the count; for `AnswersTheRequest`, `InStep`: while
  no operation has failed and no RELEASE_LOCKOWNER was read, the cursor is where the
  words of the next operation start (`Offset`).  It supposes `WellEncoded`, which the
  run `compound_reply` checks of its encodings.
  `Paging`: a name's position is the number of names before it.  Creations never
  lower it, so the names before the cookie have been listed (`NoneMissed`); removals
  never raise it, so the names listed are before the cookie (`NoneAgain`).
* **ServerProofs.**  `Admission`: `Numbered`: the counter is the number of guards and
  of the slot in hand of the accept loop; the cap and the exact count follow.  For the
  rate, `Windowed`: the connections since an entry's window began are in its count,
  and older ones still in sight belong to one window before it.
  `Startup`: `ProcessInv`: before the main thread waits no server has been spawned,
  and a process that is stopping has had its request.  `OnlyTheRegistered` rests on
  `KeyTells`: parts of any width have the key of an entry only if they overlap to it.

The table in `PROJECT.json` ("theorems") names the theorem for each property: every
invariant and every action property of the runs has one.

**Induction over data.**  The library's induction theorems take an operator as a
parameter and cannot be cited.  Where a proof needs induction (where the n-th record
starts, where the words of the n-th operation are, which entry is the last to fit),
it takes the least counterexample: a set of naturals that is not empty has a least
member (`LeastNat`, from the well-foundedness of `<`).  A recursive function, as
`FlattenSeq` or `Start`, is a CHOOSE; its equation follows once a function with that
equation is shown to exist.  `SortSeq` has no definition that the prover can see,
so `Listing` is defined by positions.

Only model-checked: liveness (`IdleSessionsExpire`, `IdleClientsExpire`,
`CallsReturnUnlessInverted`, `RecordsHandled`, `ListingEnds`, `StopEndsIt`), which is
outside the prover's reach.

## 5. What is not modelled

* Collisions of path hashes, extended paths: rewriting of strings.  What a link or a
  name of several components is made of: `Compound` and `Nfs3` have where it can lead.
  The check of SEC-020 (`exports.rs` 543-560), by which a handle of a link that leads
  out does not resolve, is left to the handles that do not; links that a local user
  changes while handles through them are held are left out.
* Ids near 2^64 that a handle presented to PUTFH may carry, and the counter after them.
* Attribute encoding, file contents and sizes, the byte layout of NFSv3 messages:
  no state depends on them; where a handler may fail on them, the model lets it.
* OPEN's and CREATE's arguments in `CompoundReply`, the layouts of LOCKT and LOCKU,
  and OPEN_DOWNGRADE's stateid.
* OPEN with create, which tests that the file is missing before it truncates it
  (`nfs4.rs` 1060); entries of the handle table that outlive their files
  (`exports.rs` 400).
* UDP, which hands each datagram to the same handlers; the TCP streams of the port
  mapper and of MOUNT.
* Sequence ids that wrap at 2^32; the record that DESTROY_CLIENTID leaves behind has
  its step in `Sessions` but no property of its own.
* The entries that the limiter never drops (`mod.rs` 102-108), and connections that
  never end: there is no timeout to give a fairness.
* Reading of the configuration, logging, installation, the build script: I/O
  without protocol state.

## 6. Plan

Done, in the order of importance: the handle table and its locks, clients and
sessions, opens and locks, COMPOUND, admission; then write stability, the record
stream, directory listing, NFSv3, names and MOUNT, replies, and the process with its
port mapper.  Next:

1. Proofs about what the safety half of the liveness properties rests on: that the
   sweep's victims are idle, that the main thread is never without a step after a
   stop, that a page on which every entry fits is not empty.
2. OPEN and CREATE in `CompoundReply`: the cursor depends on claim and mode.
3. OPEN with create composed with the disk of `Nfs3` and with the handle table.
4. A variant of `FileHandleLocks` with one lock order, for which every call returns.
