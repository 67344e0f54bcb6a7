# A TLA+ verification of nhbackup

`nhbackup` (C++, `src/*.cc`) and its Python ancestor `hbackup` back up machines
to a shared *medium*. The medium holds a repository of objects, each named by
the SHA-1 hash of its bytes, and index files that list, for every file that was
backed up, its metadata and either its bytes (small files) or the hash of the
object that holds them (large files). Several machines share one medium, the
program takes no lock, and it can die at any point. This project models that
program, checks the model with TLC and proves theorems about it with TLAPS.

## 1. Inventory: the parts of the system

| Part | State it keeps | Operations | What must be right |
|---|---|---|---|
| **backup** (`backup.cc`) | the index being written; `hints`/`newhints`; `inrepo`, the hashes believed to be in the repository; per directory the stat data and the queue `hashables` | `do_backup`, `backup_dir`, `load_hints` | an object has the bytes its name is the hash of; an index that is published needs only objects that are there; a hint is used only for a file that has not changed; a dead run is never in the way of the next |
| **cleanup** (`cleanup.cc`) | `needed`, `badfiles` | `do_clean` (mark), `clean_recurse` (sweep) | nothing an index needs is removed; everything else is; one bad index stops it before it removes anything |
| **verify** (`verify.cc`) | `errors` | `do_verify` | an index it passes is restorable; `--detect-bogus` removes only wrong objects |
| **restore** (`restore.cc`) | inode → first name, times of directories | `do_restore` | the bytes, links and times of the index; never half a file under its own name; a restore can be repeated |
| **local filesystem and buffered files** (`local.cc`, `file.cc`, `filesystem.cc`) | a 4096-byte buffer per `File` with its mode and end-of-file flag | `fill`, `getbytes`, `put`, `flush`, `rename`, `remove`, `exists`, `contents`, `type`, `makedirs` | the bytes put are the bytes stored, across block boundaries and short writes |
| **SFTP client** (`sftp.cc`) | the next request id, `replies`, `ignored`, the existence cache with requests in flight; per file the read pipeline and the write queue | every filesystem call as a request and a reply | each reply goes to its request; answers are current; the pipeline returns the bytes of the file; a failed write surfaces before a rename; client and server never wait for each other |
| **hashing** (`hash.cc`, `sha1.c`) | a SHA-1 context; a table of 2^22 chains of hashes | `hashfile`, `HashSet::insert`, `has` | a set: nothing lost or found by mistake, though many hashes share a chain |
| **index and hint file format** (`utils.cc`) | none | `urlencode`, `urldecode`, `hexencode`, `hashdecode`, `parseIndexLine`, `readIndexLine` | decoding undoes encoding; a file without `[end]` is refused |
| **command line and process life** (`nhbackup.cc`, `globals.cc`, `exceptions.cc`) | the options | one operation per process; `fatal` or an exception ends it | |
| **hbackup** (`hbackup`, Python) | markers `active` and `unsafe` in the repository | backup, cleanup, restore, verify | two backups do not overlap; what a dead one left half-written is marked; the index is not overwritten |
| recoding and exclusions (`recode.cc`, `exclude.cc`), test programs, `speedtest.cc` | none that lasts | wrappers of `iconv`, `fnmatch`; benchmarks | (not modelled) |

How they interact: `main` chooses one operation. Every operation reaches the
medium through the abstract class `Filesystem` (`local` or SFTP) and its `File`s,
and the machine being backed up through `local`. Runs interact only through the
files of the medium: names, contents, and descriptors that outlive a name.

Hard behaviours, listed line by line under "hazards" in PROJECT.json: files
edited while they are read twice; `HASH.tmp` and `INDEX.tmp` of dead runs; two
runs that store one content; a cleanup or verification under way at the same
time as a backup; belief (`inrepo`, hints, prefigured existence tests) that
turns stale; read errors taken for something else; out-of-order SFTP replies; a
tree that changes while it is walked; a restore that dies and is run again; short
reads and writes; an index cut off anywhere.

## 2. Modules

| Module | Role |
|---|---|
| `Medium` | what outlives a run (files of the machines, hint files, indexes, objects, `.tmp` files, open descriptors), the filesystem calls, and the world: edits, time, deletion of indexes |
| `Backup` | `do_backup` and `backup_dir`, one run per machine |
| `Cleanup` | `do_clean` and `clean_recurse` |
| `Verify` | `do_verify` |
| `Nhbackup` | the composition, crashes, fairness, all properties |
| `SnapshotStore` | the abstract specification: snapshots that appear whole, never change and go whole |
| `SftpServer` | the server behind `--sftp` as the program relies on it, the two pipes, and other users of the server (external) |
| `SftpClient` | `SftpFilesystem` and `SftpFile` |
| `Sftp` | their composition, fairness, properties |
| `IndexLine` | what the lines of an index say and the names in them; what `Walk` and `Restore` share |
| `Walk` | `do_backup` and `backup_dir` as a walk of the tree while its users change it: lines, names, hard links, mount points |
| `Restore` | `do_restore`, one filesystem call at a time |
| `RoundTrip` | a backup and then restores of its index, with deaths, repetitions and lost objects |
| `Octets` | bytes |
| `IndexFormat` | `utils.cc`: url and hex coding, details, lines, `[end]`, as functions |
| `FileBuffer` | `File` over `LocalFile`: `put`, `flush`, `fill`, `getch`, `getbytes`, with short reads and writes |
| `Sha1` | `sha1.c`: how a message is cut into blocks and padded |
| `HashSet` | the table of chains |
| `IndexFile` | their composition: an index from byte to byte, and `hashfile` |
| `Hbackup` | the Python program: backup and cleanup |
| `MCNhbackup`, `MCRoundTrip`, `MCIndexFile`, `MCHbackup`, `MCSftp` | constants for TLC |
| `MediumProofs` | the types of the medium, for both programs, proved |
| `NhbackupProofs` | the types of `Nhbackup`, the integrity of the repository, cleanup and verification, lines and hints, proved |
| `StoreProofs` | published indexes can be restored, and the refinement of `SnapshotStore`, proved |
| `IndexFileProofs` | what insertion into the table does, and what writer and reader of an index keep, proved |
| `HbackupProofs` | all safety properties of `Hbackup`, proved |
| `SftpProofs` | type correctness of `Sftp`, the matching of replies to requests, what is written and read through it, proved |
| `SftpAnswerProofs` | its answers, its effects on names and the handles it leaves, proved |
| `RoundTripProofs` | the order of the lines of an index, that they are of every file that did not change, and that a restore tears no file, proved |

`Backup`, `Cleanup` and `Verify` extend `Medium` and are composed by `Nhbackup`,
whose actions let one run step and leave the others alone. `SftpClient` extends
`SftpServer`. `Hbackup` extends `Medium` too: both programs use one kind of
repository. `RoundTrip` extends `Walk` and takes `Restore` as an instance, and
`IndexFile` extends `IndexFormat`, `FileBuffer`, `Sha1` and `HashSet`. The families
are separate, and each checks what another takes for granted:

* `Nhbackup` takes an index to be a record per file and the calls on the medium to
  be atomic. `IndexFile` checks what a line that went through bytes, buffers and
  reads is worth, and `Sftp` what the calls are when the medium is remote.
* `Nhbackup` has regular files that exist throughout; `Walk` has the whole tree and
  its changes, but stores a large file in one step. `Restore` follows the index that
  `Walk` wrote, where `Nhbackup` only says what the restore of a file would give.

### State and code

* `src[p][f]`: contents of a file, the second of its last change (`st_mtime`
  and `st_ctime` have second resolution in the code) and a ghost flag `again`
  that tells whether that second saw an earlier change. Only properties read it.
* `idx`: index files by name, `INDEX` (`final`) and `INDEX.tmp` (`tmp`). A line
  is what the properties tell apart: its `data=` or `sha1=` detail; `end` is `[end]`.
* `objs`, `tmps`: the files `HASH` and `HASH.tmp` below `repo/sha1`.
* `wfd[p]`: the descriptor a run has open for writing. It follows its file: after
  a rename of `HASH.tmp` by *another* run it writes to the object itself, after a
  removal to a file without a name.
* `bk[p]`: the run on machine `p`. `pc` is the place in `backup_dir`: `dir`
  (`contents`, `lstat` of each entry), `scan` (the loop at `backup.cc:182`),
  `test`, `open`, `copy`, `rename` (the loop at 305), `end`, `hints`, `publish`
  (`do_backup` 101-112). `ctx` is what the file being read has given so far,
  hence the state of the hash of it, and of the copy.
* `cl`, `vf`: the runs of cleanup and verification.

A byte of the model is a block of 4096 bytes, the unit in which `File` reads and
writes: `HashRead` and `CopyRead` are one `read` each, and edits come in between.
`File` holds a block back until the next one does not fit or `flush` is called, so
`CopyRead` writes the *previous* block and `CopyDone` the last. `fatal` calls
`exit` and flushes nothing of it (`CopyChanged`).

`Walk`: `tree` is the source by path; a path is a sequence of names, a name a number,
so that sorting means something and `NAME~restore~` can be the next number. `walk`
has the locals of `backup_dir`: `names` (`c`, what is left to `lstat`), `s`, `ci`,
`first`, `subdirs` (its `dirs`), and as `dirs` the directories of the recursion that
are still to come. `pc` is `list` (`contents`), `lstat` (one step per name) or `line`.
`Restore`: `out` is the restored tree, `rs` the locals of `do_restore`; a step is a
filesystem call. Hard links have one `ino` (device and number) in `tree` and one `id`
in `out`.

`IndexFile`: `w` and `r` are two `File` objects on one file, `disk` its bytes: `data` is
the part of the buffer in use, `written` the local of `writebytes`, `off` the offset
of the descriptor. `user` says what the reader does: `getline` in the loop of
`readIndexLine` (`line` so far, `got` the lines), with `needed` filled as in `do_clean`,
or `getbytes` in the loop of `hashfile`, with `sha` as its context. Reader and writer
go on at once, for nothing keeps a verification from reading an index not finished.

`Hbackup`: `active`, `unsafe` are the markers; `py[p].pc` names the next call of
`--backup`; `rm` is the pipeline `hbackup --cleanup INDEX... | xargs rm` of the manual
page. Its index and objects are those of `Medium`. `stale`, `killed`, `raced` and
`unmarked` are history.

SFTP (`SftpClient`): `id`, `replies`, `ignored`, `inflight` (`existence_inflight`),
`existence` and `posix_rename` are the members of the class; `file` is the open
`SftpFile` with its `queue` (`readqueue`), `offset`, `buf` and `eof`. `call` is the
method being executed. What all methods have in common is a *round*: `send` holds
the requests still to be put into the output buffer, with the places of
`out->flush()` among them, and `wait` the ids to `await`. `PutRequest` is `send()`,
with `Poll` before it while a reply can be read; `FlushRequest` moves the buffer
`outbuf` into the pipe `req` as there is room; `Poll` and `Await` are `poll()` and
`await()`. Each request carries a serial number that only properties read. The
caller makes any call that `Calls` allows, in any order, on files as the program
uses them. Every CLOSE is put and not flushed, and its reply ignored, as in
`closehandle` and its callers. A write that failed ends the program, for nothing
catches the exception; a read that failed leaves a file that can only be closed.

### Abstractions

* An `SftpFile` for writing has at most one WRITE unanswered, because `File::put`
  calls `flush`, which synchronizes, at each block: `wait` stands for `writequeue`.
* Connecting is over when the model of the client begins, and `ClientInit` has what the
  constructor sets; packing and unpacking are
  records; the names on the server have kinds, files have an inode with data.

* SHA-1 is ideal: `Hash` is injective. In `Sha1` a digest is the sequence of the
  blocks that were compressed, and the rounds that mix a block are left out; a block has 5 elements, the last two for the words of
  the length, instead of 64 octets, and `WordMod` is 64 in place of 2^32, so that the
  carry into the high word happens.
* `Nhbackup`: the entries of one directory are `lstat`ed in one step, its files exist
  throughout a run and are regular; a small file (one `read` of at most 256 bytes) is
  stored in one step; index lines are visible at once, for nobody accepts an index
  without `[end]`, which is last either way.
* A cleanup lists the repository in one step, and then takes three steps for a file:
  `type()`, the name and hash of it (one step, like `hashfile` in a verification), and the
  removal. A removal fails because the file has gone (`RemoveGone`) or for a reason of its
  own (`RemoveFails`); either way the error is reported and the sweep goes on, and
  `cl.failed` has the files left over for the second reason. In a verification the hash and
  the removal are two steps as well; one that fails for any reason but `ENOENT` ends the run
  (`CrashVerify`).
* The mmap branch of `hashfile` reads the length `fstat` gave. It is not told apart
  from the loop of `read`s; for `HashOfWhole`, which asks for pieces of any size, its
  pieces are some more. (A file cut short while it is mapped kills the run.)
* `Walk` and `Restore`: symbolic links lead nowhere; a character device stands for both
  kinds; a FIFO is what backup does not know; a large file is hashed and stored in one
  step (`Backup` has the details); an index that is cut off ends after some line
  (`IndexFile` has the torn ones); `lstat` of a name ends the backup if the directory has
  become something else (`ENOTDIR`, `LstatFails`), and passes over a name that has gone;
  a restore opens an object before its first block (`NoObject`), also if there is none to
  copy; permissions and owners are set with the times. Error
  messages that no line written by `Walk` can cause are left out.
* `IndexFile`: `urldecode` compares with `end`, which is `npos` for the last value of a
  line (`utils.cc:217`), and reads beyond a `%` that is cut off: it throws either way.
  The bucket of a hash is read as a little-endian word. An index rewritten in place
  while it is read is left out.
* `Hbackup`: `sha1()` is one step, as is the listing of the repository. When a copy fails and
  the removal of what it has written fails too (`hbackup:563`), the program ends and leaves
  what a kill at that point leaves (`KillBackup`). Nobody starts a
  backup while the pipeline of a cleanup goes on, though nothing in the program
  prevents it.
* A crash (`CrashBackup` and so on) is the death of a process: a signal, an
  error from any call that ends in `fatal`, or an uncaught exception. The
  filesystem keeps what was written. Power loss is not modelled.

## 3. Properties and runs

`TypeOK` is the type invariant. The safety properties:

* `ObjectsIntact`: every object has the bytes its name is the hash of.
* `PublishedRestorable`: for each index under its final name that ends in
  `[end]`, every file has its bytes in the index or in an intact object.
* `LineSound`: the line written for a file that did not change after its `lstat`
  is right, whether it came from reads between edits or from a hint.
* `HintSound`: a hint that would be used is right, unless a second saw two changes.
* `SweepInformed`: from the listing of the repository on, a cleanup has the hashes of
  every index on the medium, and each of them has its `[end]`.
* `SweepComplete`: at the end of a sweep with `--delete` nothing but needed
  objects is left, no `.tmp`, and with `--detect-bogus` no wrong object, but for files that
  were reported as not removed.
* `VerifySound`: what a verification has passed is there and intact.
* `OnlyWrongDeleted` (action property): no step removes an object that is intact
  and needed by a published index.
* `StoreSpec` (refinement): under the mapping `Snapshots`, which takes each
  published index to what `do_restore` writes for each file, the medium behaves
  as `SnapshotStore`: a snapshot appears whole and what it restores to never changes.

Of a backup and its restore (`RoundTrip`):

* `DirectoriesTogether`: the lines of one directory follow one another and are in
  order, which the comment at `backup.cc:347` promises to readers, also when the tree
  changes while it is walked.
* `UnchangedListed`: what a line says of a file that has not changed since the backup
  began is true, and an index with its `[end]` has a line for each such file, though other
  files of its directory come and go between `contents`, `lstat` and the read.
* `LinesRestored`: a restore that ends without an error has made the file of each line,
  with the contents and times in it, or in the first line of its inode, and one file for
  the lines of an inode. A directory that existed is left alone and keeps its times, as
  the warning says.
* `NothingLeft`: and there is nothing else but what the root held already.
* `RestoredRight`: the two together: every file that did not change during the backup, and
  none of whose links did, is as it was, linked to the same files as before.
* `NeverTorn`: at no moment, hence wherever a restore dies, is a regular file that is
  not complete under its own name.

Of files and formats (`IndexFile`):

* `NoneLost`: what was put is on the disk or in the buffer; unless a short write made
  the next one read beyond the buffer (`local.cc:54`), which `overrun` records.
* `LinesRight`: every line that a reader acts on is the line that was written, with
  all of its characters, but for the last one before an end of file that came too
  soon; a reader that comes to `[end]` has all of them, and one that fails was cut off.
* `NeededRight`: the table of cleanup has the hashes of the lines so far, no others.
* `GetsInOrder`, `NothingMeansEnd` (action property): `getbytes` gives the bytes in
  order, and nothing only at the end.
* `HashOfWhole`: a hash is that of the whole message, padded as the standard has it.

Of `hbackup`:

* `PyRestorable`: a finished index has its objects, intact but for a file that changed
  between `sha1()` and `copy()`; as long as no two backups raced past the marker and
  nobody took the markers away from an object cut short.
* `CutMarked`: only a kill leaves half an object under its name, and then the marker
  is there.
* `PySweepComplete`: what a cleanup leaves is what its indexes need (proved; no run has it,
  since `PyRestorable` says the more important half, that what is needed stays).
* `PyKept` (action property): a finished index never changes what it restores to, and
  only its user takes it away.

Of the SFTP client:

* `ReplyMatches`: what `await` returns is the reply to the very request it was called for.
* `AnswerCurrent`: what `exists`, `type` and
  `contents` return (`ExistsCurrent`, `TypeRight`, `ListingCurrent`) was true at some moment
  since the caller first asked (for `exists`, that is when the name was prefigured; the one
  exception is a no about a name at which the server has failed a STAT since then, which
  the history variable `refused` records);
  `type` is right about a name that
  stays what it is during its three requests. The history variable `window` holds
  what each name has been since then.
* `EffectExact`: `mkdir`, `rename` and `remove` have had their effect if they return,
  none if they throw.
* `ReadInOrder`, `FlushedIsStored`: the bytes read are the first bytes of the file,
  all of them at its end; the bytes written and flushed are the bytes of the file.
* `HandlesReturned`: between calls the server has no handle open that nobody will close,
  if names did not change meanwhile: when `OPEN` finds nothing, `type` throws without a
  look at what `OPENDIR` opened a moment later.

Liveness: `CallsReturn` (every SFTP call returns, or the program ends), `RunsEnd`
(every run ends, whatever happens to its files), `RetrySucceeds` (backups that are
retried succeed in the end) and `RestoreSucceeds` (a restore that is repeated comes to
its end, whatever dead runs left; a directory with something in it that is named like
the temporary file of another line would stop it, and is excepted).

| Run | Instance | Shows |
|---|---|---|
| `alone` | 2 machines, 2 files in a directory, 2 events, runs one at a time, fair retries | `TypeOK`, `ObjectsIntact`, `PublishedRestorable`, `StoreSpec`, `RetrySucceeds` |
| `options` | 1 machine, 2 directories, 2 indexes, `--overwrite`, a hint file, 2 seconds, contents that shrink below STORE_LIMIT, 3 events | `HintSound`, `LineSound`, and `StoreSpec` when an index is rewritten in place, `inrepo` carries over directories and only a hint knows of an object |
| `norecheck` | `--no-recheck-hash --detect-bogus`, verification during backups, 2 machines, 3 events | with wrong objects about, verification and cleanup find them and remove only them, though a removal fails: `SweepInformed`, `SweepComplete`, `VerifySound`, `OnlyWrongDeleted` |
| `crowd` | everything overlaps with everything, a read or a removal that fails | `RunsEnd`, also when `.tmp` files or objects are taken away |
| `round_trip` | 3 trees of up to 6 files, all kinds between them, hard links, a mount point that is not crossed; 2 roots; 2 events | `DirectoriesTogether`, `UnchangedListed`, `LinesRestored`, `NothingLeft`, `RestoredRight`, `NeverTorn`, `RestoreSucceeds` |
| `index_file` | 5 indexes, a buffer of 3 bytes, `getbytes` of 1, 2 and 4, a table of 2 chains, 2 short writes | `NoneLost`, `LinesRight`, `NeededRight`, `GetsInOrder`, `HashOfWhole`, `NothingMeansEnd` |
| `python` | 2 machines, one with `--no-rename`, 3 events | `PyRestorable`, `CutMarked`, `PyKept` |
| `sftp_calls` | a directory and 2 names in it, of any kind, 2 calls, one change by another user, a failing READDIR or STAT, with and without posix-rename, replies in any order | `ReplyMatches`, `AnswerCurrent`, `EffectExact`, `HandlesReturned` |
| `sftp_files` | 1 file of 4 bytes, pieces of 1 and 2, 4 requests ahead, 5 calls, pipes for 1 request and 2 replies, a failure or loss of the connection | `ReadInOrder`, `FlushedIsStored`, `CallsReturn` |
| `shared_tmp` | two overlapping backups | **violated**: `PublishedRestorable` |
| `read_error` | a failed read under `--cleanup --delete --detect-bogus` | **violated**: `OnlyWrongDeleted` |
| `inode_collision` | two files on two filesystems with one inode number | **violated**: `OnlyLinksLinked` |

Every property of a passing run has a *mutant*: a plausible wrong version of one
definition (kept next to the right one and marked `Mutant`) under which TLC
finds the property violated.

### Bounds

`MaxEvents` bounds edits, crashes, read errors, failing removals and deletions together, `MaxClock`
the seconds that pass. Two or three events suffice for the scenarios the
hazards name: a crash between store and publication followed by a retry whose
file has changed (2); an index deleted, a cleanup, and a backup that trusts an
old hint (3); an edit between hashing and copying (1). Two
machines suffice because runs meet pairwise at one hash; contents are two large
ones of the same length (two blocks, so that a file can be torn between its
blocks), and where it matters one below STORE_LIMIT (an empty one). A third
machine or a third content adds no new kind of meeting. `Overlap` says which
operations may be under way together; no run of TLC puts all of them together
on large contents, the proofs do not depend on these bounds.

`round_trip`: an event is a change of the tree, a death or a lost object; with two a
directory can be renamed and a restore die, or a restore die twice. The trees are small
but have every kind of file, a file with links in two directories, and the order of
names in which directories come before files and after them. `index_file`: 3 bytes make every line
span buffers, and 1, 2 and 4 are less than a buffer and more; the five indexes have
every special character, a value that is two lines, two hashes in one chain, and the
empty and shortest texts, whose ends fall on either side of the padding boundary.
`python`: three events are a kill, a failure or an edit in between, and what the user
does about it.

SFTP: `MaxCalls`, `MaxChanges` and `MaxFaults` bound the calls, other users and
failures; `IdMod` is large enough not to wrap. Two calls are prefigure and ask, or a
call and the one after it, which meets its leftovers (a CLOSE not yet flushed, a reply
to be ignored); five are open, read to the end in pieces with a full pipeline, and
close. The pipes hold 64 kbyte in reality, many requests; what keeps the two sides
from blocking each other is that at most a few requests go out in one flush.
`sftp_files` keeps that proportion with the smallest pipes: a flush writes a CLOSE left
from the call before and one request, and two replies fit. With room for one reply
only the model does stop, in a flush of two requests. `EffectExact` says nothing of a
name that was prefigured and not yet asked about, since its window is then older than
the call.

### Fairness

`Fairness` of `Sftp`: weak fairness of the client's own steps, a single thread that
never waits but for a reply or for room in the pipe, and of a server that is up.
Nothing obliges the caller to begin a call. `Fairness` of `RoundTrip`: the single thread
of each run goes on, and a restore that failed or was killed is started again.

`RunsProgress` is weak fairness of the steps of each run: no step of the
program waits for another run, so a process that is not killed goes on.
`BackupsScheduled` is strong fairness of starting each backup that may start:
the operator's cron retries it, though other runs may come in between. Neither
assumes anything of crashes or edits; these are bounded by `MaxEvents`, so
`RetrySucceeds` speaks of the time after the last of them.

## 4. What disagrees with its documentation

1. `shared_tmp`: `hbackup.1:197` says that nhbackup rehashes "the data written to
   the repository". `backup.cc:330-339` hashes what it *read*. Both of two runs
   that store one content open the same `HASH.tmp` with `O_TRUNC`; the second
   truncates the file of the first after it is complete and before its rename, the
   first publishes an index whose object is incomplete, and if the second dies it
   stays so.
2. `read_error`: `cleanup.cc:110` catches everything, so that an I/O error while
   `--detect-bogus` hashes a good object counts as "not a valid hash" and the
   object goes.
3. `inode_collision`: `hbackup.1:359` says that the inode number serves to match links
   with one another. Backup writes `st_ino` without the device and restore matches on
   it alone (`restore.cc:81`), so that with two filesystems below one root files
   that have several links each can be restored as one file.

Others were seen in the models and have no run of their own:

* `hbackup.1:159` says that `--verify --detect-bogus` deletes the files that are wrong.
  `verify.cc:42` hashes the file and `verify.cc:46` removes what has its name by then. After
  the truncation of `shared_tmp` the object of the published index is incomplete, and the
  second backup is about to complete it through its descriptor: if it does so between the
  two lines, a good object goes, and the first index is broken for good. With two backups
  and a verification that all overlap, and no event at all, TLC finds `OnlyWrongDeleted`
  violated.
* `exists` is said to "return nonzero iff PATH exists" (`nhbackup.h:294`). Over SFTP any
  failure of the STAT means "no" (`sftp.cc:657`). Without the exception of `refused`, TLC
  finds `ExistsCurrent` violated as soon as a STAT fails.
* `backup.cc:270` records the inode number "so the restore process can
  connect hard links back together". The number comes from `lstat`, the contents from a
  later `open`. If a name is replaced in between (an editor that saves by a rename), its
  line has the new contents with the inode number of the old file, and as the first line
  of that inode it gives the new contents to the other links, which did not change.
  Without `LinksStable`, which excepts them, TLC finds `RestoredRight` violated.
* `hbackup.1:187` says hints avoid rehashing files "when they have not changed", and
  `backup.cc:236-240` compares size and times in whole seconds. A file that changes
  twice within a second keeps the hash of its old contents; `HintSound` excepts it.
  If the object of a stale hint is gone, every later backup fails the recheck
  (`backup.cc:338`), for hints are saved only by a run that succeeds.
* `local.cc:54` writes `nbytes`, not what is left, after a short write; `NoneLost` and
  `LinesRight` except what comes after.
* `hbackup:935-939`: the `sys.exit` for an index that exists is inside `if verbose`, so
  that a quiet run overwrites it without `--overwrite`. With `Verbose = FALSE` TLC finds
  `PyKept` violated.
* `hbackup:942`: the marker is tested and made in two calls. Without the excuse of
  `raced`, `PyRestorable` is violated. The markers of a killed backup also stop the
  retry that `hbackup.1:128` advises, and `--cleanup | xargs rm` removes them with
  the garbage.

## 5. What is proved

Every theorem holds for all values of the constants: any number of machines, files,
names, contents, options, deaths and edits. TLC was first asked about the inductive
invariants that say most (`IntactInv`, `PyInv`, `SftpInv`, `MatchInv`,
`StoredInv`, `ReadInv`, `AnswerInv` and `KeepInv` with a small `IdMod`, `WalkInv`, `ListedInv`, `TornInv`,
`ParentsInv`, `LeftInv`) on the instances of the runs.

| Theorem | Property | Hypotheses |
|---|---|---|
| `TypeCorrect` (`NhbackupProofs`) | `TypeOK`, `Shape` | |
| `RepositoryIntact` | `ObjectsIntact` | `OneBackup`, `RecheckHash` |
| `SweepKnowsAll` | `SweepInformed` | `CleanupsAlone` |
| `SweepLeavesNothing` | `SweepComplete` | `CleanupsAlone` |
| `NeededNotDeleted` | `OnlyWrongDeleted` | `OneBackup`, `CleanupsAlone`, `CleanupVerifyApart`, `ReadsSucceed` |
| `VerificationRight` | `VerifySound` | `OneBackup`, `CleanupVerifyApart` |
| `HintsRight`, `LinesDescribe` | `HintSound`, `LineSound` | |
| `IndexesRestorable` (`StoreProofs`) | `PublishedRestorable` | `OneBackup`, `RecheckHash`, `CleanupsAlone`, `ReadsSucceed` |
| `ImplementsStore` | `StoreSpec` (refinement) | the same four |
| `InsertAdds` (`IndexFileProofs`) | | |
| `WriterLosesNothing`, `NeededHasTheHashes` | `NoneLost`, `NeededRight` | |
| `GetbytesInOrder`, `NothingOnlyAtEnd` | `GetsInOrder`, `NothingMeansEnd` | |
| `PyTypes`, `SweepListsAll` (`HbackupProofs`) | `TypeOK`, `PySweepComplete` | |
| `FinishedRestorable`, `CutsMarked` | `PyRestorable`, `CutMarked` | |
| `FinishedKept` | `PyKept` | `Verbose`, not `OverwriteIndex` |
| `SftpTypes` (`SftpProofs`) | `TypeOK` | |
| `RepliesMatch` | `ReplyMatches` | `serial < IdMod - 1` |
| `WritesStored` | `FlushedIsStored` | `serial < IdMod - 1` |
| `ReadsInOrder` | `ReadInOrder` | `serial < IdMod - 1` |
| `AnswersTrue` (`SftpAnswerProofs`) | `ExistsCurrent`, `ListingCurrent` | `serial < IdMod - 1` |
| `TypesTrue` | `AnswerCurrent` | the same; `OPEN`, `OPENDIR`, `READLINK` not in `Faults` |
| `EffectsExact` | `EffectExact` | `serial < IdMod - 1` |
| `HandlesClosed` | `HandlesReturned` | the same; `CLOSE` not in `Faults` |
| `DirectoriesInOrder` (`RoundTripProofs`) | `DirectoriesTogether` | |
| `UnchangedInIndex` | `UnchangedListed` | |
| `NothingTorn` | `NeverTorn` | |
| `NothingLeftBehind` | `NothingLeft` | |
| `AllLinesRestored` | `LinesRestored` | |
| `UnchangedRestored` | `RestoredRight` | |

The hypotheses say when the program is safe, and are about `Overlap` and the options:
`OneBackup`, no two backups at once (`shared_tmp` shows what happens otherwise, and section 4 what a
verification adds to it);
`RecheckHash`, the default; `CleanupsAlone`, no cleanup while a backup goes on, as a
backup relies on objects that no index names yet; `ReadsSucceed`, no failing read under
`--detect-bogus` (`read_error`); `CleanupVerifyApart`, no cleanup during a verification,
which would take away what was passed, or between its steps a name that a
verification is about to remove. The runs that check the properties satisfy them.

### `Nhbackup`

`TypeOK` alone is not inductive. `StoreSmall` takes the first `st_size` bytes of the file
at the head of `todo`, so that file must have stat data; the copy takes its hash off the
head of `hashables`, so the queue must not be empty; and `Publish` renames an `INDEX.tmp`
that must be there, though indexes may be deleted by hand. `Shape` says just that.

`RepositoryIntact`: cleanups and verifications may overlap with the backup as they like,
also with `--detect-bogus` and read errors. `IntactInv` adds to the types

* `OneRun`: at most one run of backup is under way;
* `Writers`: only a run in its copy loop has a descriptor open. Then either the
  descriptor is on `HASH.tmp` of the object the run wants, and the file has
  everything that was read but the block still held in the buffer (`Flushed`); or a
  cleanup has removed the name, and no file of that name exists. Before the
  rename, a `HASH.tmp` that exists has the right hash.

`CopyFlushes` shows that writing the held block makes the file equal to what was read,
which the recheck at the end compares with the name; a cleanup can only remove the name
(`RemoveTmpIntact`), never make it name something else; and as no other run writes,
nothing happens to the file between the recheck and the rename.

Cleanup: `CleanInv` says that `needed` has the hashes of every published index but those
still on the list of the marking loop, and of all of them once the sweep has begun, and
that each index read so far had its `[end]` or is counted as bad (`SweepKnowsAll`); a
backup cannot publish another meanwhile. Whatever the sweep has listed and passed is gone,
to be kept or among `failed` (`SweepLeavesNothing`). Indexes may be deleted by hand while
this goes on.

Verification: `SeenInv` says that a descriptor is on a `HASH.tmp` or on a file that lost
its name, never on an object, and that a run stores only an object that is not there. So no
step of a backup, rechecked or not, changes an object that a verification has seen. Nor
does one repair or replace an object that is there, so one that was found wrong is
wrong still when it is removed (`StillWrong`). `NeededNotDeleted` takes this and its
counterpart for the file a cleanup is about to remove (`Condemned`) together.

Lines and hints, whatever overlaps: in `HintInv` no stamp is later than that of the file
now, so that an edit outdates every stat and hint there is, unless it falls into the
second of an earlier one (`again`); and while a file that is unchanged since its stat is
hashed, what was read is a beginning of it.

`IndexesRestorable`: `StoreInv` describes the draft of a run. Each of its files has its
line or is still to come; the hash of a line is in `inrepo`; and what is in `inrepo` is in
the repository or in the queue of the directory, which is empty between directories and
from the end of the last one on. `RepositoryIntact` and `NeededNotDeleted` give that
objects stay and are right. `ImplementsStore` maps each step:
the rename of an index (with `--overwrite` its `[end]`) adds a snapshot, the deletion of an
index (with `--overwrite` its truncation) takes one away, and all else leaves every
snapshot as it is, since neither the lines of a published index nor its objects change.

### `IndexFile`

`InsertAdds`: for every table whose chains are in the buckets of their hashes, `Insert`
gives such a table, which has the new hash and all that were in it, and nothing else in
its chains. The one arithmetic fact is that a bucket is below `TableSize`.

`Lossless` adds to `NoneLost` the types and where the loop of `writebytes` is (`WriterInv`:
`written` is 0 between writes and short of the buffer during one): a byte put
moves the end of what was put, and a write without an overrun moves bytes from the
front of the buffer to the end of the file. For `NeededRight` the invariant adds that
`needed` is a table as `InsertAdds` wants it and that what a line says of a hash has the
length of a hash; its step is `InsertAdds`.

`GetInv`: what was returned, what this call has copied and what is in the buffer, one after
the other, are the file as far as it was read. Short reads, and data that the
writer adds meanwhile, change only how far that is.

### `Hbackup`

All of its safety. `PyInv` has three layers. `TypeInv` holds whatever overlaps, and with it
`PySweepComplete`. While no two backups have raced (`raced`), at most one is past the
marker `active`, and all it does to the repository is to the one object its descriptor is
on, which is a beginning of what it copies (`Alone`, `CopyOf`); so an object that is cut
short comes from a kill (`killed`), and `unsafe` is there. While also nobody removed
`unsafe` in spite of such an object (`unmarked`), a backup that gets past it trusts only
right objects (`Needed`, `Warned`), and a cleanup keeps those of its indexes (`Keeping`).
`PyKept` needs that a run in progress writes to no finished index (`IndexNew`), which the
misplaced `sys.exit` makes true only with `--verbose` (section 4).

### `Sftp`

`SftpInv` has, with the types, the shape of the tree on the server (every name below a
directory that is there), the numbers handed out (ids and serials below the next one),
the state of the call against what it awaits (`Progress`), and `OnePlace`: a request, and
then its reply, is in one place at a time, still to be sent, in the output
buffer, in a pipe or among the received replies. From `OnePlace` follows that no reply
comes twice.

`MatchInv`, as long as `serial < IdMod - 1` (no id was used again): ids and serials
of what is on its way or awaited determine each other, but for the READDIRs
of one `contents()`, which share an id, and of these only one is ever on its way. That
the hypothesis is there is the hazard at `sftp.cc:837`: after 2^32 - 1 requests
on one connection nothing in the code rules out that two requests share an id.

`WritesStored` adds `StoredInv`, under the same hypothesis, in three parts:

* `HandleInv`: a handle has the number of the request it was given out for. The one of the
  open file, the one a listing keeps and those in a CLOSE on its way are of
  requests that have been answered, the answer used (`Settled`), and no CLOSE is for the open
  file. So the server never gives out a handle again that somebody still uses, and never
  closes the one that is written to.
* `ServerData`: what the server looks up by handle or by name is there.
* `FileInv`, by call: between calls nothing on its way changes data, and a file open for
  writing holds `done` (`Calm`); `open` has one request, whose answer is an empty file
  (`Opening`); `write` has one, with the bytes that follow `done`, and when the answer to it
  is OK they are there (`Storing`).

`ReadsInOrder` adds `ReadInv`: that the bytes returned are a beginning of the file is not
inductive, since what the next call returns was asked for by earlier ones, with other
sizes, and is still in the queue, in a pipe or in `replies`. So `ReadInv` says
of an open file that what was returned, with the buffer after it, is a beginning
of the data (`Begun`), and unless the file has failed or ended (`Ahead`):

* `Queued`: the requests of the queue ask, one after the other, for adjoining pieces, the
  last of which ends at the offset that the next request will have; and of each, wherever it
  or its reply is, it is a READ of that piece with the handle of the file, and its reply
  has the bytes there, as many as there are, or says that there are none (`ReadAt`,
  `Answers`).
* `Current`: where the buffer ends the first piece of the queue begins; during a call that waits,
  the piece that it waits for lies between.

`FileInv` gives that nothing that is on its way changes data while a file is open for reading,
and the model that other users change names only.

`AnswersTrue`, `TypesTrue` and `EffectsExact` share `AnswerInv`. `Truth` says what a reply
tells about `window`: a `STAT` that says yes, that the name was something; a `HANDLE` for
`OPENDIR`, that it was a directory; an OK for a rename, that both names have changed
hands. It is true of the names at the moment the request is served, and stays so, as
`window` grows while somebody may still ask. `Stands` says of a number in a ticket that
the request, wherever it is, is the one the call means, and the answer, if there is
one, is true. On top of it there is one part for each kind of call:

* `ExistsInv`: every entry of `inflight` and of `existence` is of a STAT about its path,
  and `window` of that path goes back to when it was first asked (`Lately`).
* `NameInv`: the only request on its way that may change names is that of the call
  (`OnlyOwn`), and with no other users its name is as it was until it is served, and after it
  if it fails (`Steady`). So a second request starts from where the first did. Between
  calls nothing on its way changes names.
* `TypeInv`: the three requests and their answers come in the order of the tickets (`Three`).
* `ListInv`: one request at a time, and what was collected, with the names in the reply
  and those the server has still to give (`left`), is a listing of the directory
  (`Lists`).

A request that fails for a reason of its own says nothing about the name. `exists`
takes it for a no (section 4). `refused` has just the names at which this has
happened since the caller first asked, and `ExistsInv` says of every entry of `existence`
that it is right or its path is in `refused`: so `AnswersTrue` is about every other name and
every yes, also when STATs do fail. `type` may deduce something else than the name was, and
`TypesTrue` says so in its hypothesis, which the runs with `type` satisfy.

`HandlesClosed` adds `HeldInv`, which says of every handle on the server who will close it
(`Held`): the open file; a CLOSE on its way; `contents`, which has it in `call.more`; or a call
that is `Seeking` a handle, and still waits for the reply with this one or has just got
it. That no other reply brings a handle rests on two more parts: an OPEN or OPENDIR on its way
is one that the call waits for (`Due`); and the reply to it is not thrown away, since a
call that seeks a handle has no CLOSE to put, whose id would become ignored, and the ids of
`ignored` are all below those it waits for. What `type` does with three answers is where `TypeInv`
comes in: while names stay, `OPEN` says that there is nothing only if `OPENDIR` failed
too. A CLOSE that the server refuses is lost, as the code ignores the reply; the
hypothesis leaves that to the server.

### `RoundTrip`

`WalkInv` says of the paths `P` the lines were written for that each has a full line at or
before it in the same directory (`Describes`, from which `PathOfLine` shows that a
reader finds these paths), that they satisfy the property, and of a run that goes
on: none of the directories still to enter is in another (`Apart`); no line is of one of
them or of anything below one (`NoneAhead`); the lines of this directory are the last ones
and sort before the names still to come (`ThisDirLast`), and so do the
subdirectories to be entered next (`SubdirsBehind`). Nothing is assumed of the tree, so
users may do to it what they like.

`UnchangedInIndex` needs some of the tree: the users' changes are those of
`Walk`, and a file that none of them has touched stays (`stable`). `ListedInv` adds to
`WalkInv`, all about the same paths `P`:

* `Steady`: the directories above a file that has not changed are directories still, as a
  directory with something in it is neither removed nor moved without what is below it.
* `LinesSay`, `StatsSay`: what the lines, and what the stat data of the directory in
  hand, say of a file that has not changed is true (`Says`, `StatSays`), and so are the
  number of its links, while these have not changed either, and its size, so that the
  first `st_size` bytes are all of it.
* `NoneMissed`: each file that has not changed, and is not beyond a mount point that is
  not crossed (`Reached`), has its line or is `Coming`: it is below a directory
  still to be entered or just to be listed, among the names still to be statted or to be
  written, or below one of these.

With no directory left nothing is `Coming`, and the index gets its `[end]` (`AllListed`).

`NothingTorn` is about the restores. `TornInv` says nothing of them while the backup
lasts, but for what was there to be files; from then on `RestOK` describes the tree below
the root and the run, of which it needs more than the file in hand:

* `Place`: which line is being restored, and that its directory is the one that the
  relative name of the next line is taken in.
* `Temp`: the temporary file of that line, by program counter. In `fill` it is a regular
  file with a beginning of the contents, in `times` one with all of them, in `rename` one
  with the times of its line too, or of another line of the same inode, if it is a link;
  and nothing is below it.
* `FilesRight`: the property, of every file that is not as it was.
* `Linked`: every entry of `inodes`, to which later lines are linked, is the path of an earlier
  line of that inode, and the file there is right, if it is still there.
* `Timed`: the directories whose times are set at the end are earlier lines too, and
  not regular files. So `utimes` on them, by name, cannot reach a file that
  was put there since.
* `OutTree`: only directories have something below them, so that removing what is in the
  way of a line takes no part of another file with it.

What makes a step keep this is the order of the lines: by `EarlierLines`, a consequence
of `DirectoriesInOrder`, no earlier line has the path of this one or that of its
temporary file, so making, filling and renaming it leaves all that was restored
alone. `DataInv` adds that contents are bytes.

For the three theorems on a restore that reports no error each operation is first put in
one of a few forms (`RunSteps`): which names come and go, and that all other files stay as
they are, but for the time of a directory in which something was made (`Frame`). `ParentsInv`
says of the index that the directory of a line, unless it is the root, is an earlier
line and a directory, and that only lines of regular files have inode numbers. `LeftInv`
says of the tree and the run, once the backup is over (`MadeInv`):

* `NamesInv`: what was not there before is the file of a line, of the kind of that line,
  or has the temporary name of one that has not been read yet, as a run that
  died leaves it. When a line is read that name is cleared; were it a directory with something
  in it, that would be of an earlier line (by `ParentsInv`) and not a temporary file
  (nothing was ever made in it).
* `AllMade`: each line the run is past has its file, made from the first line of
  its inode (`MadeLine`), and the ids of files are those of their inodes (`IdRight`); so
  that this stays true of all when one is added, `TempMade` says the same of the temporary
  file of the line in hand. Where there were errors nothing is said.
* `InodesKnown`: `inodes` has exactly the inode numbers of the lines that are filled, each
  with the path of the first of them.
* `TimesDue`, `LeftDirs`, `NewDirs`: a directory that the run has made has its time or is still
  in `dirtimes`; `left` is of directories that have a line; those that were not there before
  are empty of contents, so that one that a dead run has made is the one of its line.

Nothing is assumed of the root but that it has finitely many files, so that a new one has
an id of its own.

`UnchangedRestored` puts `UnchangedInIndex` and `AllLinesRestored` together. `SameInv`
adds that a run at its end has read the `[end]` (`EndRead`), so that no file is missing
from the index, and that links which have not changed still have all in common (`Alike`), so that
it does not matter that the file is made from what the first of them was read for. The
premise `LinksStable` of the property is what both directions about links rest on: an inode
number in the index is that of one file only.

### Assumptions

The proofs rest on the named assumptions of the modules, which TLC evaluates in every
run: `NamesAssumption` (contents are sequences of bytes, the tree has the files),
`PathsAssumption` (a file is in one directory), `OptionsAssumption`, `BoundsAssumption`,
`NoneAssumption` (None is no value, and no number), `OverlapAssumption`, `OverwriteAssumption`; for
`IndexFile` `BufferAssumption`, `CasesAssumption` (texts are bytes), the sizes of
`getbytes`, `HashSizeAssumption` and `TableSizeAssumption` (a power of 2 up to 2^24, stated
as a divisor of it); `NameAssumption`, `ByteAssumption`, `TreesAssumption` and `RootsAssumption` for
`RoundTrip` (names are numbers, there are bytes, what is backed up and what is below the root
of the restore are finitely many files in directories that are there; of what is backed
up, only regular files and links have contents, and hard links have all in common), and `PlacesAssumption` (users make
files below the root); and those of
`SftpServer` and `SftpClient` on ids, names and bounds.

### Only model-checked

* Of `RoundTrip` `TypeOK` (the temporary name of a file need not be among the names of an
  arbitrary instance).
* Of `IndexFile` `TypeOK`, `LinesRight` and `HashOfWhole`: that decoding undoes encoding for
  every string, and that the blocks of a message are cut the same however it comes, are
  inductions over folds of data and out of reach of TLAPS as installed.
* Liveness (`RunsEnd`, `RetrySucceeds`, `RestoreSucceeds`, `CallsReturn`): TLAPS does not
  reason about ENABLED.

## 6. What is not modelled

* The operations on top of the SFTP client: `Nhbackup` takes the calls on the medium
  to be atomic, `Sftp` has any caller. Of the client: connecting, several files open
  at once, servers that answer a READ with less than was asked for, the attributes
  in a directory listing (hazard at `sftp.cc:263`; the loop at `sftp.cc:185` over extended
  attributes never decrements its count).
* Power loss: `rename` without `fsync` (hazard at `local.cc:75`).
* `--preserve-atime` (hazard at `backup.cc:284`), exclusions, file name recoding,
  permissions and owners as such.
* Of the Python program `--verify`, `--restore` and its own SFTP client; a backup during
  its cleanup. `StoreSpec` is not claimed for it: `--no-rename` writes in place.
* That a reader of an index comes to its end is left out: `index_file` has safety only.
* A reader (cleanup, verification) that overlaps with an in-place rewrite of the
  index it reads (`--overwrite`): `OverwriteAssumption` excludes it.
* The compression function of SHA-1, option parsing, statistics, the benchmark and the test
  programs.

## 7. Plan

Done: all modules of section 2. Left, in this order:

1. An abstract specification of a remote medium with atomic calls, and `Sftp` shown
   to implement it; the loop of `backup_dir` that prefigures and then asks, with
   `makedirs`, on top of `SftpClient`.
2. Several `SftpFile`s at once (the index and an object); servers that answer a READ
   with less than was asked for.
3. Unsynced writes and power loss; `--preserve-atime`.
4. The rest of `hbackup`.
