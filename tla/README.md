# A specification of mini_dropbox

mini_dropbox is a small storage service in C: a single server process keeps
each user's files under `/var/minibox/<token>`, and a command line client
uploads, downloads, lists, removes files and makes directories. This directory
holds TLA+ modules that model its core, TLC configurations that check them on
small instances, and proofs checked by TLAPS. Paths below are relative to the
repository's `src/` directory.

## 1. The system

| Part | State | Operations | Where |
|---|---|---|---|
| chunk transfer | sequence counters, file offsets, messages in flight, the two files | `file_send`, `file_recv`, `chunk_send`, `chunk_recv` | `file.c`, `chunk.c` |
| upload workflow | where client and server are, the session | `cmd_upload`, `handle_upload` | `client.c`, `server.c` |
| download workflow | the same, and the size of the partial file | `cmd_download`, `handle_download` | `client.c`, `server.c` |
| sessions | table of at most 10 sessions per user: type, state, last chunk, file | `session_init`, `user_add_session`, `user_get_session`, `user_remove_session` | `session.c`, `user.c` |
| users | hash map from tokens to `User`, storage directory | `umap_put`, `umap_get`, `uman_init`, `uman_register_user` | `user_map.c`, `user_manager.c`, `user.c` |
| one-shot requests | directories and files on disk | `handle_auth`, `handle_remove`, `handle_mkdir`, `handle_list` | `server.c`, `util.c` |
| message framing | bytes on a socket | `msg_send`, `msg_recv`, `send_all`, `recv_all` | `msg.c` |
| event loop | epoll set, descriptors | `main`, `on_client_message_received`, `on_stream_req` | `server.c` |
| worker pool | threads and semaphores, without work at this commit | `worker`, `cleanup` | `server.c` |
| paths | none | `normalize_path`, `path_next_dir`, `get_user_path`, `create_directories_from_path` | `util.c` |
| client | token file | `load_token`, the commands | `client.c` |

How they interact: the event loop reads a message header, looks the user up in
the map and calls the handler. AUTH, REMOVE and MKDIR are answered at once.
UPLOAD, DOWNLOAD and LIST take the socket out of epoll, make it blocking and run
to the end *inside* the loop, so the server serves one transfer at a time and
nothing else meanwhile. Both transfer handlers find or make a session in the
user's table, agree with the client on the chunk to start at, and run the same
`file_send`/`file_recv` pair in one direction or the other. The pair is stop and
wait: one chunk, then `CHUNK_OK` or `CHUNK_AGAIN`.

What is hard in it, and what makes each part correct:

* **chunk transfer.** The acknowledgement precedes the write, the receiver
  adopts whatever number the first chunk carries, and attempts may end anywhere.
  Success must mean a complete file and the number of chunks counted must be on
  disk.
* **workflows.** The resume point of an upload travels from a session through
  one byte of a message; that of a download is the size of the partial file.
  Sessions are lost in a crash, may not fit the table, and outlive the file they
  speak of. A resumed transfer must never start behind a chunk the receiver
  lacks, "file successfully uploaded" must be true, and both sides must get
  free of each other.
* **sessions.** The table is an array of ten pointers that `malloc` did not
  clear; a full table refuses sessions silently, and removals shift one cell too
  far. No lookup may follow a wild pointer, and a file's resume point must not
  be moved by anything that happens to other files.
* **users.** Tokens may collide, tokens are registered again and again, and the
  map is rebuilt from directory names at every start. Nobody who has files may
  be unknown, and the object holding a user's sessions must not change.

* **event loop and framing.** Several clients, one thread. Requests arrive in
  pieces on non-blocking sockets; descriptors are closed twice in one place and
  never in others; a handler may keep everybody waiting. No event may be applied
  to another connection than its own, no connection may be forgotten, and every
  command must get an answer or see its connection closed.
* **worker pool.** `cleanup` runs in a signal handler against ten threads that
  free the structures it reads. No worker may run a task it does not have, and
  the shutdown must end.
* **token file.** Commands that run at the same time, or are killed half way,
  share a file that is created and written in two steps. They must end up as one
  user.
* **paths.** "." and ".." are resolved character by character in place, and the
  directories of a path are made one by one with errors that may be skipped.

`PROJECT.json` lists the hazards at their lines with the properties that cover
them.

## 2. The modules

| Module | Models | Runs |
|---|---|---|
| `FileCopy` | abstract: a copy gains the next chunk of its original, and is finished only when complete | - |
| `Transfer` | `file_send`, `file_recv`, the connection, processes that die | `transfer` |
| `Upload` (extends `Transfer`) | `cmd_upload`, `handle_upload`, the session, edits and removals | `upload`, `upload_edited`, `upload_removed` |
| `Download` (extends `Transfer`) | `cmd_download`, `handle_download`, the session, replacement of the file | `download`, `download_replaced` |
| `ResumePoints` | abstract: one resume point per file | - |
| `Sessions` | the session table of a user as the two handlers use it | `sessions` |
| `Accounts` | the user map, start-up, AUTH, UPLOAD, MKDIR, REMOVE by their effect on users and directories | `accounts` |
| `Workers` | the worker threads and `cleanup` | `server` |
| `Server` (extends `Workers`) | the event loop, its connections, requests and descriptors, several clients | `server`, `server_assert` |
| `TokenFile` | `load_token` of several commands, and what the server takes their tokens for | `token` |
| `Paths` | `normalize_path`, `get_user_path`, `create_directories_from_path` | `algorithms` |
| `ChunkCount` | the chunk counts in single precision | `algorithms` |
| `TransferProofs`, `UploadProofs`, `DownloadProofs`, `AccountsProofs`, `SessionsProofs`, `ServerProofs`, `TokenFileProofs`, `AlgorithmsProofs` (`Paths` and `ChunkCount`) | the theorems | - |

The `MC` modules give the constants their values. `MCPaths` runs the two
algorithms side by side; they share no state.

The refinement chain is `Upload`, `Download` => `Transfer` => `FileCopy`:
`UploadsByChunks` and `DownloadsByChunks` hide the control messages from the
channels and the session, and say that what is left is a run of `Transfer`. Of
the receiver's messages the reply at the head is what the chunk protocol sees
(`RepliesIn`), of the server's messages in a download the chunk at the end
(`ChunksIn`); the proofs show that there is never another one in between. The
essential step is that the chunk an attempt starts at is one before which the
receiver has everything (`ResumeSend`). `CopiesInOrder` says `Transfer`
implements `FileCopy`. `KeepsResumePoints` says `Sessions` implements
`ResumePoints`, which is what `Upload` takes a session for.

### Transfer

A file is a record `[ver, n, short]`: a version, a number of chunks and whether
the last one is short. The received file `dst` says for each position what it
holds: a chunk, nothing (`Hole`), or a short chunk written over older bytes
(`Torn`; the file is opened without `O_TRUNC`). The locals of `file_send` are
`sSeq`, of `file_recv` `rSeq`, the descriptor's offset `rPos` and, between the
acknowledgement and the write, the chunk `held`. `sPc`/`rPc` tell where each
process is. The loop conditions are `SendPc` and `RecvPc`; one trip around
`file_send`'s inner loop is `SendChunk` followed by `RecvReply`; one trip around
`file_recv` is `RecvGood` (checksum, resume test, sequence test,
acknowledgement) followed by `WriteChunk`, whose second disjunct is a `write()`
that fails and goes unnoticed. Each `return` with an error is an action of its own:
`ReadFails` (-1), `SendFails` (-5), `ReplyLost` (-6), `RecvEnd` (-1, -2),
`RecvReplyFails`, and -4 within `RecvGood`.

The connection delivers in order and loses a suffix when it breaks (`Cut`) or
when a process ends. A damaged chunk (`Corrupt`) stands for any payload whose
checksum fails, a payload cut short by a broken connection included (the code
does not look at the result of `msg_recv_payload` and computes the checksum of
what it has). A send on a connection the peer has lost may succeed or fail.

### Upload and Download

`Connect` is a client whose request reaches the server's event loop: both are in
"wait". For an upload, `ServerAccept` finds or makes the session, sends
`UPLOAD_RES` with the resume point and enters `file_recv`; `ClientRes` takes
`ResumeFrom` of it, the low byte, and enters `file_send`. `ServerInterrupted`,
`ServerFinish` and `ServerOpenFails` are the ways `handle_upload` returns after
`file_recv`; each includes the closing of the socket in `on_stream_req`.
`ClientFin` is the wait for `UPLOAD_FIN` that follows `file_send` whatever it
returned. A session that does not fit the table (`kept = FALSE`) is used and
forgotten. `ServerCrash` is the death and restart of the server, `ClientKilled`
that of the client.

For a download the client is the receiver. `Wanted` is the number of whole
chunks of the local file, sent with the request; `StartChunk` is the number the
server starts at, in which the session plays no part in the end. The server
closes the connection after its last chunk; after a failed `file_send` it sends
an ERROR that the client reads where it expects a chunk (`RecvOther`).

### Accounts

`entries` is the array of chains of `UserMap`, `users` the `User` objects by
order of allocation. `UmapGet` returns the *first* user of the chain when the key
is anywhere in it and `UmapPut` refuses a key only when the chain's first entry
has it, as the code does. `Load` is one iteration of `uman_init`'s loop. When
`opendir` fails, or `readdir` before it came to the end (`LoadFails`), the server
serves with the users it has by then; `todo` keeps the names it has not read
(`Unread`). A name that is no UUID leaves the local `uuid_t` as it was,
uninitialised (`Junk`) or from the name before; such names come from uploads of a
file given without a
'/', which the server stores as `<token>(null)` beside the user's directory
(`UploadBareName`: `strrchr` returns NULL and glibc prints `(null)`). `RemoveRoot`
is `rm /`: the directory goes, the user stays in the map. Reading the
uninitialised `next` of a map entry has two outcomes: NULL, which is modelled,
and a crash, which is the action `Crash` right after.

### Sessions

`table` is the array `User.sessions` with the element past its end that
`user_remove_session` touches when the table is full: it starts uninitialised
(`Garbage`), and with a capacity of 10 glibc's `malloc(80)` has room for it.
`Matches` and `Found` are the linear search, `RemoveAt` is the result of the
swapping loop. `req` is the running handler with the cell its session is in, or
`Nowhere` when `user_add_session` refused it. A session is identified by the path
on the server; that of a downloaded directory keeps the name the client typed
(`RawName`), because `fileinfo_from_filename` returns before it writes the name.
`file_send` is then given that name, opens it in the server's working directory
and may succeed; `DownloadDone` looks for the session under the path on the
server, does not find it, and the session stays as it was made. Names the client
types are not paths on the server, so a `RawName` is none of the model's paths.

### Workers and Server

`workers` holds for each thread where it is, its flag and its semaphore;
`FlagAndPost`, `ReadThread`, `Join` and `Destroy` are the statements of `cleanup`
for one worker. A worker frees its own `Worker`, and `cleanup` reads
`workers[i]->thread` from it: when the worker was faster, `ReadThread` has the
outcomes that the value is still there and that the process crashes. A worker
prints to `stderr` and calls `free` before it stops, and needs the C library's
locks for it. `SIGINT` may find `main` inside an `fprintf(stderr, ...)`, `perror`,
`malloc` or `free`: then `cleanup` waits for a worker while `main` holds what the
worker waits for. `lockHeld` says that this happened, and `WorkerChecks` is
disabled for a worker that is to stop. (A lock on `stdout` does no harm: no worker
prints there.)

In `Server` a request is a stream of units, two for a header and then its
payload. `Deliver` brings them one by one, so the loop may find part of a header
(`HeaderShort`: `recv_all` returns -1 with what it has consumed forgotten) or part
of a payload (the third case of `HandlePath`). What is read after that is garbage:
`Seen` lets such a header be of any type with a null or unknown token.
`batch` is the rest of `events[]`: pairs of a descriptor and the connection it was
reported for. `Close` frees a descriptor and ends the peer's command, `again`
is the descriptor the loop is about to close a second time. `busy` is the stream
request being served; between `StreamStarts` and `ServeEnds` the loop does
nothing, and what happens there is the subject of `Upload` and `Download`.
`Leaks` gives free descriptors to the files and directories nobody closes: one
for a stream request, any number for `rm_r`. `Stall` is a client that is
suspended or cut off while it is served; a client killed at any point (`Kill`)
still delivers what it sent. `Stop` is SIGINT: the connections are dropped there
and not when the process exits, since nobody reads them in between
(`DropDescriptors`). With `lockHeld`, which takes an event `main` is in the middle
of, the process never exits and its clients go on waiting; otherwise their
connections end (`Vanish`).

### TokenFile

A command is a process that opens the file with `O_EXCL` (`Create`), writes a
fresh token into it (`Write`, which may fail unnoticed), or opens and reads it
(`Open`, `Read`). An empty file leaves the message's token as it was: zeros in
auth, upload and mkdir, the stack's contents (`Junk`) in download, ls and rm.
Without a home directory `load_token` returns 1, which no command takes for an
error (`NoHome`). `Auth` and `Request` are what the server makes of the token.

### Paths and ChunkCount

A path is a sequence of components. `Component` is one trip around the loop of
`normalize_path`, `Up` its treatment of "..", `Check` the comparison with the
user's root, `MakeDir` one `mkdir` on the way. `KeepsWhatSurvives` compares what
is written after every component with a definition that counts names and ".."s,
for absolute paths and for relative ones that stay below where they start
(`StaysInside`).
`ChunkCount` counts bytes: `Ulps` are the distances neighbouring floats can have,
`Float` is the rounding of a size to single precision, `ChunksOf` the `ceil` of
the server and `ChunksHeld` the `floor` of the client, `Attempt` a download that
gets as far as it gets. `old` is the size of the file the client had before the
first attempt: `cmd_download` takes the size of any file of that name, of whatever
origin, for what an earlier attempt left.

## 3. The runs

| Run | Checks | Result |
|---|---|---|
| `transfer` | inductive invariants, `CompleteCopy`, `CountedIsStored`, `AckedIsHeld`, `NoSeqMismatch`, refinement of `FileCopy` | hold |
| `upload` | `ResumeWithinStored`, `FinOnlyWhenStored`, refinement of `Transfer` | hold for a file neither edited nor removed, with no write errors |
| `upload_edited` | `NoSeqMismatch`, `MutualWaitOnlyFromClient`, `AttemptEnds` with edits, removals and every fault | hold |
| `upload_removed` | `FinOnlyWhenStored` when the file is removed between attempts | **violated** |
| `download` | `DownloadEnds`, refinement of `Transfer` | hold for a file that is not replaced |
| `download_replaced` | `ChunksInPlace`, `NoSeqMismatch` | hold |
| `accounts` | `DirectoriesAreKnown`, `SameUserObject` | hold; names that `opendir` or `readdir` did not give are excepted |
| `sessions` | `LiveArePointers`, `OneSessionPerFile`, `HandlerInPlace`, `AtRest`, refinement of `ResumePoints` | hold |
| `server` | `EventsAreCurrent`, `EveryConnectionWatched`, `ConsumedIsAnswered`, `NoWorkerRunsATask`, `EveryCommandEnds`, `ShutdownEnds` | hold, with the exceptions the last two name |
| `server_assert` | `UnknownTypeUnreachable` | **violated** |
| `token` | `RegisteredIsSaved`, `OneUserServed`, `OnlyRealUsersServed` | hold |
| `algorithms` | `KeepsWhatSurvives`, `SuccessMeansThere`, `EndIsThere`, `NoGap` | hold |

The two violations are disagreements between the program and what it says:

* `upload_removed`: an upload is interrupted, the user removes the file, the
  session stays. The next upload resumes in the middle of a new file, and the
  server reports "file successfully uploaded" with a hole at its beginning.
* `server_assert`: `handle_mkdir` and `handle_remove` answer "user not found"
  without reading the payload. A user who has not run `auth` and sends a path at
  least as long as a header leaves it in the socket; the loop takes it for the
  next header and the server ends in `assert(0 && "Unreachable")`. The run sends
  whole requests: no lost or split message is needed.

### Known behaviour

What the models contain as the code has it, and what the properties therefore
except or do not claim:

* `file_recv` ignores what `write()` returns: with a full disk a chunk is
  missing and the upload is reported successful all the same
  (`CompleteCopy` and `FinOnlyWhenStored` are claimed without write errors only).
* `used_space` is compared and never changed, so the "Limited user storage
  space" of the repository's README limits single files.
* "invalid UUID %s, skipping user" is printed for a stray name and a user is
  registered all the same, with an uninitialised token.
* An upload whose client fails to read its own file, or whose file has become
  shorter than the resume point, leaves client and server waiting for each
  other (`MutualWaitOnlyFromClient` says these are the only such cases).
* A file edited between attempts is assembled from two versions. The one byte the
  client keeps of the resume point costs time, never correctness.
* An interrupted upload overwrites the resume point with what that attempt got
  to, which may be less than before. Sessions of downloaded directories are never
  found again and hold their slots until the server restarts, even when the download
  was successful: it then sent a file of the same name from the server's own working
  directory (`server.c:698-715`).
* A request that arrives in pieces is lost: its client waits for ever
  (the exception `lost` of `ConsumedIsAnswered` and `EveryCommandEnds`). So does
  one whose path is longer than the handler accepts.
* A silent client stops the server for everybody (`SilentClient`), and each
  transfer, listing or recursive removal uses up a descriptor
  (`NoDescriptorReturns`).
* A worker may free itself before `cleanup` reads it: the server then ends
  in a crash in place of `_exit`.
* When SIGINT interrupts `main` inside a call that holds the lock of `stderr` or of
  the heap (`server.c:509`, `541` and every other message of a handler), the first
  worker blocks in its own `fprintf` or `free` (`server.c:42`, `56`) and
  `pthread_join` waits for it for ever (`server.c:90`). The server then hangs
  with its sockets open, and clients that wait go on waiting: the exception
  `lockHeld` of `ShutdownEnds` and `EveryCommandEnds`.
* When the storage directory cannot be opened, `uman_init` prints the error and the
  server serves all the same: users with directories are told "user not found"
  until they run `auth` again (the exception `Unread` of `DirectoriesAreKnown`).
* A client killed between creating and writing the token file leaves an empty
  file, and no later command of that user is served.
* Beyond 2^24 bytes the chunk count is rounded: up to half the distance of two
  floats may be missing from the end of a file, and nobody is told. A file of
  2^24 + 1 bytes loses its last byte.
* The client's own count is rounded as well. What attempts leave are whole chunks,
  which are floats; but a file of another origin may have any size. With one of
  16781311 bytes, a byte less than 4097 chunks, a download resumes at the 4098th
  chunk and leaves a hole of one byte, or takes the file for complete if there is
  no further chunk (the exceptions of `NoGap` and `EndIsThere`, which bound what
  is missing). A local file that is longer than the server's is never cut.
* `normalize_path` and its comment disagree on relative paths: "no component to
  rewind - keep the .." (`util.c:216`), but the test at `util.c:206` takes a ".." that
  was kept for a name, since it stops at a single dot only, so that "../.." becomes
  ".". The server normalises absolute paths only, so nothing depends on it, and
  `KeepsWhatSurvives` does not speak of relative paths that lead above where they
  start.
* "mkdir" of a path that is a regular file succeeds.

### Bounds

* `MaxChunks` 3 to 5: an attempt has a first, a middle and a last chunk, and
  can be interrupted and resumed before each of them. Files of no chunk, of whole
  chunks and with a short last chunk are included.
* `ByteRange` 2 stands for the 256 values of a byte in the run `upload`, so that a
  resume point of 2 or more wraps around. In `upload_edited` it is 4: there the
  resume point reaches the client whole, so that it can be at or beyond the end
  of a file that was shortened to two chunks, and nothing is sent.
* `Quota` 4 with one file of 5 chunks in the run `upload`, so that a file is
  refused for its size; elsewhere every file fits.
* `TwoVersions`: a file of three whole chunks and one of two with a short last
  one, so that an edit shrinks, grows and changes the file.
* At most one chunk is in flight by the protocol; channels need no bound.
* `MaxUsers` 5 bounds the `User` objects of one process: two tokens and an
  uninitialised one in a single chain, each registered more than once. Four names
  can be in the storage directory, so loading is never cut off by the bound.
* `sessions`: `Capacity` 3 with two files and a directory, six kinds of session in
  all, so that the table fills, refuses, and shifts at its first, middle and last
  cell. `MaxChunks` 2 tells resume points apart.
* `server`: two clients and two descriptors, so that connections wait, a freed
  descriptor is reused while events are pending, and leaks use up the table;
  `NThreads` 10 and `MaxEvents` 64 are the program's values. Payloads of up to two
  units with `MaxPayload` 1 are accepted, split and refused.
* `token`: three processes at once and three tokens; `SYMMETRY` permutes both,
  which no definition tells apart.
* `algorithms`: every path of up to four components behind the root, and sizes
  around multiples of `CHUNK_SIZE` up to 2^30, where neighbouring floats are 64
  bytes apart, for the server's file and for the one the client has before the
  first attempt.

### Fairness

`FairUploadSpec` and `FairDownloadSpec` assume weak fairness of the steps of
running client and server processes, which the operating system's scheduler
gives, and strong fairness of `RecvGood`: a chunk sent again and again
arrives intact at last. Damage that hits every copy of a chunk keeps the loop in
`file_send` going for ever. Nothing is assumed to break connections, to kill
processes or to make users act; a broken connection is noticed by both ends
(half-open connections, which TCP without keepalive does not report, appear only
as `Stall` in `Server`).

`FairSpec` of `Server` assumes weak fairness of the loop, of `cleanup` and of each
worker, which are threads the scheduler runs (one that waits for a lock `main`
holds has no step to take); of `Deliver`, since TCP brings what
was sent; and of `Exit`, since a command that has its answer ends. It does not
assume that a suspended client goes on, that anybody is killed, or that SIGINT
comes. Deadlock is not checked in `server` and `algorithms`, where the process
ends and the algorithms return.

## 4. The proofs

`TransferProofs` proves, for files of any length and any set of files:

* `TypeCorrect`, `CountersAgree`, `NeverOutOfStep`: `NoSeqMismatch` is not
  inductive. `CountsInStep` adds why it holds: at most one message is in flight
  while the sender waits; the chunk being sent, in flight or answered with
  AGAIN is the one the receiver expects, or the receiver has received nothing; a
  reply OK means the receiver expects the next one. This part does not depend
  on what is on disk and holds with write errors as well.
* `DataInvariant`, `SuccessIsComplete`, `ResumePointIsSafe`,
  `AcknowledgedIsHeld` and `ImplementsCopy`, all under the assumption
  `~DiskFaults`. `DataInStep` ties data to counters: the disk holds only chunks of
  the file at their positions, the offset equals the count, and everything before
  the chunk in flight and before the sender's counter is written or held.

They rest on `TransferAssumption` (files have at most `MaxChunks` chunks, and
`Hole`, `Torn`, `NoChunk` are not chunks) and on the guard of `ResumeSend`: that
uploads and downloads respect it is proved next.

`UploadProofs` and `DownloadProofs` instantiate `TransferProofs` under the
refinement mapping (`Protocol`) and use its lemmas for the chunk protocol's part of
every step. What they add is what the protocol does not know: the control
messages, the session and the user. Each has two layers.

* With every fault, edit, removal and replacement allowed: `UploadCounts` and
  `DownloadCounts` are inductive. They hold the counters of the protocol
  (`Counts`, which says nothing of where a sender with nothing to send starts,
  because a file that shrank makes it start beyond the end), the order of the
  messages in flight (`NoReplyBehind`, `AnswersOnly`, `ServerWords`, `ByeIsLast`)
  and what the two sides can be doing. From them follow `UploadTypeCorrect`,
  `UploadNeverOutOfStep`, `StallsOnlyFromClient`, `DownloadTypeCorrect` and
  `DownloadNeverOutOfStep`. `ByeIsLast` is the one that is easily overlooked: the
  server takes any empty message that is not CHUNK_OK for a request to send the
  chunk again, and is never left with a DOWNLOAD_FIN in that place. `StoredInPlace`
  adds `InPlace`, without write errors.
* For a file that is left alone and without write errors (`~Editable`,
  `~Removable`, `~DiskFaults`; `~Replaceable`, `~DiskFaults`), which are the
  constants of the runs `upload` and `download`: `UploadData` says that the resume
  point of an interrupted session, and the one in an UPLOAD_RES on its way, have
  everything before them on disk; `DownloadData` that the local file has no gaps, so
  that its size says what is there. This is the guard of `ResumeSend`, so every step
  is a step of `Transfer` or leaves it alone (`AllStepsMap`), and
  `SessionResumesSafely`, `FinIsComplete`, `ImplementsChunks`,
  `UploadCopiesInOrder` and `DownloadCopiesInOrder` follow. That the assumptions are
  needed is what the run `upload_removed` shows for removals and section 3 says for
  edits and write errors.

`AccountsProofs` proves, for every hash function and any number of tokens:

* `TypeCorrect`;
* `ObjectIsStable`: the map is only appended to while the process lives, so the
  first entry of a chain, whose value `umap_get` returns, never changes
  (`PutAppends`, `RegisterKeepsKnown`);
* `EveryDirectoryHasItsUser`: the invariant `LoadedSoFar` says that every directory
  is still to be read or its user known, in `uman_init` and afterwards, which makes
  `DirectoriesAreKnown` inductive across restarts and failing directory reads.

`SessionsProofs` proves, for any files, directories and capacity, the four
invariants and `ImplementsResumePoints`. The invariants are inductive together:
`OneSessionPerFile` needs `LiveArePointers` to speak of the cells' fields, and a
removal keeps `AtRest` because `HandlerInPlace` says the cell it takes is
the handler's own. `FolderSessionNew` says that the session a directory's download
works with is as `session_init` made it, which is how a successful one leaves it.
`SetCell`, `AddCell` and `RemoveCell` say once what the three
ways to change the table do to the cells below `count`.

`ServerProofs` proves, for any clients, commands, payload lengths, descriptors,
workers and events per `epoll_wait`, `TypeCorrect`, `NoStaleEvent`,
`NoConnectionForgotten`, `NoSilentEnd` and `NoTaskIsRun`. `Inv` adds to them:

* `FlagFirst`: a semaphore is posted only for a worker whose flag is set, and the
  workers `cleanup` has not come to have none;
* `Connections` and `Events`: the open connections are exactly those that are
  watched or served, and every event is about one that is watched;
* `SecondClose`: the descriptor that is to be closed again is still free, because
  nothing is accepted, opened or served in between;
* `Queue`: a client is in the backlog or has a descriptor, never both, so that a
  new connection takes nothing away from another.

`CloseInv`, `OneShotInv` and `StreamStartsInv` are what the handlers have in
common: they close their own connection, change their own client, or begin to
serve it.

`TokenFileProofs` proves the three properties for any number of commands at
once. `OneCreator` is the heart of it: whoever is about to write finds the file
still empty and is alone, so no token that somebody has read is replaced.

`AlgorithmsProofs` proves the properties of the two algorithms.

* `Paths`, for paths of any length, any names and any root. `PathsInv` says that
  what is on disk hangs together (`Tree`) and that the prefixes made so far are there
  (`Reached`): from EEXIST follows that what is before it is a directory, and
  `DirectoriesAreMade` with it. For `NormalizesRight`, the invariant `Balance` says
  that from a surviving name on there are as many more names than ".."s as names
  survive, so that a ".." cancels the last survivor and no other. `Normalizing`,
  the two together, is kept by every component (`ComponentNormalizes`).
* `ChunkCount`, for sizes up to where `CHUNK_SIZE` is still a multiple of the
  distance of neighbouring floats (2^36 bytes; `ChunkCountAssumption`), and any file
  the client may have before. `HeldIsKnown` says that the client holds that file, whole
  chunks or the whole of the server's file. The size of whole chunks is a float
  (`WholeIsExact`), so what attempts leave is counted exactly and only the end of a
  file is rounded away; the count of a file of another origin is off by at most half
  a float's distance (`FloatNear`, `BelowFloat`, `HeldFits`).

Only model-checked: liveness (`AttemptEnds`, `DownloadEnds`, `EveryCommandEnds`,
`ShutdownEnds`), which is out of the prover's reach together with ENABLED and
induction over recursive definitions. Every other property of a passing run is
stated by a theorem.

## 5. What is left out

* Edits of a file *during* an attempt; short writes; a failing `lseek`; a
  failing `open` at the start of `file_send` (it behaves as `ReadFails` does); a
  transfer of something that is not a regular file, except for its session.
* A payload cut off inside the chunk header, where the code reads an
  uninitialised length.
* A download of a file the client has completely, in whole chunks, ends with an
  error code although nothing is wrong; the model does the same, and no property
  speaks of it.
* SIGINT while `main` still creates its workers; an `epoll_wait` that fails; an
  event with `EPOLLERR` alone, which closes the connection as `HeaderEof` does, in
  another order.
* A listing's contents, the wording of errors, option parsing, help and the
  progress bar, which are output only; names longer than `PATH_MAX`.
* The uninitialised `next` pointer of a map entry beyond the crash it leads to.
* Makefile, Dockerfile, report and unit tests hold no behaviour of the system.

## 6. Plan

All the components are modelled, but for what section 5 lists. Every safety property
of the passing runs is proved. Left, in this order:

1. A composition of `Upload` with `Sessions`, so that a resume point is followed
   from the table to the chunks for several files at once, with the theorems of
   `UploadProofs` and `SessionsProofs` carried over.
2. What holds of a file edited between attempts: which mixtures of versions an
   upload can report as complete.
