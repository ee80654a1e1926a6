# Verification of file_miver

TLA+ models, model-checking runs and machine-checked proofs for the file mover
in this repository: a program that watches source directories (local
directories, FTP servers, S3 buckets), and copies or moves every file it finds
to one or more destinations of the same three kinds.

## 1. The system

`main.cpp` builds a list of `TaskParams` (one source, its destinations, a file
mode), hands it to one `DirectoryScanner`, starts it and prints a status line
for ever. All the work is done by handlers of one `boost::asio::io_context`
that a pool of threads runs.

| Component | State | Operations | Talks to |
| --- | --- | --- | --- |
| **DirectoryScanner** (`directory_scanner.h/.cpp`) | `active_tasks_[id]` (atomic counter), `timer_[id]`, `monitor[id]`, the queue of `io_`; per group a shared `pending_operations` | `start`, `scan_directories`, `process_file`, `delete_file`, `check_completion`, `schedule_scan` | calls the listings, is called back by them once per file, posts handlers that call the transfers |
| **Stop and destruction** (`directory_scanner.h`) | `stopped`, `mutex_`, `cv_`, `threads`, a detached thread per call | `stop`, `~DirectoryScanner` | stops `io_`, joins the pool |
| **Listings** (`scaner_dirs`, `scaner_FTP`, `scaner_S3`) | local: iterator or queue, `round_robin`, mask | yield a `GroupTask` per file that matches | `process_file` through a callback |
| **Transfers** (`fs_to_*`, `ftp_to_*`, `s3_to_*`, `remove`) | files of sources and destinations, temporary files | download, upload, copy, rename, remove; return a status | file system, FTP server (curl), S3 (AWS SDK) |
| **Helpers** (`fixSlashesInURL`, curl callbacks, `utils.h`, `task_params.h`) | none, or one request | conversions, ids, parameters | |
| **main** (`main.cpp`) | the configuration | start, status line | reads `monitor` |

One cycle of a directory: `scan_directories` runs the listing; for every file
the listing calls `process_file`, which adds *n + 1* to `active_tasks_` and
posts *n* operations; each operation transfers the file to one destination; the
last one of the group either gives the extra unit back (`ONLY_MOVE`: the
transfer has removed the source) or posts `delete_file`; each handler gives its
own unit back and calls `check_completion`, which at zero arms the timer of the
next scan. A listing that fails arms a timer for `check_completion` instead.

What is hard:

* **Interleavings.** The counter is raised file by file by a listing and
  lowered by handlers of other threads; it may be zero while the listing runs.
  Then the next scan is armed, scans of one directory overlap, and one file is
  in two groups at the same time.
* **A shared timer.** `expires_after` and `async_wait` are two steps on a timer
  that several threads use; one may cancel the other's wait.
* **Failures.** Every request may fail; some transfers look at the result and
  some do not; the removal of the source ignores what the operations returned.
* **Kills.** Only the files survive; the queue and the counters do not.
* **Trees, pages and masks.** A listing walks folders with an iterator, a queue
  per FTP folder or pages of a bucket; it computes names in place, one
  destination after the other, and rotates an index over them.
* **Shutdown.** A caller, a pool and a detached thread share a mutex, a
  condition variable and a flag that is never reset.

What makes each component correct: the scanner's counter is exact, so a
directory is neither stopped for ever nor scanned by accident; a source is
removed after its transfers; no directory is forgotten. A transfer that moves a
file does not lose it, and a loss is at least reported as an error. The
destructor waits until nobody uses what it destroys. A listing hands out each
matching file once, chooses its destinations as the mode says, does not let two
files meet under one name unless a mask makes them, and ends.

## 2. Modules

| Module | Content |
| --- | --- |
| `GroupCycle` | Abstract specification: what a group of transfers promises, without threads, queue or counters |
| `Scanner` | `DirectoryScanner` from `start()` on: handlers, counters, timers; its properties, its inductive invariant and the mapping to `GroupCycle` |
| `Mover` | `Scanner` composed with the transfers, the files and a process that is killed and restarted |
| `Listing` | One listing of a source, for the three protocols: masks, recursion, pages, the round-robin index, the names, the returned status |
| `FtpSource` | The URLs with which a listing of FTP asks for its folders (`fixSlashesInURL`) |
| `FtpRemoval` | `FtpSource` composed with the server: `FtpWorker::remove` and what the server makes of its command |
| `Shutdown` | `start()`, `stop()` and the destructor: pool, detached thread, mutex, condition variable |
| `MCScanner`, `MCMover`, `MCListing`, `MCRemoval` | Instances for TLC |
| `ScannerProofs`, `CompletionProofs`, `CycleProofs` | Theorems about `Scanner`: its invariant; completion and the start of the next scan; the refinement |
| `MoverProofs`, `LossProofs` | Theorems about `Mover`: the scanner in it, types and renames; what a transfer may lose |
| `ListingProofs`, `NameProofs` | Theorems about `Listing`: what is handed out; the groups, their names and destinations |
| `ShutdownProofs` | Theorems about `Shutdown` |

`Mover` composes with `Scanner`, `FtpRemoval` with `Listing`; `FtpSource` adds to
`Listing` operators and no state. `Scanner` and
`Mover` see of a listing that it hands out files and returns a status; what
they assume of its groups (`GroupSize`, `OnlyMove`) is the property
`GroupAsScanner` of `Listing`.

### Scanner

| Code | Model |
| --- | --- |
| what a thread of the pool is doing | `pc[t]`, with the directory `job[t]`, the group `grp[t]` and the handler's index `idx[t]` |
| a `GroupTask` and its lambdas | a group `<<d, slot>>`; `at[g][i]` is where handler *i* is: counted but unposted (`owed`), `queued`, `running`, `none`; index 0 is the removal |
| `pending_operations`, `active_tasks_` | `pending_operations[g]`, `active_tasks[d]` |
| `monitor[id]->is_run` | `is_run[d]` |
| `timer_[id]` | `waiting[d]`: pending waits by what they run; `ready[d]`: expired or posted and not yet run |
| `scan_directories` | `ScanStart`, `ProcessFile` and `PostOperation` for each file, `ScanEnd` |
| an operation | `TakeHandler`, `CountDown` (`--pending_operations`), `LastOperation`, `FinishHandler` |
| `delete_file`'s handler | `TakeHandler` (index 0), `FinishHandler` |
| `check_completion`, `schedule_scan` | `CheckCompletion`, `ExpiresAfter`, `AsyncWait` |
| a timer | `TimerExpires`, then `ScanStart` or `TakeRecheck` |

Every access to a shared variable is a step of its own; each atomic operation
of the code is one action. The relaxed atomics are treated as sequentially
consistent, which is enough here: each counter is only used through its own
read-modify-write operations and a load. The two calls on a timer are modelled
as two atomic steps, although concurrent use of one `steady_timer` is a data
race for the library. `io_context` gives no order between handlers of several
threads, so the queue is a set. In `GroupSize` the listing of FTP pushes all
destinations of a `BALANCER` directory where the other two push one, as in the
code.

### Mover

A transfer is at most four steps: open or download, upload, remove, return.
`op[t].stage` says how far it has come, `op[t].body` what the upload reads.
`Checked` separates the transfers that look at the result of a request
(`fs_to_*`, `ftp_to_dir`, `ftp_to_ftp`) from those that do not (`ftp_to_s3`,
`s3_to_*`). A file at a destination is absent, `full`, or `bad` (truncated,
partial or empty). Opening for writing truncates, and whoever was writing the
same file no longer leaves it whole (`clean`). `dst` and `src` are the world
outside; `Arrive`, `Truncate` and `Held` are assumptions about it. `Held` says
that on Windows, the only platform the program builds for, a file open for
reading cannot be removed. `Restart` is a kill followed by a start: only the
files survive. `failed` remembers the files for which `process_file` counted an
error. A round robin is any choice of one destination. With `Rearrive` a name
may arrive again at any moment: the model keeps the latest version only, so
every copy of the older one, at a destination or in a transfer, becomes `bad`.

### Listing, FtpSource and FtpRemoval

| Code | Model |
| --- | --- |
| `TaskParams`, the masks of its destinations | `conf`, chosen at the start |
| the mask that does not compile, the first request or the iterator | `InvalidMask`, `OpenSource`, `OpenBucket` |
| a page of `ListObjectsV2`, its token | `NextPage`, `LastPage` |
| the entries found and not reached: iterator, `queue_info`, objects of a page | `todo`, `front` |
| `disable_recursion_pending` | `enter` |
| the call of `func`, with its group | `HandOut`, which appends to `calls[f]` |
| `replace_filename`, `round_robin` | `NamesFor`, `NextIndex` |
| a nested `recursiv_list_FTP` | `Folder`: its entries join `todo`, or it fails and is `unlisted` |
| what a listing returns | `st`: `true`, `false`, or `trap` for undefined behaviour |
| `subfolder`, `fixSlashesInURL`, the wildcard | `subfolder`, `fixSlashesInURL`, `ListUrl` |
| `FtpWorker::remove` | `RemoveDone`, `RemoveRefused`, with the name `Command` sends; `result` is what it returns |

Entries come in any order: neither the iterator nor the servers promise one, and
a nested FTP folder that is listed before its queue goes on is one of those
orders. Names and what a rewrite makes of them are constants; URLs are
sequences of tokens (a slash, a space, a percent sign, a run of plain
characters; in URLs also escapes): a name with the text `%20` is a percent sign
followed by `20`, as `curl_easy_escape` sees it.
The escapes of `curl_easy_escape`, the wildcard matching of libcurl and the
server are modelled from how the code uses them. One operation serves the three
protocols where their code is the same, and says where it is not.

### Shutdown

Handlers are counted, not named. `RunReturns` covers both reasons for
`io_.run()` to return: the context was stopped, or nothing is left to do. The
caller's wait is a predicate read under `mutex_`, sleep, wake-up. `Calls = 1`
is the destructor alone, `Calls = 2` an explicit `stop()` before it.

In `Scanner`, `Mover`, `Listing`, `FtpSource` and `Shutdown` a section *Faulty
variants* holds, for each property of a passing run, a slip the code could
plausibly have; with the variant in place of the real definition TLC finds the
property violated on the instance of its run.

## 3. What the runs check

| Run | Instance | Properties and result |
| --- | --- | --- |
| `scanner_copy` | 2 threads; one directory with 2 destinations and one with none; 2 groups alive per directory; failing listings | `ActiveTasksExact`, `RemovalAfterTransfers`, `NeverForgotten`, `EmptyGroupEndsScanning`, `RunShown`, `IInv`, and `ImplementsCycle` (refinement) hold |
| `scanner_live` | 2 threads, 2 destinations, failing listings, fair | `RescannedForever` and `GroupsFinish` hold |
| `scanner_completion` | 2 threads, 2 files | **`AllTasksCompleted` is violated**: "All tasks completed" is logged while a listing still hands out files |
| `mover_rename` | DIR to DIR, 2 threads, 2 files that may arrive again at any time, overlapping scans, failing renames, 1 kill | `NoLoss` and `ActiveTasksExact` hold |
| `mover_side` | 1 thread; DIR to S3, FTP to DIR, and a balanced directory; failures, 1 kill | `NoLoss` (for the moves) and `CycleDrained` hold |
| `mover_copy` | FTP to {DIR, FTP}, 2 threads, failures of requests and listings | `LossReported` holds |
| `mover_silent` | FTP to S3, as configured in `main.cpp` | **`LossReported` is violated**: the result of neither request is looked at |
| `mover_live` | DIR to FTP, 2 threads, 2 files, requests succeed, fair | `Moved` holds |
| `shutdown` | 2 pool threads, 1 call of `stop()`, fair | `SafeDestroy` and `StopReturns` hold |
| `listing` | 3 protocols, 7 lists of destinations, COPY and BALANCER, with and without a mask, with and without recursion, failures, fair | `HandedOnce`, `CompleteWhenTrue`, `GroupAsScanner`, `Balanced`, `NamesApart`, `AsksForFolder` and `ListingEnds` hold |
| `ftp_delete` | one file on FTP with a space in its name | **`RemovesTheFile` is violated**: DELE names the escaped form, the server refuses it and the file stays |
| `shutdown_twice` | 2 calls of `stop()` | **`SafeDestroy` is violated**: `stopped` is still set from the first call |

`scanner_copy`, `mover_side`, `listing` and `shutdown` also check the type
invariants.

### Bounds

* `MaxFiles` files per listing, `Slots` groups of a directory alive at a time,
  `MaxReady` expired timer handlers waiting. Two slots let a file be in two
  groups at once and two scans overlap; a second file lets the counter reach
  zero and rise again within one listing.
* Two threads: one lists or transfers while the other counts down, checks or
  arms the timer. The races listed above are between two actors. One thread is
  a case of its own (`hardware_concurrency()` may be 1): there `CycleDrained`
  holds, with two threads it does not.
* Two destinations: the smallest group with a first and a last operation.
* `MaxReady = 1` in `mover_rename` and `mover_copy`, so that re-arrivals at every
  moment, and listings that fail, stay within reach. Scans still overlap: in
  `mover_copy` two threads transfer one file at once, and a second download
  truncates the whole copy of a file whose source is gone. Listings succeed in
  `mover_rename`.
* The tree of `listing` has a folder within a folder, a folder beside them, a
  file at every depth, names that come twice and one that does not match: a
  page or a folder boundary, a rotation that wraps and a group that starts
  where the previous one ended all happen. Two matching files lie in one folder,
  `a.bin` and `xa.bin`. The masks of destinations leave a name alone, change it
  once, give every file the same name, or (`x\0`) make of it a name that the next
  destination rewrites again and that another file has to begin with: in
  another order of the destinations the two files would meet.
* `MaxCrashes = 1` where the property survives a kill. `LossReported` is about
  one life of the process, so its runs have none.
* `ScanEnd` may succeed in `Mover` before every file was handed out only when
  all slots are taken.

A proof removes these bounds for the properties listed in section 4.

### Fairness

Handlers that run go on (weak fairness of `HandlerStep`): the listings and
transfers are assumed to return. A timer expires. A handler in the queue is
taken in the end: `io_context` serves its queue first in, first out, which a
set does not express, so taking a given handler is strongly fair (it can be
taken again and again, whenever a thread is idle). In `Shutdown` only steps of
threads that cannot block are fair, and the handlers end. In `Listing` the
thread that runs the listing goes on with it (weak fairness of `ListingNext`).
That listings and handlers end is an assumption of `Scanner`, `Mover` and
`Shutdown`; the loop over a file on FTP that does not match breaks it
(`ftp_worker.cpp:83`, below).

### Disagreements found

The four violated properties are listed with their source lines under
"findings" in `PROJECT.json`. Further observations, from the models or from runs
that are not kept:

* With two threads and overlapping scans, `NoLoss` fails for a move from FTP to
  a directory (the second download truncates the destination, then fails
  because the source is gone), for a move from a directory to FTP (the
  second upload opens the source after the first has closed it and before it
  removes it) and for a move from a directory to S3 (the second puts an empty
  object after the first has removed the source).
* With `Rearrive`, `LossReported` fails for copies even when every request
  succeeds: a source that is replaced after its copies were made and before
  `delete_file` is removed, and its new version is neither copied nor reported.
* A file listed by two overlapping scans is uploaded to S3 by the second after
  the first moved it away. The comment "Verify that the file exists." at
  `s3_worker.cpp:36` is followed by no check.
* `io_.run()` in `stop()` "will finish when all handlers have been executed"
  (`directory_scanner.h:65`), but `io_` is stopped before: queued handlers are
  dropped.
* An FTP listing meets a file that does not match its mask: `continue` leaves
  it at the front of the queue and the loop never ends (`ftp_worker.cpp:83`).
  `ListingEnds` states the exception; every other listing ends.
* `disable_recursion_pending` is called once, before the loop: without
  recursion a directory enters every folder but its first entry, and on an
  empty directory the call is undefined, as is `round_robin % 0` of a balanced
  directory without a destination. The model returns `trap` there; that it does
  so nowhere else is its two guards, not a property.
* An FTP source without any entry is an error for the code
  (`ftp_worker.cpp:68`): the listing returns false, and the counter is checked
  after ten minutes where an empty directory is scanned again after ten seconds.
* A balanced FTP directory pushes every destination, so each gets each file
  (`ftp_worker.cpp:106`); the other two listings push one.
* The mask of a destination is a rewrite, not a pattern: `".*"` in `main.cpp:41`
  gives every file of the destination the name `.*`. `NamesApart` says that
  only such a mask makes two files meet.
* The name for a destination is computed from the name for the one before it
  (`filesystem_worker.cpp:34`). That this lets no two files meet rests on every
  file being rewritten in the same order: the index of a balanced FTP directory
  turns by whole turns (`ftp_worker.cpp:104`). Were it to advance by one from
  file to file, as round robin usually does, `a.bin` and `xa.bin` would meet at
  a destination of the list `x\0`, none: this is the faulty variant `TurnByOne`.
* The loop of `fixSlashesInURL` over double slashes starts where the first loop
  ended, at `npos`, and does nothing. `AsksForFolder` holds without it, as the
  source path ends in one slash.

## 4. What is proved

All for every value of the constants that satisfies the assumptions of the
module: `ConstantsAssumption` and `MoverAssumption` (finite sets, numbers and
modes in range, no `BALANCER` without a destination), `ListingAssumption` (the
entries form a tree below the source, `above` being the path to an entry, and
the files of a folder differ in name),
`FtpAssumption` (paths and names are tokens, the source path ends in a slash),
`ShutdownAssumption`.

* `ScannerProofs`: `Inductive` (`Spec => []IInv`) and, from it, `TypeCorrect`,
  `ExactCounter` (`ActiveTasksExact`), `RemovalIsLast`
  (`RemovalAfterTransfers`), `AlwaysRescheduled` (`NeverForgotten`) and
  `RunIsShown` (`RunShown`).
* `CompletionProofs`: `EmptyGroupsEndScanning` (`EmptyGroupEndsScanning`) for
  any number of threads; `OneThreadDrains` (`CycleDrained`) for one thread and
  listings that succeed.
* `CycleProofs`: `ScannerImplementsCycle`, every step of `Scanner` is a step of
  `GroupCycle` or leaves its variables alone.
* `MoverProofs`: `MoverKeepsScanner`, the composed system keeps the invariant
  and the safety properties of `Scanner`, restarts included;
  `MoverTypeCorrect` (`MoverTypeOK`); and `RenameNeverLoses`, `NoLoss` for
  directories that are moved to one local directory, re-arrivals included.
* `LossProofs`: `LossIsReported` (`LossReported`), for any number of threads and
  overlapping scans, when no source and no destination is a bucket, names
  arrive once and the process is not killed; `OneThreadNeverLoses` (`NoLoss`),
  with one thread and listings that succeed, when no move goes from a bucket or
  from FTP to a bucket and names arrive once, whatever request fails and
  however often the process is killed; `OneThreadMoverDrains`, the theorem of
  `CompletionProofs` for the composed system, restarts included;
  `MoverImplementsCycle`, which gives `Spec` and
  `ImplementsCycle` for the composed system until it is killed.
* `ListingProofs`: `HandedAtMostOnce` (`HandedOnce`), `CompleteListing`
  (`CompleteWhenTrue`) and `GroupsAsScanner` (`GroupAsScanner`), for every tree,
  every way a bucket is cut into pages and every list of destinations.
* `NameProofs`: `ListingTypes` (`ListingTypeOK`), `EvenlyBalanced` (`Balanced`),
  `NamesStayApart` (`NamesApart`) and `FoldersAskedFor` (`AsksForFolder`), all
  without a hypothesis.
* `ShutdownProofs`: `ShutdownTypeCorrect` (`TypeOK`) for any number of calls of
  `stop()`, and `DestructionIsSafe` (`SafeDestroy`) for one.

The argument. `ActiveTasksExact` alone is not inductive: a handler that gives
its unit back must be known to be counted, so a thread's group and index must
point to a place that is `running` and that no other thread runs (`OwnerInv`),
and the places must have threads behind them (`PlaceInv`). The removal is
posted by the operation that finds `pending_operations` at zero; that it is
the last one needs `pending_operations` to be the number of operations that
have not counted down (`PendingInv`, a cardinality), and that the extra unit is
owed until exactly then (`RemovalInv`). `NeverForgotten` then follows step by
step: a handler that ends with a counter above zero leaves another unit, and
its owner is a handler or a thread. `RenameNeverLoses` adds that such a
directory never removes a file outside `Rename`, which takes the file from the
source and puts it at the destination in one step. `MoverTypeCorrect` needs
that a group in use has a file (`GroupNamed`), which `OwnerInv` carries from
the thread to its group.

`EmptyGroupsEndScanning` rests on a count of *tokens*: what may start the next
scan of a directory is a pending wait, a posted handler of the timer or a
thread. A directory without a destination has one token, and the first file it
lists leaves `active_tasks_` above zero, where no check arms the timer. With one
thread a directory that may scan has no work left (`DrainInv`): the listing, the
only thread, posts nothing while a token waits, and every other token is made by
the handler that finds the counter at zero. The hypotheses are needed: TLC finds
`CycleDrained` violated with two threads, and with one thread and a listing that
fails after its first file.

`LossIsReported` keeps an account of every file and destination: the copy is
whole, the file is counted as an error, or a transfer that has touched it is at
work and answers for it (`Accounted`). A group answers for its transfers that
have been counted down (`GroupsAnswer`), so the removal, which comes after all of
them, leaves a source gone with every destination accounted for. The account
survives a second transfer of the same file that truncates the copy, as this one
then answers for it, and it is the reason why each hypothesis is there: an
upload to a bucket counts no error, a kill forgets the errors, a name that
arrives again makes an old copy stale.

`OneThreadNeverLoses` adds to `DrainInv` that a file a move has still to transfer
is in the source (`MovesPresent`), that it has one group or is still to be
handed out (`MovesApart`), and that a transfer which reaches the removal has
read all of the file and left it whole at its destination (`MoveStages`).
`LossInv` and `MoveInv`, the two invariants of these proofs, were checked by TLC
on small instances with two groups of a directory alive before they were proved.

For the listings, `LInv` relates what is live (found and not dealt with) to
what was handed out: nothing live or still in the bucket has been handed out,
and nothing below a live folder has been found (`LTree`). Entering a folder
keeps `LTree` because two folders with a common entry lie one below the other.
`CompleteWhenTrue` adds that every file is settled or pending: live, in the
bucket, or below a live folder. `GroupAsScanner` needs that the index stays
within the number of destinations, and that a remainder over one turn of the
rotation is injective.

For the shutdown, one conjunct says that the detached thread holds `mutex_`
from the moment it sets `stopped` until it has notified: so a caller that finds
`stopped` under `mutex_` finds that thread done. With a second call the flag is
still set from the first, and `shutdown_twice` shows the consequence.

The names of a group are a recursive function over its destinations. That it
unfolds at every destination is proved with `LeastNatural`: the functions that
obey the recursion up to each number exist and agree, as a least number at which
they did not would contradict the step. The types follow from its unfolding by the
same argument. For `NamesApart`, two files that meet have groups with the same
destinations in the same order (`Handed`: one destination, or all of them from
the first on, as the index of FTP stands at a whole turn, `FullTurns`); their
names differ at first and agree in the end, and the least index at which they
agree is where a mask has merged them (`FirstMerge`). For `EvenlyBalanced`, the files
handed out are spread over the destinations from the first one on, and the index
stands where the next file goes: a step of the round robin adds one file to the
destination that had one less.

`FoldersAskedFor` shows token by token that what is escaped of a path
is the path again, that a restored slash is the only bare slash, and so that the
last one of the URL is the one that ends the path; the path itself unfolds by the
depth of the folder (the number of folders it lies in).

Only model-checked: liveness, which is out of the provers' reach. Every other
property of a passing run is stated by a theorem, some under hypotheses; without
them `NoLoss` is false for several threads that move through FTP or to a bucket,
`LossReported` with a bucket (`mover_silent`), `SafeDestroy` with a second call
of `stop()` (`shutdown_twice`).

What the properties of a listing leave open: `CompleteWhenTrue` exempts the
files below a nested FTP folder whose listing failed and below the first entry
of a directory listed without recursion, `HandedOnce` says nothing of the
folders such a directory enters all the same, and `ListingEnds` exempts the
endless loop of FTP. `RunShown` says that RUN is shown only while a listing
runs; that it is always shown then is false when scans overlap. The fields of
"hazards" in `PROJECT.json` without a property say the same of each line.

## 5. What is not modelled

* The bytes of files, credentials, the set-up of curl and the AWS SDK, the read
  and write callbacks: single requests, whose outcome is a choice of the models.
* The URLs of downloads and removals of single files, which are escaped and pass
  through `fixSlashesInURL` like that of a folder (`ftp_worker.cpp:272`, `312`,
  `389`); those of uploads, which are escaped and do not (`ftp_worker.cpp:198`,
  `342`); the keys of a bucket. A source path without its final slash, which
  `main.cpp:37` forbids.
* What `fs::relative` makes of paths: `parent` stands for the folder a file lies
  in, and a destination is told apart by it.
* A source that changes while it is listed is in `Mover` (files vanish before
  they are reached), not in `Listing`. A file that is still being written when
  it is listed is not covered.
* The order of the entries of a listing; a page of a bucket that is empty though
  more follow.
* The success count of `monitor`, logging, the status line.
* Exceptions that no handler catches (an absent bucket or entry point).
* Random ids (two directories might share one), a pool without threads.
* Resources: the curl handle leaked when a file cannot be opened
  (`ftp_worker.cpp:188`) or a mask does not compile (`ftp_worker.cpp:155`),
  temporary files of a process that is killed.
* A rename across volumes, which the library refuses with an error.

## 6. Plan

Done, in this order: `GroupCycle` and `Scanner` with their runs and proofs,
`Mover` on top of them, `Shutdown`, re-arrivals in `Mover`, `Listing` and
`FtpSource`, `FtpRemoval`, the proofs about listings, shutdown and the types of `Mover`, then
completion, names, the round robin, losses and the URLs of folders.

Next: a bound on the waits and posted handlers of a directory, which `MaxReady`
only bounds for TLC; moves by one thread when listings fail, where scans may
overlap; shorter proofs of the long steps of `LossProofs`.
