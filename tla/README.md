# A TLA+ model of dropper

dropper is a small Go web server around one directory: users log in with a shared secret, browse the
directory, upload files and folders, make directories and download files. It has no database. Its state is the
file system, an audit log, sessions and counters in memory, and what a page in the browser remembers.

The modules here model the parts whose correctness depends on order: of system calls, goroutines, requests,
answers and failures. TLC checks them on small instances, and TLAPS proves the central results for every value
of the constants. `PROJECT.json` has the index: components, runs, the source lines each definition models, one
deliberately broken variant of the code for each property, hazards, findings and theorems.

```
tlc -workers 2 -config SafeWriteLinks.cfg MCSafeWrite      # a run
tlapm SafeWriteProof.tla                                   # the proofs of a module
```

## 1. Inventory

Paths are below `internal/` unless they say otherwise.

| Component | State | Operations | Talks to |
|---|---|---|---|
| write path, `dropper.fs.go` | the target directory, temp files `dropper-upload-*`, the locals of each call | `SafeWriteFile`, `atomicPlace`, `atomicPlaceRename`, `CreateDirectory` | the file system; called by the file handlers, concurrently |
| path jail and tree, `dropper.fs.go` | the directory tree with its links | `SafePath`, `resolveWithAncestorWalk`, `SafeWriteFileWithRelPath` (`os.MkdirAll`) | as above |
| listing and names, `dropper.fs.go` | none | `ListDirectory`, `sortFileEntries`, `SanitizeFilename`, `ValidateExtension` | the directory while others write to it; `HandleListFiles`, `HandleMainPage` |
| audit log, `dropper.audit.go` | `enabled`, `file`, the mutex, file handles, the inode at the path | `Log`, `Reopen`, `Close` | file and auth handlers, shutdown, an external rotation tool |
| rate limiter, `dropper.ratelimit.go` | time stamps for each address | `Allow` | `HandleLogin` |
| sessions, `dropper.session.go` | token to expiry, the cleanup goroutine, `stopCh` | `Create`, `Get`, `Delete`, `CleanupExpired`, `Stop` | auth handlers, middleware, shutdown |
| auth handlers, `dropper.handlers.auth.go` | cookies in the browser | `HandleLogin`, `HandleLogout`, `SessionMiddleware` | sessions, rate limiter, csrf check |
| file handlers, `dropper.handlers.files.go` | the locals of each request | `HandleUpload`, `HandleMkdir`, `HandleListFiles`, `HandleDownload`, `HandleMainPage` | write path, tree, audit log, metrics |
| process, `dropper.server.go`, `cmd/dropper/main.go`, `dropper.config.go` | listener, drain deadline | `LoadConfig`, `NewServer`, `Start`, `Shutdown`, signals, exit | sessions, audit log, handlers |
| page script, `static/dropper.js` | URL, listing shown, last directory, listeners, clipboard preview, requests under way | drop, pick, paste, "New Folder", traversal, refresh, htmx hooks | file handlers, in any order of answers |
| csrf check, `dropper.csrf.go` | none | one comparison per request | in front of every route |
| errors, responses, templates, health, metrics, logging, constants | fixed at start-up, or counters that only grow | | |

What is hard here:

* **Races for a name.** Uploads and folders that want one name meet between a check and a system call. The
  collision retry has a resolution of one second, and volumes without hard links take another path.
* **Partial failure.** Each system call between the creation of a temp file and its placing can fail, and so can its removal, unnoticed. A multi-file
  upload goes on after one file failed, and after an audit entry could not be written. The process may die between any two system calls.
* **State read and used later.** `Log` reads `enabled` without the mutex; `Reopen` and `Close` do their file I/O
  outside it; session times are read before the mutex is taken; the jail resolves a path twice, and a link that led nowhere
  when it did may lead on when `mkdir` follows it.
* **Shutdown.** It races with handlers that store first and log after, and with a deadline.
* **Reading a directory** is not atomic: names come and go between `os.ReadDir` and the look at each entry.
* **A page with several requests under way**, whose path may not be listed and whose session may end, and handlers that are bound again on every swap.

What makes each component correct, in one line each: a stored upload stays, whole, under the name its sender was
told; no file is written outside the root, and files are found where they were sent; log lines go to an open and
current file, and stop after `Close`; no window holds more allowed logins than the limit; a logged-out session
lets nobody in, and a live one is not evicted; what is stored is in the audit log and in the reply; a server
that is told to stop stops; a listing on the screen is of the directory that uploads go to.

## 2. Modules

| Module | Models | Granularity |
|---|---|---|
| `DropZone` | the abstract promise: each call puts at most one entry under a free name, and is answered "stored" only when it is there | one call, two steps |
| `SafeWrite` | the write path, detailed; implements `DropZone` with hard links | one system call |
| `Tree` | path jail, folder uploads and new folders over trees with links | `MkdirAll` one system call, a file's write one step |
| `AuditLog` | the audit logger and rotation | critical section, file I/O |
| `RateLimiter` | the login limiter | one call of `Allow` |
| `Auth` | csrf gate, login behind `RateLimiter` (which it extends), session store, middleware, logout, cleanup goroutine | critical section |
| `Listing` | a list request among uploads and new folders, with the answers of both routes; its writers are `DropZone`'s | one name of `ReadDir`, one `Info` |
| `Server` | the process from start-up to exit, with the handlers' store, log, count and reply | one effect of a handler |
| `Browser` | one page of `dropper.js` against the server | one JavaScript task, one network event |
| `...Proof` | the theorems about the module of that name, for all of the above but `DropZone` | |
| `MC...` | the instances TLC checks | |

`SafeWrite` and `AuditLog` are the insides of single steps of `Server` (`Write`, the `Audit...` actions), and
`SafeWrite` that of `Tree`'s `Write`. Each interaction is kept at the level where it can go wrong. Definitions whose
comment begins with "Slip" are not part of the specification: each is a plausible bug that one property must catch.

**SafeWrite.** `pc` follows the source line by line: `create` (`os.CreateTemp`), `copy` (`io.Copy` under a limit of
one byte more than allowed, byte by byte), `close`, `chmod`, `stamps` (all collision prefixes are taken before the
first try), `link`, `unlink`, and `stat`, `rename` on a volume without hard links. `cleanup` is the deferred removal.
A name is a base name with the second of its prefix, so two retries in one second really try one name. Every
step that can fail has its failing branch: `RemoveTemp` too, whose error both of its callers ignore, and `stuck` remembers the temp files that stay.
A link call fails for another reason than a taken name only where there are no hard links (`LinkUnsupported`). `Crash` ends every running call and leaves its temp file. A payload is
its length and the bytes copied so far. `Wrap` keeps the int64 arithmetic of `maxBytes+1`.

**Tree.** A location is a sequence of names and a tree maps locations to folder, file or link. `Join` is lexical as
`filepath.Join` is. `EvalSymlinks` follows links, and the `..`s in their targets out of the directory they are met in, for at most `MaxRounds` rounds
(the library stops after 255 links; 5 rounds in the runs, any number in the proofs); the ancestor walk and both jail checks are as in the source.
`Submit` does everything before `os.MkdirAll`. That is a walk up to the deepest part that is there (`MkdirAllLooks`, one `os.Stat` a step) and down again
(`MkdirAllMakes`, one `mkdir` a step). `mkdir` follows the links above its last name (`Spot`), so a link that led nowhere when the path was checked and has
come alive since is followed to where it leads now. `Check` is the second look `SafeWriteFile` takes, and `Write` may put a file where somebody wants a folder.

**AuditLog.** Handles and inodes are numbered, and `mu` is the mutex. `LogBegin` may see a stale `enabled` after it was
cleared: the read is a data race, and both outcomes are steps. `Rotate` is the external tool.

**RateLimiter.** Allow holds the mutex throughout and reads the clock under it, so it is one action with two outcomes.

**Auth.** Extends `RateLimiter`: `LoginAsks` is `Allow` and what the handler does with its answer. `LoginDraws` reads the clock
before `LoginInserts` takes the mutex; so does the sweep. A browser may present any cookie it was ever given. A write comes
with any `Origin` and `Referer` a page may send and meets `Passes`, the decision of `CSRFMiddleware`.

**Listing.** Extends `DropZone`, so its writers are the abstract ones, which `SafeWrite` implements on a volume with hard links, and adds the temp file that an
upload has in the directory before and after the entry is placed, and for good if its removal fails (`stuck`). The volume is one with hard links: by finding 1 an upload that
is replaced elsewhere is not listed either. `Skip` leaves out an entry whose name has gone, or, without a reason the model looks into (`unread`), any other. Names are numbers in the order of their bytes, and `Fold` is their order
in lower case. `ReadName` goes past one name of the directory in an arbitrary but fixed order, as POSIX allows; a name that comes or goes
meanwhile may be missed or found. `Less` is the comparison of `sortFileEntries`, and `Inserted` the insertion sort that `sort.SliceStable`
uses on at most 20 entries. `Respond` has the handlers' answers by route, client and status; a redirect is followed.

**Server.** Every error of start-up is a step that leaves. The goroutine in `Start` and the main goroutine interleave, so requests may be accepted
before `signal.Notify`, when a signal still kills. A file is `<<request, position>>` by its place in the form; the folder it is sent to is `Tree`'s.
`LogSuccess` and `LogError` are `AuditLogger.Log`: an entry is written, or cannot be written, which the handler does not hear of (`unlogged`), or the log is closed. A write to
the audit file is assumed to return; one that hangs would hold the mutex, and `Close` would wait for it. `DeadlinePasses` is `httpServer.Shutdown` returning because its context is done, with handlers
still at work; `Exit` kills them. `cut` remembers that the process did not wait for its handlers.

**Browser.** htmx is external: the model has what `dropper.js` and the templates rely on (one request of `htmx.ajax` at a
time with the last one queued, push of the URL, swap, `afterSwap`). The server handles a request at any time between
its issue and its answer, and any request may fail. `view` says what `#file-browser` shows: a listing, the error page (the root's empty listing that
`HandleMainPage` renders for a path that cannot be listed, with the URL left as it is) or the login page. A list request without a session is redirected to `/login`,
which htmx follows and swaps in like any answer, pushing the link's URL (`SwapLogin`). The session may come back, in another tab. What is sent from the login form leaves the page, and the model.

## 3. Runs

At most about two and a half minutes each with two workers.

| Run | Instance | What it shows |
|---|---|---|
| `SafeWriteLinks` | 2 uploads and a new folder, one name, sizes 0 to one over the limit, 2 retries, 1 tick, 1 crash | `StoredStays`, `VisibleIsWhole`, `NothingLeftBehind` (but for a failed removal), `ErrorsAreTrue`, `NoOverwrite`, and that the write path implements `DropZone` |
| `SafeWriteRename` | the same without hard links, 1 retry | what is left of it: nothing is left behind but by a failed removal, and every call returns (that files are whole is proved for both modes) |
| `SafeWriteOverwrite` | 2 uploads, rename mode | **violated**: the second upload replaces the first, both answered as stored |
| `TreeRequests` | 2 folder uploads and a new folder on each of 49 volumes (nothing, a folder, a file or one of four links under each of two names; one link goes up and out once a folder is made) | `StaysInside`, `FoundWhereSent`, `FoldersMerge`, `RefusedForAReason` |
| `TreeExtension` | 1 folder upload | **violated**: a refused extension leaves new directories |
| `AuditRotation` | 1 logger, 2 reopeners, 1 closer, 3 handles, 1 rotation | `WritesToOpenFile`, `NoHandleLeaks`, `FollowsRotation`, `QuietUnlessMissed`, and that every call returns |
| `AuthFront` | 2 requests, 2 addresses, limit 1 in a window of 1, 2 tokens, lifetime 1, times 0 to 2, 2 calls of `Allow` | `SlidingLimit`, `DenialJustified`, `SessionsWereAllowed`, `LoggedOutStaysOut`, `NoEarlyEviction`, `ExpiredIsSwept` |
| `Listings` | 2 uploads and a new folder, any of them there before, 2 names equal in lower case with the temp names between them, 5 list requests, 1 directory order, removals and looks that fail, 1 crash | `StoredIsListed`, `TempsAreOfTheUnanswered`, `SortedAsAsked`, `ListIsAnswered` |
| `ServerLife` | 2 requests of any kind, up to 2 files each, entries that cannot be written, handlers that may hang | `StoredIsAuditedUnlessCut`, `AuditIsTrue`, `RepliesAddUp`, `ShutdownEnds` |
| `ServerUnaudited` | the same | **violated**: after the deadline a file is stored without an audit entry |
| `BrowserPage` | 2 paths, listed or not, 2 gestures, 1 clicked link, 2 posts under way, sessions that end | `ViewIsUrl`, `AnsweredIsShown` |
| `BrowserDropTwice` | the same with 2 links | **violated**: one drop is uploaded twice |

Why these bounds are enough to be of interest: a race in `SafeWrite` needs two calls and one name, and a third actor (the
folder) that does not link. One tick separates stamps that collide from stamps that do not; two retries are the least with
a middle. `Sizes` reaches one byte over the limit, where the off-by-one is. `Tree` has link chains of two, loops, dangling links that come alive, links out
of the root directly and through a `..`, and links to a file in its two names; five rounds pass every way there is, so that only loops meet the limit. In `Auth` the clock passes a window and a
lifetime once, which is what separates a valid entry or session from an old one; the theorems cover longer windows. In `Listing` one temp name is read before the
final names and the other after them, so that an upload's temp file and entry are met in either order, and both are looked at between the two final names; the five requests are the answers that differ. Two requests in
`Server` put one handler on each side of every step of `Shutdown`. In `Browser` two gestures let a refresh be queued behind
another, and `MaxUnderWay` also bounds the listeners that can be triggered.

Deadlock is checked in `AuditRotation`, where a state without a step would mean a mutex that is never released. Elsewhere the system really may stop: the calls of an
instance are over, the process has left, or a bound is reached.

### Fairness

* `SafeWrite`: weak fairness of each call's steps. A goroutine that has a request keeps running; requests need not come.
* `AuditLog`: weak fairness of the steps of a goroutine, strong fairness of `Lock`. `sync.Mutex` changes to a
  starvation mode that hands it to the longest waiter.
* `Auth`: weak fairness of the ticker and of the sweep, which need nobody's request.
* `Listing`: weak fairness of the list request alone: `net/http` runs its handler, and a browser follows a redirect. The writers have none.
* `Server`: weak fairness of the main goroutine (`Shutdown` and the deadline's timer included) and of the one in `Start`. Handlers have none when
  `Overruns` holds, so `ShutdownEnds` is about a server whose handlers may hang.
* `Tree` and `Browser` are checked for safety only.

### Findings

1. **An upload can be lost without hard links** (`SafeWriteOverwrite`, `internal/dropper.fs.go:444`). `atomicPlaceRename`
   checks with `os.Stat` and then calls `os.Rename`, which replaces; the comment at :404 says the pair is TOCTOU-safe.
2. **A refused folder file leaves directories** (`TreeExtension`, `internal/dropper.fs.go:532`), though README and the
   comment of `SafeWriteFile` promise the extension check before any disk write.
3. **A stored file without an audit entry** (`ServerUnaudited`, `internal/dropper.server.go:136`): the log is closed after
   the drain even when the drain ended by its deadline.
4. **One drop, several uploads** (`BrowserDropTwice`, `static/dropper.js:580`): each swap binds the drop zone's handlers once more.

Behaviours that the models show and no run is about, because no document promises otherwise:

* all stamps of one upload are usually the same second, so the ten retries are one;
* with `max_upload_bytes` at the largest int64, `maxBytes+1` wraps and every upload is stored empty;
* two overlapping `Reopen`s leak a handle and may go back to a rotated file (`overlap`), though every line still goes to an open file; a failing close of the old file drops entries until the next `Reopen`. The process never calls
  `Reopen`, so these concern other users of the type;
* an audit entry that cannot be written is only reported by `slog`, and the file is stored and answered without it (`unlogged`);
* a temp file whose removal fails stays and is listed, though its upload was answered (`stuck`);
* the limiter's key of an address that never comes back is never deleted;
* a part of an upload that cannot be opened is counted as failed but not logged, and a failed file of a dropped folder is logged without its
  sub-folder;
* the temp file of an upload under way, or of a process that died, is listed (`TempsAreOfTheUnanswered` says which);
* `sortFileEntries` sorts descending by `!less`, which is no strict order: up to 20 entries it mirrors the ascending order exactly, above that
  the order of equal entries is whatever the block merge makes of it;
* a browser that is redirected from `/files` to `/` loses its sort order;
* a signal between the start of the listener and `signal.Notify` kills handlers at work, and so does a listener that fails;
* `session_ttl` of zero or less passes `LoadConfig`, and every session is then expired at once;
* a folder whose name sanitizes to `_` is merged into its parent;
* a folder drop goes to the directory that is current when the traversal ends;
* when a list refresh and a clicked link overlap, the listing may be of another directory than the URL (`raced`);
* a page opened at a path that cannot be listed keeps the path in its URL, where uploads go, under an empty root; its sort links list the root under that URL (`strayed`);
* a page whose session has ended shows the login page inside the file browser, under the URL of the link that was clicked.

Two behaviours contradict what a document says and have no run of their own:

* `internal/dropper.audit.go:143` says that after `Close` returns all subsequent `Log` calls are no-ops. A `Close` that meets a `Reopen` with the file out
  finds no file and returns at once, and `Reopen` then swaps a new file in: the logger goes on. `QuietUnlessMissed` exempts exactly this (`missed`); the process
  never calls `Reopen`, so it concerns other users of the type;
* `SafePath` keeps requests inside the root, but what it returns is used later: on a volume with a link whose target goes up, such as `a -> b/../../out`, `mkdir` for `a/x` makes
  a directory outside once somebody has made `b`. ADR-005 (`ADRs.md:68`) accepts this time of check and use, but says that it takes another process that writes to the volume; where such a link is
  there already, a concurrent request is enough. `StaysInside` exempts it (`Climbs`), for directories only: files are checked again, and never leave.

## 4. Proofs

Every safety invariant and every action property of the passing runs is also a theorem, for every value of the
constants: any number of calls, names, files, directories, links, addresses and ticks. The proofs use the named
assumptions on the constants and what the last column says, and nothing else.

| Module | Theorem | Says | Assumes also |
|---|---|---|---|
| `SafeWriteProof` | `TypeCorrect` | `Spec => []TypeOK` | |
| | `StoredStaysAlways` | `Spec => []StoredStays` | hard links |
| | `NeverOverwrites` | `Spec => NoOverwrite` | hard links |
| | `VisibleIsWholeAlways` | `Spec => []VisibleIsWhole` | `MaxBytes < MaxInt` |
| | `NothingLeftBehindAlways` | `Spec => []NothingLeftBehind` | |
| | `ErrorsAreTrueAlways` | `Spec => []ErrorsAreTrue` | |
| | `WritePathKeepsThePromise` | `Spec => ImplementsDropZone` | hard links |
| `AuditLogProof` | `TypeCorrect` | `Spec => []TypeOK` | |
| | `WritesToOpenFileAlways` | `Spec => []WritesToOpenFile` | |
| | `NoHandleLeaksAlways` | `Spec => []NoHandleLeaks` | |
| | `FollowsRotationAlways` | `Spec => []FollowsRotation` | |
| | `QuietUnlessMissedAlways` | `Spec => []QuietUnlessMissed` | |
| `RateLimiterProof` | `SlidingLimitHolds` | `Spec => []SlidingLimit` | |
| | `DenialsAreJustified` | `Spec => []DenialJustified` | |
| `AuthProof` | `AuthTypeCorrect` | `AuthSpec => []AuthTypeOK` | |
| | `LimiterInFront` | `AuthSpec => Spec`, the limiter's specification | |
| | `SessionsWereAllowedAlways` | `AuthSpec => []SessionsWereAllowed` | |
| | `LoggedOutStaysOutAlways` | `AuthSpec => LoggedOutStaysOut` | |
| | `NoEarlyEvictionAlways` | `AuthSpec => NoEarlyEviction` | |
| `ListingProof` | `ListTypeCorrect` | `ListSpec => []ListTypeOK` | |
| | `StoredIsListedAlways` | `ListSpec => []StoredIsListed` | |
| | `TempsAreOfTheUnansweredAlways` | `ListSpec => []TempsAreOfTheUnanswered` | |
| | `SortedAsAskedAlways` | `ListSpec => []SortedAsAsked` | |
| `ServerProof` | `TypeCorrect` | `Spec => []TypeOK` | `Requests` is finite |
| | `StoredIsAuditedAlways` | `Spec => []StoredIsAuditedUnlessCut` | |
| | `AuditIsTrueAlways` | `Spec => []AuditIsTrue` | |
| | `RepliesAddUpAlways` | `Spec => []RepliesAddUp` | |
| `TreeProof` | `TreeTypeCorrect` | `Spec => []TypeOK` | |
| | `StaysInsideAlways` | `Spec => []StaysInside` | |
| | `FoundWhereSentAlways` | `Spec => []FoundWhereSent` | |
| | `FoldersMergeAlways` | `Spec => []FoldersMerge` | |
| | `RefusedForAReasonAlways` | `Spec => []RefusedForAReason` | |
| `BrowserProof` | `ViewIsUrlAlways` | `Spec => []ViewIsUrl` | |
| | `AnsweredIsShownAlways` | `Spec => []AnsweredIsShown` | |

Why each assumption is true of the code: hard links are a property of the volume, and the modes without them are
covered by the theorems that do not ask for them; `max_upload_bytes` at the largest int64 is the one value for which the copy
limit wraps; a process serves finitely many requests. The named assumptions say that calls of different kinds
are different calls, that bounds are positive, that the words for "no path" and "nothing" are no directories and no calls,
and that a volume has its root directory and a target for each of its links.

**SafeWrite.** *Types.* `TypeOK` is not inductive: `LinkTaken` increments `idx`, which stays in its range only because the candidate
list is complete when the first name is tried. `TypeInv` adds `CandsComplete`, which says how long the list is at `stamps` and `link`.

*Stored uploads stay.* `LinkInv` adds two facts. `Placed`: from the moment of the link on (`unlink`, `answer`, `done`) the final
name holds the upload. `NoFallback`: with hard links no call reaches `stat` or `rename`. The lemma `StepKeepsEntries` is then all that is
needed of the other calls: an entry that exists is not changed by any step. It is also the theorem `NeverOverwrites`. The
assumption is needed: without hard links both are false (finding 1).

*Visible files are whole.* `WholeInv` follows one upload through its stages: nothing visible before `link`; from `close` on the bytes
copied are all the bytes; from `stamps` on the mode is final; and a directory entry of an upload implies it is past that.

*Nothing left behind, true errors, and the refinement.* `CallInv` follows one call to its answer: it has an entry only after the step that claims
it, and only one (`EntryInv`); a temp file only between its creation and its removal, or for good if the removal failed (`TempInv`); and an error only on its way out, with
what makes it true (`ErrorInv`: at `link`, every candidate before `idx` is taken). Names are never freed, which is why "exists" stays true;
this needs no hard links, since a rename replaces an entry but does not free one. The refinement maps each call to its outcome. `PromiseInv` adds `LinkInv` and that a made
folder keeps its name, and each step is shown to be one of `DropZone`'s or a stutter: the claim of a name is its `Put`, the two answers its `Store` and `Refuse`, a crash its
`Lose`, and what happens to temp files, stamps and counters a stutter.

**AuditLog.** `TypeOK` carries mutual exclusion: `mu = p` exactly when `p` is in a section under the mutex. `HandleInv` gives each handle one place (in
`file` or in the hands of one call, at a label that holds one), so that whoever closes a handle is the last to have it; that is why lines only go to an open file even
when Reopens overlap. `ReopenInv` is the rest, under `~overlap`: while a Reopen has the file out, `file` stays empty and the log
enabled, every open handle has an owner, and the file is as fresh as the last Reopen that returned. `QuietInv` says what a `Close` that found the file leaves behind.

**RateLimiter.** `WindowInv` relates what the code keeps to what it should answer for: the entries kept for an address are calls it was allowed,
and every allowed call of the current window is still kept. So the number the code compares with the limit is the number of recent calls, and
both properties follow. Cardinalities need the lemma that sets of entries are finite.

**Auth.** `LimiterInFront` shows that every step of the composition is a step of the limiter or leaves it alone, which
carries `WindowInv` and the limiter's theorems over. `PaidInv` counts: the tokens drawn, and the logins that are about to draw one, are no more than
the attempts that were allowed. `TokenInv` says what a request knows of its token at each label, `DistinctInv` that two logins under way never have the same, and
`OutInv` that a logged-out session is not in the store, for which a login must not be able to insert a token that was already given out.

**Listing.** `ScanInv` and `FoundInv`: `ReadDir` passes each name once, and a name whose entry was promised before the request is ahead of it, found, or in a row, unless looking at it failed (`unread`).
`RowsInv`: the rows are of the names before those still to be looked at, and `Sorted`. That is the heart of `SortedAsAsked`: the descending comparison `!less` is true of equal keys both ways, but a row is only
ever inserted behind smaller names, so the insertion sort leaves equal keys in the mirrored order and never runs into the case that would break it. A row of a temp file is of an upload that is not answered, or of a `stuck` one (`TempsOf`). The theorem is about the insertion sort at any length; the program uses it
alone for up to 20 entries.

**Server.** `ProcessInv` says that the audit log is open from the first request to the last as long as the process waits for them; `RequestInv` and `PositionInv` say where a
handler is in its files, and that no file after its position is on disk, logged or counted; `AuditedInv` and `RecordedInv` are the promises at each label of the loop: what the handler has been through is in the log or could not be written (`unlogged`).
`StoredInv` and `TotalInv` count the files on disk against the handler's counter and the metric, with the one that is between its write and its count. Their cardinalities are of sets that
grow by one item per step, so the disk is finite, whatever the constants.

**Tree.** `EvalSymlinks`, `Join` and `Parts` are recursive functions on numbers. The lemma `SetInduction`, from the well-foundedness of `<`, proves a set to be all of `Nat`; `RecursionExists` gets from
it that such a function exists and obeys its rule. On these rest the lemmas about a way through the tree: where it ends (`WalkRule`, `EvalLands`), that it may be
split in two (`WalkCat`, which rests on `LinkCat`, the same for one link or `..`), and two about a growing tree, in which a directory or a file appears where nothing was. `GrowsEval`: what is found stays found, at the same place. `OpensEval`: what was not
found may be now, when a link has come alive, but without links that climb it is then the new thing itself. `TreeInv` follows one call: from its jail check on, its target is inside the root and is the resolved beginning of its path with
the rest appended (`OnItsWay`, `Route`), and whatever of it is there leads inside, unless links climb (`StaysIn`, kept by `GrowsStaysIn`); so the place where `mkdir` really makes the next directory is inside too (`SpotInside`). `MkdirAll`'s depth is a directory's
when it goes down (`Reaches`, kept by `SpotMade`), so at its end the whole target is one, and after the second look the path leads to it (`Arrived`). `Refused` and `InTheWay` keep the reason of an error, and stay true because
requests neither remove nor replace anything and make no links.

**Browser.** `OneInv`: a refresh waits only behind a request of the body, and until requests of two elements overlap there is one list request at a time. `ShownInv`: a listing on the
screen is right, or the request under way or the one queued behind it will make it so. Each answer of an upload, each click and each swap is shown to keep that. The error page and the login page list nothing, so nothing is said of them; but the sort links of the error page ask for the root and leave the URL as it is, which is why both properties hold until one of them is clicked (`strayed`).

*Checked by TLC first.* Each of these invariants was checked on the instance of the component's run before it was proved.

*Only model-checked.* Liveness (`CallsReturn` in `SafeWriteRename` and `AuditRotation`, `ExpiredIsSwept`, `ListIsAnswered`, `ShutdownEnds`) needs fairness and `ENABLED`, which the prover does not handle. The four findings are
counterexamples and need no proof.

## 5. Not modelled

* Errors, responses, templates, health, metrics and logging: constructors, rendering and counters without an order that could go wrong. Of the
  configuration only its outcome (`LoadConfig` in `Server`); its values are the CONSTANTS.
* In modelled parts: path lengths, NUL bytes and absolute paths in the jail; a tree that somebody else changes while a request is handled
  (`ADRs.md` names that limitation); `SanitizeFilename`, `ValidateExtension` and the formats of sizes and dates (string functions); sizes in replies and
  entries; cookie attributes and password comparison; bookmarks, toasts, object URLs, the progress bar and history navigation of the page; the entries of a traversed folder.
* htmx, the Go runtime, `net/http` and the file system are external, modelled from how the code uses them.

## 6. Plan

Done: the modules above, in the order write path, audit log, limiter, server, tree, browser, then `Auth`, `Listing` and the start-up of `Server`, and the
theorems of section 4.

What an extension could still add:

1. `AuditSink`, the abstract log (lines are appended, and none after close), implemented by `AuditLog` while Reopens do not overlap, with `Server`'s audit steps on top of it.
2. An abstract browser view (a screen and the set of what was answered), implemented by `Browser` until requests overlap.
3. The refinement of `DropZone` without hard links up to the replacement of finding 1, that is, for calls that want different names.
4. In `Browser`, bookmarks, the entries of a traversal, and history navigation.
