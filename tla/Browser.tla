------------------------------ MODULE Browser ------------------------------
(***************************************************************************)
(* static/dropper.js in one page: what the user does with the drop zone,   *)
(* the file input, the clipboard, the "New Folder" button and the links,   *)
(* against a server that answers in any order.  A JavaScript task is one   *)
(* step; every request is issued, handled by the server and answered in    *)
(* steps of its own.                                                       *)
(*                                                                         *)
(* htmx (2.0.8, vendored) is modelled from how dropper.js and the          *)
(* templates use it.  Requests that dropper.js makes with htmx.ajax belong *)
(* to the body: one at a time, and of those that wait only the last is     *)
(* kept.  Each link has requests of its own.  A response other than an     *)
(* error pushes the link's URL, replaces the inside of #file-browser and   *)
(* fires htmx:afterSwap; the login page, where a request without a session *)
(* is redirected to, is such a response.  The drop zone, the "New Folder"  *)
(* button and the bookmarks are outside #file-browser                      *)
(* (templates/main.html) and survive every swap.                           *)
(* The disk usage in the footer is swapped in once, after the page loads.  *)
(***************************************************************************)
EXTENDS Naturals, FiniteSets

CONSTANTS Dirs, Root,   \* the paths, of directories or not, and "."
          MaxGestures,  \* bound: drops, files picked, clicks on "New Folder", pastes
          MaxLinks,     \* bound: links clicked
          MaxUnderWay   \* bound: posts under way at a time

ASSUME BoundAssumption == /\ MaxGestures \in Nat
                          /\ MaxLinks \in Nat /\ MaxUnderWay \in Nat \ {0}

NoPath == "no path"
NoDir  == "no dir"
ASSUME RootAssumption == Root \in Dirs /\ NoPath \notin Dirs /\ NoDir \notin Dirs
None   == 0
Body   == 0

VARIABLES
  url,        \* the path parameter in the address bar, or NoPath
  view,       \* what #file-browser shows: the listing of a directory with the posts in
              \* it, the error page of a path that cannot be listed, or the login page
  lastDir,    \* localStorage's dropper_last_dir
  listeners,  \* how many times initDropzone and initMkdirButton have bound
  usage,      \* the disk usage in the footer has been loaded
  gets,       \* the list requests under way
  queued,     \* the body's next list request, or NoDir
  posts,      \* the uploads and new-folder requests under way
  answered,   \* history: the posts that succeeded and were answered, with their directory
  stored,     \* the server: posts that are on disk, with their directory
  gestures,   \* history: gestures made
  clicks,     \* history: links clicked
  clip,       \* clipboardBlob (the paste it came from), or None
  modal,      \* the preview is visible
  raced,      \* history: a list request was issued while another element's was under way
  failed,     \* history: one of the body's list requests failed
  strayed     \* history: a sort link of the error page was clicked

page    == <<url, view, lastDir, listeners, usage>>
lists   == <<gets, queued>>
server  == <<posts, stored>>
preview == <<clip, modal>>
history == <<answered, gestures, clicks, raced, failed, strayed>>
vars    == <<page, lists, server, preview, history>>

Cur(u) == IF u = NoPath THEN Root ELSE u   \* getCurrentPath
Get(src, dir, push) == [src |-> src, dir |-> dir, push |-> push, served |-> FALSE, listing |-> {}]
\* id: a gesture, and which listener handles it; 0 for the button of the preview.
Post(id, kind, phase) == [id |-> id, kind |-> kind, dir |-> Cur(url), phase |-> phase]
Show(kind, dir, listing) == [kind |-> kind, dir |-> dir, listing |-> listing]
ContentOf(dir) == {s.id : s \in {t \in stored : t.dir = dir}}

-----------------------------------------------------------------------------
(* Loading the page.                                                        *)

\* The server renders the directory of the URL or, when that cannot be listed, an
\* empty root, and leaves the URL; init binds the handlers once and, on a bare "/",
\* asks for the directory visited last and changes the URL.
Init ==
  /\ \E path \in Dirs \cup {NoPath}, last \in Dirs \cup {NoDir} :
       LET return == path = NoPath /\ last \notin {NoDir, Root} IN
       /\ url  = IF return THEN last ELSE path
       /\ gets = IF return THEN {Get(Body, last, FALSE)} ELSE {}
       /\ view \in {Show("listing", Cur(path), {}), Show("error", Root, {})}
       /\ lastDir = Cur(url)
  /\ listeners = 1 /\ usage = FALSE /\ queued = NoDir
  /\ posts = {} /\ stored = {}
  /\ clip = None /\ modal = FALSE
  /\ answered = {} /\ gestures = 0 /\ clicks = 0
  /\ raced = FALSE /\ failed = FALSE /\ strayed = FALSE

-----------------------------------------------------------------------------
(* List requests.                                                           *)

Issue(g) == /\ gets' = gets \cup {g}
            /\ raced' = (raced \/ \E h \in gets : h.src # g.src)

\* htmx.ajax: one request at a time for the body, the last one queued.
Ajax(dir) == IF \E g \in gets : g.src = Body
             THEN queued' = dir /\ UNCHANGED <<gets, raced>>
             ELSE Issue(Get(Body, dir, FALSE)) /\ UNCHANGED queued

\* Slip: refreshes the directory that is shown instead of the one in the URL.
RefreshShown == Ajax(view.dir)

refreshFileList == Ajax(Cur(url))

\* A click on a directory link or a bookmark, which push their URL, or on a sort
\* link, which does not; the error page has the root's, the login page has none.
ClickLink ==
  /\ clicks < MaxLinks /\ clicks' = clicks + 1
  /\ \/ \E d \in Dirs : Issue(Get(clicks', d, TRUE)) /\ UNCHANGED strayed
     \/ /\ view.kind # "login" /\ Issue(Get(clicks', view.dir, FALSE))
        /\ strayed' = (strayed \/ view.kind = "error")
  /\ UNCHANGED <<page, queued, server, preview, answered, gestures, failed>>

\* GET /files: the server reads the directory.
ServerLists(g) ==
  /\ ~g.served
  /\ gets' = (gets \ {g}) \cup {[g EXCEPT !.served = TRUE, !.listing = ContentOf(g.dir)]}
  /\ UNCHANGED <<page, queued, server, preview, history>>

\* The end of a request: the body's queued one is issued.
Finish(g) ==
  IF g.src = Body /\ queued # NoDir
  THEN /\ gets' = (gets \ {g}) \cup {Get(Body, queued, FALSE)}
       /\ queued' = NoDir
       /\ raced' = (raced \/ \E h \in gets \ {g} : h.src # Body)
  ELSE gets' = gets \ {g} /\ UNCHANGED <<queued, raced>>

\* The URL is pushed, the content swapped, and the hooks of htmx:afterSwap bind
\* the handlers once more and save the directory.
SwapIn(g, kind) ==
  /\ Finish(g)
  /\ view' = Show(kind, g.dir, g.listing)
  /\ url' = IF g.push THEN g.dir ELSE url
  /\ listeners' = listeners + 1
  /\ lastDir' = Cur(url')
  /\ UNCHANGED <<usage, server, preview, answered, gestures, clicks, failed, strayed>>

Swap(g) == g.served /\ SwapIn(g, "listing")

\* The session has ended: the request is redirected to /login, and that page is as
\* good an answer as any.
SwapLogin(g) == ~g.served /\ SwapIn(g, "login")

\* The footer's hx-get on load is swapped in too, and the hooks do not ask where
\* the swap was.
SwapDiskUsage ==
  /\ ~usage /\ usage' = TRUE
  /\ listeners' = listeners + 1
  /\ lastDir' = Cur(url)
  /\ UNCHANGED <<url, view, lists, server, preview, history>>

\* An error response or no response: nothing is swapped or pushed.
GetFails(g) ==
  /\ Finish(g)
  /\ failed' = (failed \/ g.src = Body)
  /\ UNCHANGED <<page, server, preview, answered, gestures, clicks, strayed>>

-----------------------------------------------------------------------------
(* Gestures that post.                                                      *)

Room(n) == Cardinality(posts) + n <= MaxUnderWay

Gesture == /\ gestures < MaxGestures /\ Room(listeners)
           /\ gestures' = gestures + 1

\* One event, handled by every listener that is bound.
PerListener(kind, phase) == {Post(<<gestures', k>>, kind, phase) : k \in 1 .. listeners}

\* Files, or folders that have to be traversed first, are dropped.
handleDrop ==
  /\ Gesture
  /\ \E phase \in {"sent", "reading"} : posts' = posts \cup PerListener("upload", phase)
  /\ UNCHANGED <<page, lists, stored, preview, answered, clicks, raced, failed, strayed>>

\* The file input: the first listener clears it, and the others find it empty.
PickFiles ==
  /\ Gesture
  /\ posts' = posts \cup {Post(<<gestures', 1>>, "upload", "sent")}
  /\ UNCHANGED <<page, lists, stored, preview, answered, clicks, raced, failed, strayed>>

\* "New Folder": every listener prompts for a name, and each can be cancelled.
ClickMkdir ==
  /\ Gesture
  /\ \E named \in SUBSET PerListener("folder", "sent") : posts' = posts \cup named
  /\ UNCHANGED <<page, lists, stored, preview, answered, clicks, raced, failed, strayed>>

\* Traversal is over, and only now the current directory is read.  Entries that
\* could not be read are left out, and nothing is sent when none is left.
TraverseEnds(p) ==
  /\ p.phase = "reading"
  /\ \/ posts' = (posts \ {p}) \cup {[p EXCEPT !.phase = "sent", !.dir = Cur(url)]}
     \/ posts' = posts \ {p}
  /\ UNCHANGED <<page, lists, stored, preview, history>>

\* POST /files/upload or /files/mkdir: the server stores what it does not refuse.
ServerStores(p) ==
  /\ p.phase = "sent"
  /\ posts' = (posts \ {p}) \cup {[p EXCEPT !.phase = "stored"]}
  /\ stored' = stored \cup {[id |-> p.id, dir |-> p.dir]}
  /\ UNCHANGED <<page, lists, preview, history>>

\* Slip: the list is refreshed after a new folder, but not after an upload.
LoadedQuietly(p) ==
  /\ p.phase = "stored" /\ posts' = posts \ {p}
  /\ answered' = answered \cup {[id |-> p.id, dir |-> p.dir]}
  /\ IF p.kind = "folder" THEN refreshFileList ELSE UNCHANGED <<gets, queued, raced>>
  /\ UNCHANGED <<page, stored, preview, gestures, clicks, failed, strayed>>

\* The answer to a post that succeeded: the list is refreshed.
Loaded(p) ==
  /\ p.phase = "stored" /\ posts' = posts \ {p}
  /\ answered' = answered \cup {[id |-> p.id, dir |-> p.dir]}
  /\ refreshFileList
  /\ UNCHANGED <<page, stored, preview, gestures, clicks, failed, strayed>>

\* The answer to a post that was refused: an upload whose files all failed is still
\* answered with 200, and refreshes the list; other errors only show a toast.
Refused(p) ==
  /\ p.phase = "sent" /\ posts' = posts \ {p}
  /\ \/ p.kind # "folder" /\ refreshFileList
     \/ UNCHANGED <<gets, queued, raced>>
  /\ UNCHANGED <<page, stored, preview, answered, gestures, clicks, failed, strayed>>

\* No answer, or one that is not JSON: a toast, and no refresh.
PostFails(p) ==
  /\ p.phase # "reading" /\ posts' = posts \ {p}
  /\ UNCHANGED <<page, lists, stored, preview, history>>

-----------------------------------------------------------------------------
(* The clipboard.  The handlers are bound once, by init.                    *)

\* An image is pasted, over the preview of an earlier one or not.
Paste ==
  /\ gestures < MaxGestures /\ gestures' = gestures + 1
  /\ clip' = gestures' /\ modal' = TRUE
  /\ UNCHANGED <<page, lists, server, answered, clicks, raced, failed, strayed>>

closePreview == clip' = None /\ modal' = FALSE

ConfirmPreview ==
  /\ modal /\ closePreview /\ Room(1)
  /\ posts' = IF clip # None THEN posts \cup {Post(<<clip, 0>>, "upload", "sent")} ELSE posts
  /\ UNCHANGED <<page, lists, stored, history>>

CancelPreview ==
  /\ modal /\ closePreview
  /\ UNCHANGED <<page, lists, server, history>>

-----------------------------------------------------------------------------
User    == ClickLink \/ handleDrop \/ PickFiles \/ ClickMkdir
           \/ Paste \/ ConfirmPreview \/ CancelPreview
Network == \/ SwapDiskUsage
           \/ \E g \in gets : ServerLists(g) \/ Swap(g) \/ SwapLogin(g) \/ GetFails(g)
           \/ \E p \in posts : \/ TraverseEnds(p) \/ ServerStores(p)
                               \/ Loaded(p) \/ Refused(p) \/ PostFails(p)

Next == User \/ Network

Spec == Init /\ [][Next]_vars

-----------------------------------------------------------------------------
\* Nothing is loading and a directory is on the screen; list requests of two elements
\* never overlapped, none of dropper.js's own failed, and no sort link of the error
\* page, which lists the root whatever the URL says, was clicked.
Settled == gets = {} /\ view.kind = "listing" /\ ~raced /\ ~failed /\ ~strayed

\* Then the listing on the screen is that of the directory in the address bar, the
\* one an upload would go to, also after an error page or a lost session.
ViewIsUrl == Settled => view.dir = Cur(url)

\* And it shows everything this page has been told is stored in that directory:
\* uploads that end close together share refreshes, but the last of them is listed too.
AnsweredIsShown ==
  Settled => \A s \in answered : s.dir = view.dir => s.id \in view.listing

\* Dropping files posts them once: the drop's entries are to be collected "once
\* to avoid repeated calls" (handleDrop's comment).
OneUploadPerDrop ==
  \A p, q \in posts : p.kind = "upload" /\ q.kind = "upload" /\ p.id[2] * q.id[2] # 0 =>
    (p.id[1] = q.id[1] => p = q)
=============================================================================
