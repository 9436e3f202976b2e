---------------------------- MODULE BrowserProof ----------------------------
(* Theorems about Browser, for any directories and any bounds.               *)
EXTENDS Browser, TLAPS

USE RootAssumption

-----------------------------------------------------------------------------
(* The inductive invariant.                                                 *)

\* The element a list request belongs to is the body or a link clicked before.
GetFields == {"src", "dir", "push", "served", "listing"}
GetInv ==
  /\ clicks \in Nat /\ raced \in BOOLEAN /\ failed \in BOOLEAN /\ strayed \in BOOLEAN
  /\ url \in Dirs \cup {NoPath} /\ view.dir \in Dirs /\ queued \in Dirs \cup {NoDir}
  /\ view.kind \in {"listing", "error", "login"}
  /\ \A g \in gets :
       /\ DOMAIN g = GetFields
       /\ g.src \in 0 .. clicks /\ g.dir \in Dirs /\ g.push \in BOOLEAN /\ g.served \in BOOLEAN

BodyGets == {g \in gets : g.src = Body}

\* Only behind a request of the body does another wait; and until list requests
\* of two elements overlap there is one at a time.
OneInv == /\ queued # NoDir => BodyGets # {}
          /\ ~raced => \A g, h \in gets : g = h

\* What has been answered is on the server's disk.
StoredInv ==
  /\ \A p \in posts : /\ p = [id |-> p.id, kind |-> p.kind, dir |-> p.dir, phase |-> p.phase]
                      /\ p.phase = "stored" => [id |-> p.id, dir |-> p.dir] \in stored
  /\ answered \subseteq stored

\* A listing of a directory with everything that has been answered for it.
Complete(dir, listing) == \A s \in answered : s.dir = dir => s.id \in listing

\* The screen is right, or the request under way will make it so: the body's is
\* for the directory in the address bar, and what is answered behind it is in the
\* one that waits; a link's shows its own directory and takes the URL along.
ShownInv ==
  /\ BodyGets = {} /\ view.kind = "listing" =>
       view.dir = Cur(url) /\ Complete(view.dir, view.listing)
  /\ queued # NoDir => queued = Cur(url)
  /\ \A g \in gets :
       /\ ~g.push => g.dir = Cur(url)
       /\ g.src = Body => ~g.push
       /\ g.served => Complete(g.dir, g.listing) \/ queued # NoDir

BrowserInv == GetInv /\ OneInv /\ StoredInv /\ (~raced /\ ~failed /\ ~strayed => ShownInv)

LEMMA BrowserInitInv ==
  ASSUME Init
  PROVE  BrowserInv
  <1>1. PICK path \in Dirs \cup {NoPath}, last \in Dirs \cup {NoDir} :
          LET return == path = NoPath /\ last \notin {NoDir, Root} IN
          /\ url  = IF return THEN last ELSE path
          /\ gets = IF return THEN {Get(Body, last, FALSE)} ELSE {}
          /\ view \in {Show("listing", Cur(path), {}), Show("error", Root, {})}
    BY DEF Init
  <1>2. /\ queued = NoDir /\ posts = {} /\ stored = {} /\ answered = {} /\ clicks = 0
        /\ raced = FALSE /\ failed = FALSE /\ strayed = FALSE
    BY DEF Init
  <1>0. \/ view.kind = "listing" /\ view.dir = Cur(path)
        \/ view.kind = "error" /\ view.dir = Root
    BY <1>1 DEF Show
  <1>3. StoredInv /\ \A d, l : Complete(d, l)
    BY <1>2 DEF StoredInv, Complete
  <1>4. CASE path = NoPath /\ last \notin {NoDir, Root}
    <2> DEFINE g == Get(Body, last, FALSE)
    <2>1. /\ url = last /\ gets = {g} /\ view.dir = Root /\ view.kind \in {"listing", "error"} /\ last \in Dirs /\ Cur(url) = last
      BY <1>0, <1>1, <1>4 DEF Cur
    <2>2. /\ DOMAIN g = GetFields
          /\ g.src = 0 /\ g.dir = last /\ g.push = FALSE /\ g.served = FALSE
      BY DEF Get, GetFields, Body
    <2> HIDE DEF g
    <2>3. GetInv
      <3>1. /\ raced \in BOOLEAN /\ failed \in BOOLEAN /\ strayed \in BOOLEAN
            /\ g.push \in BOOLEAN /\ g.served \in BOOLEAN
        BY <1>2, <2>2
      <3>2. clicks \in Nat /\ url \in Dirs /\ view.dir \in Dirs /\ queued = NoDir
            /\ g.src \in 0 .. clicks /\ g.dir \in Dirs
        BY <1>2, <2>1, <2>2
      <3> QED
        BY <2>1, <2>2, <3>1, <3>2 DEF GetInv
    <2>4. OneInv /\ ShownInv
      BY <1>2, <2>1, <2>2 DEF OneInv, ShownInv, BodyGets, Body
    <2> QED
      BY <1>3, <2>3, <2>4 DEF BrowserInv
  <1>5. CASE ~(path = NoPath /\ last \notin {NoDir, Root})
    <2>0. url = path /\ gets = {} /\ Cur(path) \in Dirs
      BY <1>1, <1>5 DEF Cur
    <2>1. /\ url = path /\ gets = {} /\ Cur(path) \in Dirs /\ view.dir \in Dirs
          /\ view.kind \in {"listing", "error"} /\ (view.kind = "listing" => view.dir = Cur(path))
      BY <1>0, <2>0
    <2>2. GetInv
      <3>1. raced \in BOOLEAN /\ failed \in BOOLEAN /\ strayed \in BOOLEAN
        BY <1>2
      <3>2. clicks \in Nat /\ url \in Dirs \cup {NoPath} /\ view.kind \in {"listing", "error", "login"}
        BY <1>2, <2>1
      <3> QED
        BY <1>2, <2>1, <3>1, <3>2 DEF GetInv
    <2>3. OneInv /\ ShownInv
      BY <1>2, <1>3, <2>1 DEF OneInv, ShownInv, BodyGets
    <2> QED
      BY <1>3, <2>2, <2>3 DEF BrowserInv
  <1> QED
    BY <1>4, <1>5

-----------------------------------------------------------------------------
(* Steps that change no list and answer nothing.                            *)

\* A step of a post: it may be sent or stored, but not answered with success.
PostsMove ==
  /\ \A p \in posts' :
       /\ p = [id |-> p.id, kind |-> p.kind, dir |-> p.dir, phase |-> p.phase]
       /\ p.phase = "stored" => [id |-> p.id, dir |-> p.dir] \in stored'
  /\ stored \subseteq stored'
  /\ UNCHANGED <<url, view, gets, queued, answered, clicks, raced, failed, strayed>>

LEMMA PostsKeep ==
  ASSUME BrowserInv, PostsMove
  PROVE  BrowserInv'
  <1> USE DEF BrowserInv, PostsMove
  <1>1. StoredInv'
    BY DEF StoredInv
  <1>2. GetInv' /\ OneInv'
    BY DEF GetInv, OneInv, BodyGets
  <1>3. ~raced' /\ ~failed' /\ ~strayed' => ShownInv'
    BY DEF ShownInv, BodyGets, Complete, Cur
  <1> QED
    BY <1>1, <1>2, <1>3

\* A new post has not been stored.
NewPost(p) == \E id, kind : \E phase \in {"sent", "reading"} : p = Post(id, kind, phase)

LEMMA NewPostsMove ==
  ASSUME BrowserInv, \A p \in posts' : p \in posts \/ NewPost(p),
         UNCHANGED <<page, lists, stored, answered, clicks, raced, failed, strayed>>
  PROVE  PostsMove
  <1>1. ASSUME NEW p \in posts', NewPost(p)
        PROVE  p = [id |-> p.id, kind |-> p.kind, dir |-> p.dir, phase |-> p.phase] /\ p.phase # "stored"
    BY <1>1 DEF NewPost, Post
  <1>2. UNCHANGED <<url, view, gets, queued, stored, answered, clicks, raced, failed, strayed>>
    BY DEF page, lists
  <1> QED
    BY <1>1, <1>2 DEF PostsMove, BrowserInv, StoredInv

LEMMA GesturesMove ==
  ASSUME BrowserInv, handleDrop \/ PickFiles \/ ClickMkdir \/ Paste \/ ConfirmPreview \/ CancelPreview
  PROVE  PostsMove
  <1>1. CASE handleDrop
    <2>1. PICK phase \in {"sent", "reading"} : posts' = posts \cup PerListener("upload", phase)
      BY <1>1 DEF handleDrop
    <2>2. \A p \in posts' : p \in posts \/ NewPost(p)
      BY <2>1 DEF PerListener, NewPost
    <2> QED
      BY <1>1, <2>2, NewPostsMove DEF handleDrop
  <1>2. CASE PickFiles
    <2>1. \A p \in posts' : p \in posts \/ NewPost(p)
      BY <1>2 DEF PickFiles, NewPost
    <2> QED
      BY <1>2, <2>1, NewPostsMove DEF PickFiles
  <1>3. CASE ClickMkdir
    <2>1. PICK named \in SUBSET PerListener("folder", "sent") : posts' = posts \cup named
      BY <1>3 DEF ClickMkdir
    <2>2. \A p \in posts' : p \in posts \/ NewPost(p)
      BY <2>1 DEF PerListener, NewPost
    <2> QED
      BY <1>3, <2>2, NewPostsMove DEF ClickMkdir
  <1>4. CASE Paste
    BY <1>4, NewPostsMove DEF Paste, server
  <1>5. CASE ConfirmPreview
    <2>1. \A p \in posts' : p \in posts \/ NewPost(p)
      BY <1>5 DEF ConfirmPreview, NewPost
    <2> QED
      BY <1>5, <2>1, NewPostsMove DEF ConfirmPreview, history
  <1>6. CASE CancelPreview
    BY <1>6, NewPostsMove DEF CancelPreview, server, history
  <1> QED
    BY <1>1, <1>2, <1>3, <1>4, <1>5, <1>6

LEMMA PostStepsMove ==
  ASSUME BrowserInv, NEW p \in posts, TraverseEnds(p) \/ ServerStores(p) \/ PostFails(p)
  PROVE  PostsMove
  <1>0. /\ p = [id |-> p.id, kind |-> p.kind, dir |-> p.dir, phase |-> p.phase]
        /\ StoredInv
    BY DEF BrowserInv, StoredInv
  <1>1. UNCHANGED <<url, view, gets, queued, answered, clicks, raced, failed, strayed>>
    BY DEF TraverseEnds, ServerStores, PostFails, page, lists, history
  <1>2. CASE TraverseEnds(p)
    <2> DEFINE q == [p EXCEPT !.phase = "sent", !.dir = Cur(url)]
    <2>1. q = [id |-> q.id, kind |-> q.kind, dir |-> q.dir, phase |-> q.phase] /\ q.phase = "sent"
      <3>1. q = [id |-> p.id, kind |-> p.kind, dir |-> Cur(url), phase |-> "sent"]
        <4>1. [p EXCEPT !.phase = "sent"] = [id |-> p.id, kind |-> p.kind, dir |-> p.dir, phase |-> "sent"]
          BY <1>0
        <4>2. q = [[p EXCEPT !.phase = "sent"] EXCEPT !.dir = Cur(url)]
          OBVIOUS
        <4> HIDE DEF q
        <4> QED
          BY <4>1, <4>2
      <3> HIDE DEF q
      <3> QED
        BY <3>1
    <2>2. posts' \subseteq posts \cup {q} /\ UNCHANGED stored
      BY <1>2 DEF TraverseEnds
    <2> HIDE DEF q
    <2> QED
      BY <1>0, <1>1, <2>1, <2>2 DEF PostsMove, StoredInv
  <1>3. CASE ServerStores(p)
    <2> DEFINE q == [p EXCEPT !.phase = "stored"]
    <2>1. q = [id |-> q.id, kind |-> q.kind, dir |-> q.dir, phase |-> q.phase] /\ q.id = p.id /\ q.dir = p.dir
      BY <1>0
    <2>2. posts' \subseteq posts \cup {q} /\ stored' = stored \cup {[id |-> p.id, dir |-> p.dir]}
      BY <1>3 DEF ServerStores
    <2> HIDE DEF q
    <2> QED
      BY <1>0, <1>1, <2>1, <2>2 DEF PostsMove, StoredInv
  <1>4. CASE PostFails(p)
    BY <1>0, <1>1, <1>4 DEF PostsMove, StoredInv, PostFails
  <1> QED
    BY <1>2, <1>3, <1>4

-----------------------------------------------------------------------------
(* Steps of the list requests.                                              *)

LEMMA ClicksKeep ==
  ASSUME BrowserInv, ClickLink
  PROVE  BrowserInv'
  <1>1. PICK d \in Dirs, push \in BOOLEAN :
          /\ Issue(Get(clicks', d, push))
          /\ ~push => /\ d = view.dir /\ view.kind # "login"
                      /\ strayed' = (strayed \/ view.kind = "error")
          /\ push => strayed' = strayed
    BY Zenon DEF ClickLink, BrowserInv, GetInv
  <1> DEFINE g == Get(clicks', d, push)
  <1>2. /\ DOMAIN g = GetFields
        /\ g.src = clicks' /\ g.dir = d /\ g.push = push /\ g.served = FALSE
    BY DEF Get, GetFields
  <1>3. gets' = gets \cup {g} /\ raced' = (raced \/ \E h \in gets : h.src # g.src)
    BY <1>1 DEF Issue
  <1> HIDE DEF g
  <1>4. /\ clicks' = clicks + 1
        /\ UNCHANGED <<url, view, queued, posts, stored, answered, failed>>
    BY DEF ClickLink, page, server
  <1>5. GetInv /\ OneInv /\ StoredInv /\ (~raced /\ ~failed /\ ~strayed => ShownInv)
    BY DEF BrowserInv
  <1>6. clicks \in Nat /\ clicks' \in Nat /\ clicks' # 0 /\ \A x \in 0 .. clicks : x \in 0 .. clicks' /\ x # clicks'
    BY <1>4, <1>5 DEF GetInv
  <1>7. GetInv'
    <2>1. raced' \in BOOLEAN /\ strayed' \in BOOLEAN
      BY <1>1, <1>3, <1>5 DEF GetInv
    <2>2. clicks' \in 0 .. clicks'
      BY <1>6
    <2>3. g.push \in BOOLEAN /\ g.served \in BOOLEAN
      BY <1>2, Zenon
    <2>4. g.src \in 0 .. clicks' /\ g.dir \in Dirs
      BY <1>2, <2>2, Zenon
    <2> QED
      BY <1>2, <1>3, <1>4, <1>5, <1>6, <2>1, <2>3, <2>4 DEF GetInv
  <1>8. ~raced' => ~raced /\ gets = {}
    BY <1>2, <1>3, <1>5, <1>6 DEF GetInv
  <1>9. OneInv'
    BY <1>3, <1>4, <1>5, <1>8 DEF OneInv, BodyGets
  <1>10. StoredInv'
    BY <1>4, <1>5 DEF StoredInv
  <1>11. ASSUME ~raced', ~failed', ~strayed' PROVE ShownInv'
    <2>1. ~strayed /\ (~push => view.kind = "listing")
      BY <1>1, <1>5, <1>11 DEF GetInv
    <2>2. ShownInv /\ gets = {} /\ gets' = {g} /\ BodyGets = {} /\ queued = NoDir
      BY <1>3, <1>4, <1>5, <1>8, <1>11, <2>1 DEF OneInv, BodyGets
    <2>3. ~g.push => g.dir = Cur(url)
      BY <1>1, <1>2, <2>1, <2>2 DEF ShownInv
    <2>4. g.src # Body
      BY <1>2, <1>6 DEF Body
    <2> QED
      BY <1>2, <1>4, <2>2, <2>3, <2>4 DEF ShownInv, BodyGets, Complete, Cur
  <1> QED
    BY <1>7, <1>9, <1>10, <1>11 DEF BrowserInv

LEMMA ListingsKeep ==
  ASSUME BrowserInv, NEW g \in gets, ServerLists(g)
  PROVE  BrowserInv'
  <1> DEFINE h == [g EXCEPT !.served = TRUE, !.listing = ContentOf(g.dir)]
  <1>1. GetInv /\ OneInv /\ StoredInv /\ (~raced /\ ~failed /\ ~strayed => ShownInv)
    BY DEF BrowserInv
  <1>2. /\ ~g.served /\ gets' = (gets \ {g}) \cup {h}
        /\ UNCHANGED <<url, view, queued, posts, stored, answered, clicks, raced, failed, strayed>>
    BY DEF ServerLists, page, server, history
  <1>3. DOMAIN g = GetFields
    BY <1>1 DEF GetInv
  <1>4. /\ DOMAIN h = GetFields
        /\ h.src = g.src /\ h.dir = g.dir /\ h.push = g.push /\ h.served = TRUE /\ h.listing = ContentOf(g.dir)
    BY <1>3 DEF GetFields
  <1> HIDE DEF h
  <1>5. GetInv'
    <2>1. h.src \in 0 .. clicks /\ h.dir \in Dirs /\ h.push \in BOOLEAN /\ h.served \in BOOLEAN
      BY <1>1, <1>4 DEF GetInv
    <2> QED
      BY <1>1, <1>2, <1>4, <2>1 DEF GetInv
  <1>6. OneInv'
    BY <1>1, <1>2, <1>4 DEF OneInv, BodyGets
  <1>7. StoredInv'
    BY <1>1, <1>2 DEF StoredInv
  <1>8. Complete(g.dir, h.listing)
    BY <1>1, <1>4 DEF Complete, ContentOf, StoredInv
  <1>9. ASSUME ~raced', ~failed', ~strayed' PROVE ShownInv'
    <2>1. ShownInv
      BY <1>1, <1>2, <1>9
    <2>2. BodyGets' = {} => BodyGets = {}
      BY <1>2, <1>4 DEF BodyGets
    <2> QED
      BY <1>2, <1>4, <1>8, <2>1, <2>2 DEF ShownInv, Complete, Cur
  <1> QED
    BY <1>5, <1>6, <1>7, <1>9 DEF BrowserInv

\* The end of a request: nothing, or the body's next one, is under way.
LEMMA FinishDoes ==
  ASSUME BrowserInv, NEW g \in gets, Finish(g)
  PROVE  \/ /\ gets' = gets \ {g} /\ UNCHANGED <<queued, raced>> /\ (g.src = Body => queued = NoDir)
         \/ \E h : /\ DOMAIN h = GetFields
                   /\ h.src = 0 /\ h.dir = queued /\ h.push = FALSE /\ h.served = FALSE
                   /\ gets' = (gets \ {g}) \cup {h} /\ queued' = NoDir /\ queued \in Dirs
                   /\ raced' = (raced \/ \E x \in gets \ {g} : x.src # Body)
  <1>1. CASE g.src = Body /\ queued # NoDir
    <2>1. /\ gets' = (gets \ {g}) \cup {Get(Body, queued, FALSE)} /\ queued' = NoDir
          /\ raced' = (raced \/ \E h \in gets \ {g} : h.src # Body)
      BY <1>1 DEF Finish
    <2>2. queued \in Dirs
      BY <1>1 DEF BrowserInv, GetInv
    <2>3. PICK h : h = Get(Body, queued, FALSE)
      OBVIOUS
    <2>4. /\ DOMAIN h = GetFields
          /\ h.src = 0 /\ h.dir = queued /\ h.push = FALSE /\ h.served = FALSE
      BY <2>3 DEF Get, GetFields, Body
    <2> QED
      BY <2>1, <2>2, <2>3, <2>4
  <1>2. CASE ~(g.src = Body /\ queued # NoDir)
    BY <1>2 DEF Finish
  <1> QED
    BY <1>1, <1>2

\* What is under way afterwards, in either case.
LEMMA FinishKeeps ==
  ASSUME BrowserInv, NEW g \in gets, Finish(g),
         UNCHANGED <<posts, stored, answered, clicks>>,
         url' \in Dirs \cup {NoPath}, view'.dir \in Dirs, failed' \in BOOLEAN,
         view'.kind \in {"listing", "error", "login"}, UNCHANGED strayed
  PROVE  /\ GetInv' /\ OneInv' /\ StoredInv'
         /\ ~raced' => ~raced
         /\ ~raced' => \/ gets' = {} /\ queued' = NoDir /\ queued = NoDir
                       \/ \E h : /\ gets' = {h} /\ queued' = NoDir /\ g.src = Body /\ queued # NoDir
                                 /\ h.src = Body /\ h.dir = queued /\ ~h.push /\ ~h.served
  <1>1. GetInv /\ OneInv /\ StoredInv
    BY DEF BrowserInv
  <1>2. StoredInv'
    BY <1>1 DEF StoredInv
  <1>3. CASE gets' = gets \ {g} /\ UNCHANGED <<queued, raced>> /\ (g.src = Body => queued = NoDir)
    <2>1. GetInv'
      BY <1>1, <1>3 DEF GetInv
    <2>2. OneInv'
      BY <1>1, <1>3 DEF OneInv, BodyGets
    <2>3. ~raced' => gets' = {} /\ queued' = NoDir /\ queued = NoDir
      BY <1>1, <1>3 DEF OneInv, BodyGets
    <2> QED
      BY <1>2, <1>3, <2>1, <2>2, <2>3
  <1>4. CASE ~(gets' = gets \ {g} /\ UNCHANGED <<queued, raced>> /\ (g.src = Body => queued = NoDir))
    <2>1. PICK h : /\ DOMAIN h = GetFields
                   /\ h.src = 0 /\ h.dir = queued /\ h.push = FALSE /\ h.served = FALSE
                   /\ gets' = (gets \ {g}) \cup {h} /\ queued' = NoDir /\ queued \in Dirs
                   /\ raced' = (raced \/ \E x \in gets \ {g} : x.src # Body)
      BY <1>4, FinishDoes
    <2>2. clicks \in Nat /\ h.src \in 0 .. clicks
      BY <1>1, <2>1 DEF GetInv
    <2>3. raced' \in BOOLEAN
      BY <1>1, <2>1 DEF GetInv
    <2>4. GetInv'
      BY <1>1, <2>1, <2>2, <2>3 DEF GetInv
    <2>5. ~raced' => ~raced /\ gets' = {h}
      BY <1>1, <2>1 DEF OneInv
    <2>6. OneInv'
      BY <2>1, <2>5 DEF OneInv, BodyGets, Body
    <2>7. g.src = Body /\ queued # NoDir
      BY <1>4 DEF Finish
    <2> QED
      BY <1>2, <2>1, <2>4, <2>5, <2>6, <2>7 DEF Body
  <1> QED
    BY <1>3, <1>4

LEMMA CurIn ==
  ASSUME url \in Dirs \cup {NoPath}
  PROVE  Cur(url) \in Dirs /\ Cur(url) # NoDir
  BY DEF Cur

LEMMA SwapsKeep ==
  ASSUME BrowserInv, NEW g \in gets, Swap(g) \/ SwapLogin(g)
  PROVE  BrowserInv'
  <1>0. PICK kind \in {"listing", "login"} : (kind = "listing" => g.served) /\ SwapIn(g, kind)
    BY DEF Swap, SwapLogin
  <1>1. /\ Finish(g) /\ view' = [kind |-> kind, dir |-> g.dir, listing |-> g.listing]
        /\ url' = IF g.push THEN g.dir ELSE url
        /\ UNCHANGED <<posts, stored, answered, clicks, failed, strayed>>
    BY <1>0 DEF SwapIn, Show, server
  <1>2. GetInv /\ OneInv /\ StoredInv /\ (~raced /\ ~failed /\ ~strayed => ShownInv)
    BY DEF BrowserInv
  <1>3. /\ g.dir \in Dirs /\ view'.dir = g.dir /\ view'.listing = g.listing /\ url' \in Dirs \cup {NoPath}
        /\ view'.kind = kind
    BY <1>1, <1>2 DEF GetInv
  <1>4. failed' \in BOOLEAN
    BY <1>1, <1>2 DEF GetInv
  <1>5. /\ GetInv' /\ OneInv' /\ StoredInv'
        /\ ~raced' => ~raced
        /\ ~raced' => \/ gets' = {} /\ queued' = NoDir /\ queued = NoDir
                      \/ \E h : /\ gets' = {h} /\ queued' = NoDir /\ g.src = Body /\ queued # NoDir
                                /\ h.src = Body /\ h.dir = queued /\ ~h.push /\ ~h.served
    BY <1>1, <1>3, <1>4, FinishKeeps
  <1>6. ASSUME ~raced', ~failed', ~strayed' PROVE ShownInv'
    <2>1. ShownInv
      BY <1>1, <1>2, <1>5, <1>6
    <2>2. CASE gets' = {} /\ queued' = NoDir /\ queued = NoDir
      <3>1. Cur(url') = g.dir
        BY <1>1, <1>3, <2>1 DEF ShownInv, Cur
      <3>2. kind = "listing" => Complete(g.dir, g.listing)
        BY <1>0, <2>1, <2>2 DEF ShownInv
      <3> QED
        BY <1>1, <1>3, <2>2, <3>1, <3>2 DEF ShownInv, BodyGets, Complete, Cur
    <2>3. CASE \E h : /\ gets' = {h} /\ queued' = NoDir /\ g.src = Body /\ queued # NoDir
                      /\ h.src = Body /\ h.dir = queued /\ ~h.push /\ ~h.served
      <3>1. PICK h : /\ gets' = {h} /\ queued' = NoDir /\ g.src = Body /\ queued # NoDir
                     /\ h.src = Body /\ h.dir = queued /\ ~h.push /\ ~h.served
        BY <2>3
      <3>2. url' = url /\ h.dir = Cur(url)
        BY <1>1, <2>1, <3>1 DEF ShownInv
      <3> QED
        BY <3>1, <3>2 DEF ShownInv, BodyGets, Complete, Cur
    <2> QED
      BY <1>5, <1>6, <2>2, <2>3
  <1> QED
    BY <1>5, <1>6 DEF BrowserInv

LEMMA FailuresKeep ==
  ASSUME BrowserInv, NEW g \in gets, GetFails(g)
  PROVE  BrowserInv'
  <1>1. /\ Finish(g) /\ failed' = (failed \/ g.src = Body)
        /\ UNCHANGED <<url, view, posts, stored, answered, clicks, strayed>>
    BY DEF GetFails, page, server
  <1>2. GetInv /\ OneInv /\ StoredInv /\ (~raced /\ ~failed /\ ~strayed => ShownInv)
    BY DEF BrowserInv
  <1>3. /\ failed' \in BOOLEAN /\ url' \in Dirs \cup {NoPath} /\ view'.dir \in Dirs
        /\ view'.kind \in {"listing", "error", "login"} /\ UNCHANGED strayed
    BY <1>1, <1>2 DEF GetInv
  <1>4. /\ GetInv' /\ OneInv' /\ StoredInv'
        /\ ~raced' => ~raced
        /\ ~raced' => \/ gets' = {} /\ queued' = NoDir /\ queued = NoDir
                      \/ \E h : /\ gets' = {h} /\ queued' = NoDir /\ g.src = Body /\ queued # NoDir
                                /\ h.src = Body /\ h.dir = queued /\ ~h.push /\ ~h.served
    BY <1>1, <1>3, FinishKeeps
  <1>5. ASSUME ~raced', ~failed', ~strayed' PROVE ShownInv'
    <2>1. ShownInv /\ g.src # Body
      BY <1>1, <1>2, <1>4, <1>5
    <2>2. gets' = {} /\ queued' = NoDir /\ BodyGets = {}
      BY <1>2, <1>4, <1>5, <2>1 DEF OneInv, BodyGets
    <2> QED
      BY <1>1, <2>1, <2>2 DEF ShownInv, BodyGets, Complete, Cur
  <1> QED
    BY <1>4, <1>5 DEF BrowserInv

\* A refresh is issued, or waits behind the body's request: either way a listing
\* that is read later than any answer so far will follow.
LEMMA RefreshesKeep ==
  ASSUME BrowserInv, refreshFileList, posts' \subseteq posts, answered' \subseteq stored',
         UNCHANGED <<url, view, stored, clicks, failed, strayed>>
  PROVE  BrowserInv'
  <1>1. GetInv /\ OneInv /\ StoredInv /\ (~raced /\ ~failed /\ ~strayed => ShownInv)
    BY DEF BrowserInv
  <1>2. Cur(url) \in Dirs /\ Cur(url) # NoDir
    BY <1>1, CurIn DEF GetInv
  <1>3. StoredInv'
    BY <1>1 DEF StoredInv
  <1>4. CASE BodyGets # {}
    <2>1. queued' = Cur(url) /\ UNCHANGED <<gets, raced>>
      BY <1>4 DEF refreshFileList, Ajax, BodyGets
    <2>2. GetInv' /\ OneInv'
      BY <1>1, <1>2, <1>4, <2>1 DEF GetInv, OneInv, BodyGets
    <2>3. ~raced' /\ ~failed' /\ ~strayed' => ShownInv'
      BY <1>1, <1>2, <1>4, <2>1 DEF ShownInv, BodyGets, Cur
    <2> QED
      BY <1>3, <2>2, <2>3 DEF BrowserInv
  <1>5. CASE BodyGets = {}
    <2> DEFINE h == Get(Body, Cur(url), FALSE)
    <2>1. gets' = gets \cup {h} /\ raced' = (raced \/ \E x \in gets : x.src # h.src) /\ UNCHANGED queued
      BY <1>5 DEF refreshFileList, Ajax, BodyGets, Issue
    <2>2. DOMAIN h = GetFields /\ h.src = 0 /\ h.dir = Cur(url) /\ h.push = FALSE /\ h.served = FALSE
      BY DEF Get, GetFields, Body
    <2> HIDE DEF h
    <2>3. raced' \in BOOLEAN /\ 0 \in 0 .. clicks
      BY <1>1, <2>1 DEF GetInv
    <2>4. GetInv'
      BY <1>1, <1>2, <2>1, <2>2, <2>3 DEF GetInv
    <2>5. ~raced' => ~raced /\ gets = {}
      BY <1>5, <2>1, <2>2 DEF BodyGets, Body
    <2>6. OneInv' /\ queued' = NoDir
      BY <1>1, <1>5, <2>1, <2>2, <2>5 DEF OneInv, BodyGets
    <2>7. ASSUME ~raced', ~failed', ~strayed' PROVE ShownInv'
      <3>1. gets' = {h} /\ BodyGets' = {h}
        BY <2>1, <2>2, <2>5, <2>7 DEF BodyGets, Body
      <3> QED
        BY <2>2, <2>6, <3>1 DEF ShownInv, Cur
    <2> QED
      BY <1>3, <2>4, <2>6, <2>7 DEF BrowserInv
  <1> QED
    BY <1>4, <1>5

LEMMA AnswersKeep ==
  ASSUME BrowserInv, NEW p \in posts, Loaded(p) \/ Refused(p)
  PROVE  BrowserInv'
  <1>1. StoredInv /\ posts' = posts \ {p} /\ UNCHANGED <<url, view, stored, clicks, failed, strayed>>
    BY DEF BrowserInv, Loaded, Refused, page
  <1>2. CASE Loaded(p)
    <2>1. answered' \subseteq stored'
      BY <1>1, <1>2 DEF Loaded, StoredInv
    <2> QED
      BY <1>1, <1>2, <2>1, RefreshesKeep DEF Loaded
  <1>3. CASE Refused(p)
    <2>1. UNCHANGED answered /\ answered \subseteq stored
      BY <1>1, <1>3 DEF Refused, StoredInv
    <2>2. CASE refreshFileList
      BY <1>1, <2>1, <2>2, RefreshesKeep
    <2>3. CASE UNCHANGED <<gets, queued, raced>>
      <3>1. PostsMove
        BY <1>1, <2>1, <2>3 DEF PostsMove, StoredInv
      <3> QED
        BY <3>1, PostsKeep
    <2> QED
      BY <1>3, <2>2, <2>3 DEF Refused
  <1> QED
    BY <1>2, <1>3

LEMMA BrowserNextInv ==
  ASSUME BrowserInv, [Next]_vars
  PROVE  BrowserInv'
  <1>1. CASE ClickLink
    BY <1>1, ClicksKeep
  <1>2. CASE handleDrop \/ PickFiles \/ ClickMkdir \/ Paste \/ ConfirmPreview \/ CancelPreview
    BY <1>2, GesturesMove, PostsKeep
  <1>3. CASE SwapDiskUsage \/ UNCHANGED vars
    <2>1. UNCHANGED <<url, view, gets, queued, posts, stored, answered, clicks, raced, failed, strayed>>
      BY <1>3 DEF SwapDiskUsage, vars, page, lists, server, history
    <2>2. PostsMove
      BY <2>1 DEF PostsMove, BrowserInv, StoredInv
    <2> QED
      BY <2>2, PostsKeep
  <1>4. ASSUME NEW g \in gets, ServerLists(g) \/ Swap(g) \/ SwapLogin(g) \/ GetFails(g) PROVE BrowserInv'
    BY <1>4, ListingsKeep, SwapsKeep, FailuresKeep
  <1>5. ASSUME NEW p \in posts, TraverseEnds(p) \/ ServerStores(p) \/ PostFails(p) PROVE BrowserInv'
    BY <1>5, PostStepsMove, PostsKeep
  <1>6. ASSUME NEW p \in posts, Loaded(p) \/ Refused(p) PROVE BrowserInv'
    BY <1>6, AnswersKeep
  <1> QED
    BY <1>1, <1>2, <1>3, <1>4, <1>5, <1>6 DEF Next, User, Network

LEMMA BrowserInvAlways == Spec => []BrowserInv
  <1>1. Init => BrowserInv
    BY BrowserInitInv
  <1>2. BrowserInv /\ [Next]_vars => BrowserInv'
    BY BrowserNextInv
  <1> QED
    BY <1>1, <1>2, PTL DEF Spec

-----------------------------------------------------------------------------
(* The theorems.                                                            *)

\* A listing on the screen that nothing is about to replace is that of the directory
\* in the address bar, whatever page was loaded, error page or not, and whenever the
\* login page was swapped in between, unless list requests of two elements overlapped,
\* one of dropper.js's own failed or a sort link of the error page was clicked.
THEOREM ViewIsUrlAlways == Spec => []ViewIsUrl
  <1>1. ASSUME BrowserInv PROVE ViewIsUrl
    BY <1>1 DEF BrowserInv, ShownInv, BodyGets, ViewIsUrl, Settled
  <1> QED
    BY <1>1, BrowserInvAlways, PTL

\* A refresh is never lost: under the same conditions, everything that was
\* answered as stored in the directory on the screen is in its listing.
THEOREM AnsweredIsShownAlways == Spec => []AnsweredIsShown
  <1>1. ASSUME BrowserInv PROVE AnsweredIsShown
    BY <1>1 DEF BrowserInv, ShownInv, BodyGets, Complete, AnsweredIsShown, Settled
  <1> QED
    BY <1>1, BrowserInvAlways, PTL
=============================================================================
