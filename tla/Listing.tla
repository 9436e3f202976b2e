------------------------------ MODULE Listing ------------------------------
(***************************************************************************)
(* ListDirectory with HandleListFiles and HandleMainPage, asked for one    *)
(* directory while uploads and new folders go on in it.  The writers are   *)
(* DropZone's, with the temp files its uploads go through: the write path  *)
(* of a volume with hard links (SafeWrite implements DropZone there; where *)
(* a rename can replace an entry, an upload cannot be sure to be listed).  *)
(* os.ReadDir collects the names one after the other, then each is looked  *)
(* at again, and the writers come in between.                              *)
(*                                                                         *)
(* A name is a number, in the order of the names' bytes; an upload's temp  *)
(* file has a name of its own, outside Names.                              *)
(***************************************************************************)
EXTENDS DropZone, Naturals, SequencesExt

CONSTANTS Uploads, Mkdirs,  \* the two kinds of calls
          TempOf,           \* the random name of an upload's temp file
          Fold,             \* the rank of each name once lower-cased
          Asks,             \* the list requests that may come
          Scans             \* the orders in which a directory may be read

TempNames == {TempOf[u] : u \in Uploads}
AllNames  == Names \cup TempNames

ASSUME CallsAssumption == Calls = Uploads \cup Mkdirs /\ Uploads \cap Mkdirs = {} /\ Nothing \notin Calls
ASSUME NamesAssumption == /\ AllNames \subseteq Nat /\ TempNames \cap Names = {}
                          /\ \A u, v \in Uploads : TempOf[u] = TempOf[v] => u = v
                          /\ Fold \in [AllNames -> Nat]

Ask == [route : {"/", "/files"}, client : {"browser", "htmx", "json"}, path : {"here", "gone"},
        by : {"name", "date", "size"}, order : {"asc", "desc"}]
ASSUME AsksAssumption == /\ Asks \subseteq Ask /\ Scans \subseteq Seq(AllNames)
                         /\ \A s \in Scans : ToSet(s) = AllNames /\ IsInjective(s)

VARIABLES
  temp,     \* each upload's temp file: none yet, there, gone, or stuck: its removal failed
  pc,       \* the list request: idle, open, scan, look, done, lost
  ask,      \* what it asks for
  todo,     \* ReadDir: the names it has yet to go past
  found,    \* ReadDir: the names it has found, sorted once it returns
  rows,     \* the entries looked at, sorted
  answer,   \* status, form and rows of the response
  told,     \* history: what the callers had been told when the list was asked for
  broken,   \* history: ReadDir itself failed
  unread    \* history: the entries that entry.Info failed for

list == <<pc, ask, todo, found, rows, answer, told, broken, unread>>
vars == <<shelfVars, temp, list>>

HasTemp(n) == \E u \in Uploads : TempOf[u] = n /\ temp[u] \in {"there", "stuck"}
Present(n) == IF n \in Names THEN shelf[n] # Nothing ELSE HasTemp(n)
Owner(n)   == IF n \in Names THEN shelf[n] ELSE CHOOSE u \in Uploads : TempOf[u] = n

\* The directory may hold the entries of any calls answered before, and temp
\* files of theirs that could not be removed.
ListInit ==
  /\ shelf \in {s \in [Names -> Calls \cup {Nothing}] :
                  \A m, n \in Names : s[m] = s[n] /\ s[m] # Nothing => m = n}
  /\ outcome = [c \in Calls |-> IF OnShelf(c) THEN "stored" ELSE "pending"]
  /\ temp \in [Uploads -> {"none", "gone", "stuck"}]
  /\ \A u \in Uploads : (temp[u] = "none") = ~OnShelf(u)
  /\ pc = "idle" /\ ask = (CHOOSE a \in Ask : TRUE) /\ todo = <<>> /\ found = {} /\ rows = <<>>
  /\ answer = [status |-> 0, form |-> "none", rows |-> <<>>]
  /\ told = outcome /\ broken = FALSE /\ unread = {}

-----------------------------------------------------------------------------
(* The writers, and the death of the process.                               *)

MakeTemp(u) == /\ temp[u] = "none" /\ outcome[u] = "pending"
               /\ temp' = [temp EXCEPT ![u] = "there"]
               /\ UNCHANGED <<shelfVars, list>>

\* os.Link leaves the temp file for the moment.
Place(u, n) == /\ temp[u] = "there" /\ Put(u, n)
               /\ UNCHANGED <<temp, list>>

\* Slip: the caller is answered first.
DropTempLater(u) == /\ temp[u] = "there" /\ OnShelf(u)
                    /\ Store(u) /\ UNCHANGED <<temp, list>>

\* os.Remove of the temp file, before the answer; its error is ignored.
DropTemp(u) == /\ temp[u] = "there" /\ outcome[u] = "pending"
               /\ \E t \in {"gone", "stuck"} : temp' = [temp EXCEPT ![u] = t]
               /\ UNCHANGED <<shelfVars, list>>

Mkdir(m, n) == Put(m, n) /\ UNCHANGED <<temp, list>>

Answer(c) == /\ c \in Uploads => temp[c] # "there"
             /\ Store(c) \/ Refuse(c)
             /\ UNCHANGED <<temp, list>>

\* The calls at work are lost, and so is a list under way; temp files stay.
AtWork(c) == outcome[c] = "pending" /\ (OnShelf(c) \/ (c \in Uploads /\ temp[c] # "none"))
Crash == /\ Lose
         /\ \A c \in Calls : (outcome'[c] = "lost") = (AtWork(c) \/ outcome[c] = "lost")
         /\ pc' = IF pc \in {"idle", "done"} THEN pc ELSE "lost"
         /\ UNCHANGED <<temp, ask, todo, found, rows, answer, told, broken, unread>>

\* Bound: what the writers do once the list is answered or lost is not looked at.
Writers == /\ pc \notin {"done", "lost"}
           /\ \/ \E u \in Uploads : MakeTemp(u) \/ DropTemp(u) \/ \E n \in Names : Place(u, n)
              \/ \E m \in Mkdirs, n \in Names : Mkdir(m, n)
              \/ \E c \in Calls : Answer(c)
              \/ Crash

-----------------------------------------------------------------------------
(* ListDirectory.                                                           *)

\* The rows a name may give: whether it is a folder, and the date or size it has
\* at this moment, if the list is sorted by it (a folder's size is 0).
Rows(n) == [name : {n}, isDir : {Owner(n) \in Mkdirs},
            value : IF ask.by = "name" \/ (ask.by = "size" /\ Owner(n) \in Mkdirs) THEN {0} ELSE 0 .. 1]

Rank(row) == IF ask.by = "name" THEN Fold[row.name] ELSE row.value

\* Slip: descending order turns the whole comparison round, folders included.
LessTurned(a, b) ==
  LET less == IF a.isDir # b.isDir THEN a.isDir ELSE Rank(a) < Rank(b)
  IN  IF ask.order = "desc" THEN ~less ELSE less

\* The comparison sort.SliceStable is given: not irreflexive when descending.
Less(a, b) == IF a.isDir # b.isDir THEN a.isDir
              ELSE IF ask.order = "desc" THEN ~(Rank(a) < Rank(b))
              ELSE Rank(a) < Rank(b)

\* One round of its insertion sort (up to 20 rows): a row moves left while Less
\* says so.  Nothing sees the rows before they are sorted, so each one is put in
\* its place as soon as it is looked at.
Inserted(s, row) ==
  LET k == Max({0} \cup {i \in 1 .. Len(s) : ~Less(row, s[i])})
  IN  SubSeq(s, 1, k) \o <<row>> \o SubSeq(s, k + 1, Len(s))

Ended(status, form, r) ==
  /\ answer' = [status |-> status, form |-> form, rows |-> r]
  /\ pc' = "done"
  /\ UNCHANGED ask

\* Slip: the redirect leads to the route it comes from.
RedirectedBack == /\ ask' = [ask EXCEPT !.path = "here", !.by = "name", !.order = "asc"]
                  /\ pc' = "open"
                  /\ UNCHANGED answer

\* A browser that asks /files for a page is sent to / without its sort fields.
Redirected == /\ ask' = [ask EXCEPT !.route = "/", !.path = "here", !.by = "name", !.order = "asc"]
              /\ pc' = "open"
              /\ UNCHANGED answer

\* The handlers' answers: / has a page for everyone but a failed JSON client.
Respond(status, r) ==
  CASE ask.route = "/" ->
         Ended(status, IF status # 200 /\ ask.client = "json" THEN "json" ELSE "page", r)
    [] ask.route = "/files" /\ ask.client = "json" -> Ended(status, "json", r)
    [] ask.route = "/files" /\ ask.client = "htmx" -> Ended(status, "partial", r)
    [] OTHER -> Redirected

ListAsked == /\ pc = "idle" /\ pc' = "open"
             /\ ask' \in Asks
             /\ told' = outcome
             /\ UNCHANGED <<shelfVars, temp, todo, found, rows, answer, broken, unread>>

\* SafePath, os.Stat and IsDir: only the directory at hand can be listed.
ListOpens ==
  /\ pc = "open"
  /\ \/ ask.path = "here" /\ pc' = "scan" /\ UNCHANGED <<ask, answer>>
     \/ ask.path = "gone" /\ Respond(404, <<>>)
  /\ todo' \in Scans /\ found' = {} /\ rows' = <<>> /\ unread' = {}
  /\ UNCHANGED <<shelfVars, temp, told, broken>>

\* Slip: the scan goes on with the entry it has just returned.
ReadNameTwice ==
  /\ pc = "scan" /\ todo # <<>>
  /\ todo' = IF Present(Head(todo)) THEN todo ELSE Tail(todo)
  /\ found' = IF Present(Head(todo)) THEN found \cup {Head(todo)} ELSE found
  /\ UNCHANGED <<shelfVars, temp, pc, ask, rows, answer, told, broken, unread>>

\* os.ReadDir goes past one name after the other.
ReadName ==
  /\ pc = "scan" /\ todo # <<>>
  /\ todo' = Tail(todo)
  /\ found' = IF Present(Head(todo)) THEN found \cup {Head(todo)} ELSE found
  /\ UNCHANGED <<shelfVars, temp, pc, ask, rows, answer, told, broken, unread>>

ReadDirFails ==
  /\ pc = "scan" /\ broken' = TRUE /\ Respond(500, <<>>)
  /\ UNCHANGED <<shelfVars, temp, todo, found, rows, told, unread>>

ReadDirReturns ==
  /\ pc = "scan" /\ todo = <<>>
  /\ pc' = "look"
  /\ UNCHANGED <<shelfVars, temp, ask, todo, found, rows, answer, told, broken, unread>>

\* The names are looked at in their order.
First == Min(found)

\* Slip: an entry that cannot be looked at ends the loop.
SkipEnds ==
  /\ pc = "look" /\ found # {} /\ ~Present(First)
  /\ found' = {}
  /\ UNCHANGED <<shelfVars, temp, pc, ask, todo, rows, answer, told, broken, unread>>

\* entry.Info fails, as it must for a name that is gone meanwhile: continue.
Skip ==
  /\ pc = "look" /\ found # {}
  /\ found' = found \ {First}
  /\ unread' = unread \cup ({First} \cap Names)
  /\ UNCHANGED <<shelfVars, temp, pc, ask, todo, rows, answer, told, broken>>

Look ==
  /\ pc = "look" /\ found # {} /\ Present(First)
  /\ found' = found \ {First}
  /\ \E row \in Rows(First) : rows' = Inserted(rows, row)
  /\ UNCHANGED <<shelfVars, temp, pc, ask, todo, answer, told, broken, unread>>

ListAnswers ==
  /\ pc = "look" /\ found = {} /\ Respond(200, rows)
  /\ UNCHANGED <<shelfVars, temp, todo, found, rows, told, broken, unread>>

List == ListOpens \/ ReadName \/ ReadDirFails \/ ReadDirReturns \/ Skip \/ Look \/ ListAnswers

ListNext == Writers \/ ListAsked \/ List

\* net/http runs the handler and a browser follows the redirect.
ListSpec == ListInit /\ [][ListNext]_vars /\ WF_vars(List)

-----------------------------------------------------------------------------
Answered == pc = "done"
Listed   == {answer.rows[i] : i \in DOMAIN answer.rows}

\* Every variable stays in its domain, and no name is listed twice.
ListTypeOK ==
  /\ shelf \in [Names -> Calls \cup {Nothing}]
  /\ outcome \in [Calls -> {"pending", "stored", "refused", "lost"}] /\ DOMAIN told = Calls
  /\ temp \in [Uploads -> {"none", "there", "gone", "stuck"}]
  /\ pc \in {"idle", "open", "scan", "look", "done", "lost"} /\ ask \in Ask
  /\ found \subseteq AllNames /\ unread \subseteq Names /\ ToSet(todo) \subseteq AllNames \ found
  /\ answer.form \in {"none", "page", "partial", "json"}
  /\ \A i, j \in DOMAIN rows : rows[i].name = rows[j].name => i = j

\* An entry whose caller was told it is stored before the list was asked for is
\* in the list, however many writers come between ReadDir and the second look,
\* unless its own entry.Info failed (ListDirectory skips it then).
StoredIsListed ==
  Answered /\ answer.status = 200 =>
    \A c \in Calls : told[c] = "stored" =>
      \/ \E row \in Listed : row.name \in Names /\ Owner(row.name) = c
      \/ \E n \in unread : Owner(n) = c

\* A temp file is listed only when its upload was unanswered at the time of the
\* request, or its process died, or its removal failed: an upload that was
\* answered leaves no other to see.
TempsAreOfTheUnanswered ==
  \A row \in Listed : row.name \in TempNames =>
    \/ told[Owner(row.name)] \in {"pending", "lost"}
    \/ temp[Owner(row.name)] = "stuck"

\* Folders come first, then the asked order; of equals, the name's bytes decide,
\* and descending is the exact mirror of ascending in each of the two blocks.
SortedAsAsked ==
  \A i, j \in DOMAIN answer.rows : i < j =>
    LET a == answer.rows[i]  b == answer.rows[j]
        before(x, y) == Rank(x) < Rank(y) \/ (Rank(x) = Rank(y) /\ x.name < y.name)
    IN  \/ a.isDir /\ ~b.isDir
        \/ a.isDir = b.isDir /\ IF ask.order = "asc" THEN before(a, b) ELSE before(b, a)

\* Every list request is answered, also over the redirect of a browser that
\* asks /files: in the form the client can use, and with an error only if the
\* directory could not be read, not because an entry vanished meanwhile.
ListIsAnswered ==
  (pc = "open") ~> \/ pc = "lost"
                   \/ Answered /\ (answer.status = 500 => broken) /\ answer.form = (CASE ask.route = "/" /\ answer.status = 200 -> "page"
                                                   [] ask.client = "json" -> "json"
                                                   [] ask.client = "htmx" /\ ask.route = "/files" -> "partial"
                                                   [] OTHER -> "page")
=============================================================================
