-------------------------------- MODULE Tree --------------------------------
(***************************************************************************)
(* Where requests land in the directory tree: the path jail of             *)
(* internal/dropper.fs.go (SafePath, resolveWithAncestorWalk), and the     *)
(* operations that make directories, SafeWriteFileWithRelPath and          *)
(* CreateDirectory, running side by side.  The inside of a file's write is *)
(* SafeWrite's: here it is one step.                                       *)
(*                                                                         *)
(* A location is the sequence of names that leads to it from "/".  The     *)
(* root directory is <<"in">>, and "out" stands for the rest of the volume.*)
(* A part of a relative path that SanitizeFilename maps to FilenameFallback*)
(* is Fallback; other names stand for what they are sanitized to.          *)
(***************************************************************************)
EXTENDS Naturals, Sequences, SequencesExt, FiniteSets

CONSTANTS Uploads, Mkdirs,  \* calls of SafeWriteFileWithRelPath and CreateDirectory
          Names,            \* names of directories
          Fallback,         \* what every name that sanitizes to "_" stands for
          Up,               \* ".."
          Bases,            \* the path parameters that requests may carry
          RelPaths,         \* the relative paths of files in a dropped folder, split
          MaxRelPathDepth,
          MaxRounds,        \* bound: the links, and the ".."s in them, that EvalSymlinks
                            \* follows on one way (the program's limit is 255 links)
          Trees             \* the initial trees: what is at the locations where there
                            \* is something (kind), and where links lead (links)

Root  == <<"in">>
NoLoc == <<>>   \* no location, or "/"
Calls == Uploads \cup Mkdirs
Kinds == {"dir", "file", "link"}

Segments  == Names \cup {Fallback, Up, "in", "out"}
Locations == Seq(Segments)

ASSUME CallsAssumption == Uploads \cap Mkdirs = {}
ASSUME NamesAssumption == Up \notin Names /\ Fallback \notin Names
ASSUME PathsAssumption == Bases \subseteq Locations /\ RelPaths \subseteq Locations
ASSUME TreesAssumption ==
  \A t \in Trees : /\ t.kind \in [DOMAIN t.kind -> Kinds]
                   /\ DOMAIN t.kind \subseteq Seq(Segments \ {Up})
                   /\ {NoLoc, Root} \subseteq DOMAIN t.kind /\ t.kind[NoLoc] = "dir" /\ t.kind[Root] = "dir"
                   /\ \A l \in DOMAIN t.kind \ {NoLoc} :
                        Front(l) \in DOMAIN t.kind /\ t.kind[Front(l)] = "dir"
                   /\ t.links \in [{l \in DOMAIN t.kind : t.kind[l] = "link"} -> Locations]
ASSUME DepthAssumption == MaxRelPathDepth \in Nat \ {0} /\ MaxRounds \in Nat

VARIABLES
  kind,      \* location -> what there is, where there is something
  links,     \* where the links lead (nothing changes it)
  pc, err,   \* where each call is, and the error it returns
  dir,       \* the call's directory, relative to the root, before it is resolved
  target,    \* the location SafePath has returned for it
  depth,     \* MkdirAll: how much of the target is being looked at, or made
  placed,    \* where an upload's file was put, or NoLoc
  made       \* history: the directories each call has made

call == <<err, dir>>
vars == <<kind, links, pc, call, target, depth, placed, made>>

At(l)      == IF l \in DOMAIN kind THEN kind[l] ELSE "none"
With(l, k) == [m \in DOMAIN kind \cup {l} |-> IF m = l THEN k ELSE kind[m]]

-----------------------------------------------------------------------------
(* The path jail.                                                           *)

isWithinRoot(l) == IsPrefix(Root, l)

\* Where a path leads from base, one step (a function) for each of its names.
Along(step, base, path) ==
  LET at[i \in Nat] == IF i = 0 THEN base ELSE step[path[i]][at[i - 1]] IN at[Len(path)]

\* filepath.Join of the root and the cleaned path: ".." is lexical.
Clean == [n \in Segments |-> [l \in Locations |->
           IF n # Up THEN Append(l, n) ELSE IF l = <<>> THEN l ELSE Front(l)]]
Join(base, path) == Along(Clean, base, path)

\* How far filepath.EvalSymlinks has come: all of l is yet to be followed, or it
\* leads nowhere, or to l.
Far(l, e) == [at |-> l, err |-> e]

\* It goes on to the first thing on the way that is not a directory; a link is
\* replaced by what it leads to, and the way starts again from "/". A ".." (in a
\* link's target) leads out of the directory before it.
OneLink(far) ==
  LET stops == {k \in 1 .. Len(far.at) : At(SubSeq(far.at, 1, k)) # "dir"}
      k     == CHOOSE i \in stops : \A j \in stops : i <= j
      stop  == SubSeq(far.at, 1, k)
      rest  == SubSeq(far.at, k + 1, Len(far.at))
  IN IF far.err # "link" THEN far
     ELSE IF stops = {} THEN Far(far.at, "ok")
     ELSE CASE At(stop) = "none" -> IF Last(stop) = Up THEN Far(SubSeq(stop, 1, k - 2) \o rest, "link")
                                    ELSE Far(NoLoc, "absent")
            [] At(stop) = "file" -> IF rest = <<>> THEN Far(stop, "ok") ELSE Far(NoLoc, "broken")
            [] At(stop) = "link" -> Far(links[stop] \o rest, "link")

\* filepath.EvalSymlinks: where a location leads, or why nowhere.
EvalSymlinks(l) ==
  LET far[i \in Nat] == IF i = 0 THEN Far(l, "link") ELSE OneLink(far[i - 1])
      end == far[MaxRounds + 1]
  IN IF end.err = "link" THEN Far(NoLoc, "broken") ELSE end

\* Slip: the walk gives up at the first ancestor that does not exist either.
WalkOneUp(l) ==
  LET Reaches(k) == k >= Len(l) - 1 /\ EvalSymlinks(SubSeq(l, 1, k)).err # "absent"
      deepest    == {k \in Len(Root) .. Len(l) : Reaches(k) /\ \A j \in k + 1 .. Len(l) : ~Reaches(j)}
  IN IF deepest = {} THEN NoLoc
     ELSE LET k == CHOOSE j \in deepest : TRUE
              found == EvalSymlinks(SubSeq(l, 1, k))
          IN IF found.err = "ok" THEN found.at \o SubSeq(l, k + 1, Len(l)) ELSE NoLoc

\* The deepest ancestor that exists is resolved, and the rest appended.
resolveWithAncestorWalk(l) ==
  LET k == CHOOSE j \in Len(Root) .. Len(l) :
             /\ EvalSymlinks(SubSeq(l, 1, j)).err # "absent"
             /\ \A i \in j + 1 .. Len(l) : EvalSymlinks(SubSeq(l, 1, i)).err = "absent"
      found == EvalSymlinks(SubSeq(l, 1, k))
  IN IF found.err = "ok" THEN found.at \o SubSeq(l, k + 1, Len(l)) ELSE NoLoc

\* Slip: the path is checked before the links are resolved, and not after.
SafePathUnresolved(path) ==
  LET l == Join(Root, path) IN IF isWithinRoot(l) THEN resolveWithAncestorWalk(l) ELSE NoLoc

SafePath(path) ==
  LET l == Join(Root, path) IN
  IF ~isWithinRoot(l) THEN NoLoc
  ELSE LET r == resolveWithAncestorWalk(l) IN IF isWithinRoot(r) THEN r ELSE NoLoc

\* os.Stat follows links.
Stat(l) == LET found == EvalSymlinks(l) IN IF found.err = "ok" THEN At(found.at) ELSE "none"

\* What an operation says of the directory that SafePath has resolved; "absent" is
\* its error where there is nothing.
DirError(l, absent) == IF l = NoLoc THEN "path"
                       ELSE CASE Stat(l) = "dir" -> "none" [] Stat(l) = "none" -> absent
                              [] OTHER -> "not a directory"

-----------------------------------------------------------------------------
Init == /\ \E t \in Trees : kind = t.kind /\ links = t.links
        /\ pc = [c \in Calls |-> "idle"] /\ err = [c \in Calls |-> "none"]
        /\ dir = [c \in Calls |-> <<>>] /\ target = [c \in Calls |-> NoLoc]
        /\ depth = [u \in Uploads |-> 0]
        /\ placed = [u \in Uploads |-> NoLoc]
        /\ made = [c \in Calls |-> {}]

Goto(c, l) == pc' = [pc EXCEPT ![c] = l]
Fail(c, e) == Goto(c, "done") /\ err' = [err EXCEPT ![c] = e]

-----------------------------------------------------------------------------
(* SafeWriteFileWithRelPath.                                                *)

\* The parts that are left after sanitizing: "_" is skipped like an empty part.
Keep == [n \in Segments |-> [l \in Locations |-> IF n # Fallback THEN Append(l, n) ELSE l]]
Parts(relPath) == Along(Keep, <<>>, relPath)

\* The relative path is sanitized and resolved against the base directory.
Submit(u) ==
  /\ pc[u] = "idle"
  /\ \E base \in Bases, relPath \in RelPaths :
       LET parts == Parts(relPath)
           to    == SafePath(base \o parts)
       IN /\ dir' = [dir EXCEPT ![u] = base \o parts]
          /\ target' = [target EXCEPT ![u] = to]
          /\ IF Len(parts) \notin 1 .. MaxRelPathDepth THEN Fail(u, "relpath")
             ELSE IF to = NoLoc THEN Fail(u, "path")
             ELSE Goto(u, "stat") /\ UNCHANGED err
          /\ depth' = [depth EXCEPT ![u] = Len(to)]
  /\ UNCHANGED <<kind, links, placed, made>>

Ancestors(l) == {SubSeq(l, 1, k) : k \in 1 .. Len(l)}
Reached(u)   == SubSeq(target[u], 1, depth[u])

\* What is there to be made below, if anything.
GoOnDown(u) == IF depth[u] = Len(target[u]) THEN Goto(u, "check") /\ UNCHANGED depth
               ELSE Goto(u, "make") /\ depth' = [depth EXCEPT ![u] = @ + 1]

\* os.MkdirAll looks for the deepest part of the path that is there.
MkdirAllLooks(u) ==
  /\ pc[u] = "stat"
  /\ \/ Stat(Reached(u)) = "none" /\ depth' = [depth EXCEPT ![u] = @ - 1] /\ UNCHANGED <<pc, err>>
     \/ Stat(Reached(u)) = "dir" /\ GoOnDown(u) /\ UNCHANGED err
     \/ Stat(Reached(u)) = "file" /\ Fail(u, "create dir") /\ UNCHANGED depth
  /\ UNCHANGED <<kind, links, dir, target, placed, made>>

\* Where mkdir(2) makes a directory: it follows the links above the last name.
Spot(l) == Append(EvalSymlinks(Front(l)).at, Last(l))

\* Slip: a directory that somebody else has made meanwhile is an error.
MkdirAllMakesAlone(u) ==
  /\ pc[u] = "make"
  /\ LET spot == Spot(Reached(u)) IN
       IF At(spot) = "none"
       THEN /\ kind' = With(spot, "dir") /\ made' = [made EXCEPT ![u] = @ \cup {spot}]
            /\ GoOnDown(u) /\ UNCHANGED err
       ELSE Fail(u, "create dir") /\ UNCHANGED <<kind, made, depth>>
  /\ UNCHANGED <<links, dir, target, placed>>

\* It makes the parts below, one after the other, going on where somebody has made
\* the directory meanwhile; anything else that has the name is an error.
MkdirAllMakes(u) ==
  /\ pc[u] = "make"
  /\ LET spot == Spot(Reached(u)) IN
       \/ /\ At(spot) = "none"
          /\ kind' = With(spot, "dir") /\ made' = [made EXCEPT ![u] = @ \cup {spot}]
          /\ GoOnDown(u) /\ UNCHANGED err
       \/ At(spot) = "dir" /\ GoOnDown(u) /\ UNCHANGED <<kind, made, err>>
       \/ At(spot) \in {"file", "link"} /\ Fail(u, "create dir") /\ UNCHANGED <<kind, made, depth>>
  /\ UNCHANGED <<links, dir, target, placed>>

\* Slips: the file goes to the path as it was sent, or as it was for the part
\* above the last directory.
CheckUnresolved(u) ==
  /\ pc[u] = "check"
  /\ \/ Fail(u, "extension") /\ UNCHANGED target
     \/ /\ target' = [target EXCEPT ![u] = Join(Root, dir[u])]
        /\ Goto(u, "write") /\ UNCHANGED err
  /\ UNCHANGED <<kind, links, dir, depth, placed, made>>

CheckBaseOnly(u) ==
  /\ pc[u] = "check"
  /\ LET to == SafePath(Front(dir[u])) IN
       \/ Fail(u, "extension") /\ UNCHANGED target
       \/ /\ target' = [target EXCEPT ![u] = to]
          /\ Goto(u, "write") /\ UNCHANGED err
  /\ UNCHANGED <<kind, links, dir, depth, placed, made>>

\* SafeWriteFile's own checks: the extension (on the list or not), the path once
\* more, the directory.
Check(u) ==
  /\ pc[u] = "check"
  /\ LET to == SafePath(dir[u]) IN
       \/ Fail(u, "extension") /\ UNCHANGED target
       \/ IF DirError(to, "disk") # "none" THEN Fail(u, DirError(to, "disk")) /\ UNCHANGED target
          ELSE target' = [target EXCEPT ![u] = to] /\ Goto(u, "write") /\ UNCHANGED err
  /\ UNCHANGED <<kind, links, dir, depth, placed, made>>

\* The rest of SafeWriteFile: the file may take a name that a folder wants too; or
\* it takes another, or replaces a file.
Write(u) ==
  /\ pc[u] = "write"
  /\ placed' = [placed EXCEPT ![u] = target[u]]
  /\ \/ \E n \in Names : /\ At(Append(target[u], n)) = "none"
                         /\ kind' = With(Append(target[u], n), "file")
     \/ UNCHANGED kind
  /\ Goto(u, "done")
  /\ UNCHANGED <<links, call, target, depth, made>>

\* An I/O error of MkdirAll or SafeWriteFile.
DiskError(u) ==
  /\ pc[u] \in {"make", "write"} /\ Fail(u, "disk")
  /\ UNCHANGED <<kind, links, dir, target, depth, placed, made>>

-----------------------------------------------------------------------------
(* CreateDirectory.                                                         *)

\* The parent must be a directory of the jail, and so must the new directory.
SubmitMkdir(m) ==
  /\ pc[m] = "idle"
  /\ \E base \in Bases, n \in Names :
       LET to     == SafePath(Append(base, n))
           parent == DirError(SafePath(base), "create dir")
       IN /\ dir' = [dir EXCEPT ![m] = Append(base, n)]
          /\ target' = [target EXCEPT ![m] = to]
          /\ IF parent # "none" THEN Fail(m, parent)
             ELSE IF to = NoLoc THEN Fail(m, "path")
             ELSE Goto(m, "mkdir") /\ UNCHANGED err
  /\ UNCHANGED <<kind, links, depth, placed, made>>

\* os.Mkdir, which creates or fails.
Mkdir(m) ==
  /\ pc[m] = "mkdir"
  /\ IF At(target[m]) = "none"
     THEN /\ kind' = With(target[m], "dir")
          /\ made' = [made EXCEPT ![m] = {target[m]}]
          /\ Goto(m, "done") /\ UNCHANGED err
     ELSE Fail(m, "exists") /\ UNCHANGED <<kind, made>>
  /\ UNCHANGED <<links, dir, target, depth, placed>>

Next == \/ \E u \in Uploads : \/ Submit(u) \/ MkdirAllLooks(u) \/ MkdirAllMakes(u)
                              \/ Check(u) \/ Write(u) \/ DiskError(u)
        \/ \E m \in Mkdirs : SubmitMkdir(m) \/ Mkdir(m)

Spec == Init /\ [][Next]_vars

-----------------------------------------------------------------------------
\* Every variable stays in its domain.
TypeOK ==
  /\ kind \in [DOMAIN kind -> Kinds] /\ Root \in DOMAIN kind
  /\ pc \in [Calls -> {"idle", "stat", "make", "check", "write", "mkdir", "done"}]
  /\ err \in [Calls -> {"none", "relpath", "path", "create dir", "extension",
                        "not a directory", "disk", "exists"}]
  /\ \A u \in Uploads : pc[u] \in {"stat", "make"} => depth[u] \in 1 .. Len(target[u])
  /\ placed \in [Uploads -> DOMAIN kind \cup {NoLoc}] /\ made \in [Calls -> SUBSET DOMAIN kind]

\* A link of the volume whose target goes up.
Climbs == \E l \in DOMAIN links : Up \in ToSet(links[l])

\* Whatever links the volume has, and in whatever order requests are handled, no
\* file is written outside the root directory. No directory is made there either,
\* though a link on the way may have led nowhere when the path was checked, and
\* lead on when mkdir follows it; only one whose target has a ".." may then lead out.
StaysInside == /\ \A u \in Uploads : placed[u] # NoLoc => isWithinRoot(placed[u])
               /\ \A c \in Calls : \A l \in made[c] : isWithinRoot(l) \/ Climbs

\* A file that is stored is found where it was sent: browsing to its base and
\* relative path leads to the directory that holds it.
FoundWhereSent ==
  \A u \in Uploads : placed[u] # NoLoc =>
    EvalSymlinks(Join(Root, dir[u])) = [at |-> placed[u], err |-> "ok"]

\* Two folders dropped at once, or a folder and "New Folder", do not make each
\* other fail: an upload cannot make its directories only where a file or a
\* link is on its way (one that led nowhere when the path was resolved).
FoldersMerge ==
  \A u \in Uploads : err[u] \in {"create dir", "not a directory"} =>
    \E p \in Ancestors(target[u]) : At(p) \in {"file", "link"}

\* The jail refuses nothing that is inside: a path without "..", links and files
\* on its way is accepted, however much of it is missing.
RefusedForAReason ==
  \A c \in Calls : err[c] = "path" =>
    \/ \E i \in DOMAIN dir[c] : dir[c][i] = Up
    \/ \E p \in Ancestors(Root \o dir[c]) : At(p) \in {"link", "file"}

\* A file with an extension that is not allowed leaves nothing on disk: the list
\* is checked "before any disk write" (README, SafeWriteFile's comment).
RefusedLeavesNothing == \A u \in Uploads : err[u] = "extension" => made[u] = {}
=============================================================================
