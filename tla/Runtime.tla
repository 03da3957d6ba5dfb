------------------------------ MODULE Runtime ------------------------------
(***************************************************************************)
(* Plaintext that is made from the cache and may be made again: the agent  *)
(* workspace (agent/workspace.py) and the render cache (render.py), in the *)
(* directory that a lock removes.  Builders, renderers and locks are       *)
(* processes that share nothing but names in that directory; the identity, *)
(* the deadline, the database and the lock file are in Keys.               *)
(***************************************************************************)
EXTENDS Naturals, FiniteSets

CONSTANTS Actor,    \* spend agent build, the worker, spend extract, spend lock
          Receipt,
          Budget,   \* RENDER_CACHE_BYTES, in pages
          MaxLock, MaxKill,  \* bounds: locks, processes killed
          Nothing

ASSUME RuntimeAssumption == Budget \in Nat /\ MaxLock \in Nat /\ MaxKill \in Nat /\ IsFiniteSet(Actor)

Part == {"bank", "ledger", "manifest"}    \* in the order they are written
Page == {"jpg", "txt"} \X Receipt
Agent == <<"agent", Nothing>>              \* the workspace, among what is written

VARIABLES
  makes,               \* what each process makes when it makes something: fixed at the start
  open,                \* the gate that every command passes first (Keys)
  staging, dest, old,  \* Nothing or what the directory holds: parts, each with its builder
  cache,               \* the files of render/, each with those who have it open and the newer ones
  work,                \* what each process is doing
  locks, kills,        \* bounded counts
  crossed,             \* history: builds that another build or a lock has run beside
  built, gap, mixed,   \* history: a workspace was made since the last lock; it was lost between two
                       \* renames; it is of a build that another build or a lock ran beside
  cut,                 \* history: pages whose writer was killed
  late                 \* history: what writers under way at the last lock may yet write

runtime == <<makes, open, staging, dest, old, cache, work, locks, kills, crossed, built, gap, mixed, cut, late>>
agent   == <<staging, dest, old>>
history == <<crossed, built, gap, mixed, cut, late>>

NoWork == [pc |-> "idle", receipt |-> Nothing, listed |-> {}]

Building(p)  == work[p].pc \in {"stage", "bank", "ledger", "manifest", "clear", "move", "publish", "drop"}
Rendering(p) == work[p].pc \in {"jpg", "newjpg", "savejpg", "txt", "savetxt"}
Locking(p)   == work[p].pc \in {"scan", "remove"}

At(p, pc)      == work[p].pc = pc
Goes(p, pc)    == work' = [work EXCEPT ![p].pc = pc]
Ends(p)        == work' = [work EXCEPT ![p] = NoWork]

RuntimeInit ==
  /\ makes \in [Actor -> {"workspace", "pages"}]
  /\ open = FALSE /\ locks = 0 /\ kills = 0
  /\ staging = Nothing /\ dest = Nothing /\ old = Nothing /\ cache = [f \in {} |-> Nothing]
  /\ work = [p \in Actor |-> NoWork]
  /\ crossed = {} /\ built = FALSE /\ gap = FALSE /\ mixed = FALSE /\ cut = {} /\ late = {}

-----------------------------------------------------------------------------
(* spend agent build. Rows are read before the first part is written, from  *)
(* a database that may have been deleted meanwhile; every write below names *)
(* the staging directory and not an inode.                                  *)

Begin(p) ==
  /\ open /\ At(p, "idle") /\ makes[p] = "workspace"
  /\ Goes(p, "stage")
  /\ LET others == {q \in Actor : Building(q) \/ Locking(q)} IN
     crossed' = IF others = {} THEN crossed \ {p} ELSE crossed \cup others \cup {p}
  /\ UNCHANGED <<makes, open, agent, cache, locks, kills, built, gap, mixed, cut, late>>

\* Mutant: what an earlier build left is kept.
Stage_Reuses(p) ==
  /\ At(p, "stage")
  /\ staging' = (IF staging = Nothing THEN {} ELSE staging) /\ Goes(p, "bank")
  /\ UNCHANGED <<makes, open, dest, old, cache, locks, kills, history>>

\* What a build that was killed left in staging is removed; mkdir raises if it is there again.
Stage(p) ==
  /\ At(p, "stage")
  /\ \/ staging' = {} /\ Goes(p, "bank")
     \/ p \in crossed /\ Ends(p) /\ UNCHANGED staging
  /\ UNCHANGED <<makes, open, dest, old, cache, locks, kills, history>>

\* The files of the months are made with their parents, a removed staging among them.
WriteBank(p) ==
  /\ At(p, "bank")
  /\ staging' = (IF staging = Nothing THEN {} ELSE staging) \cup {<<"bank", p>>}
  /\ Goes(p, "ledger")
  /\ UNCHANGED <<makes, open, dest, old, cache, locks, kills, history>>

\* CREATE TABLE raises in a ledger that is there, and every file without its directory.
WriteLedger(p) ==
  /\ At(p, "ledger")
  /\ IF staging = Nothing \/ \E q \in Actor : <<"ledger", q>> \in staging
     THEN Ends(p) /\ UNCHANGED staging
     ELSE Goes(p, "manifest") /\ staging' = staging \cup {<<"ledger", p>>}
  /\ UNCHANGED <<makes, open, dest, old, cache, locks, kills, history>>

WriteManifest(p) ==
  /\ At(p, "manifest")
  /\ IF staging = Nothing
     THEN Ends(p) /\ UNCHANGED staging
     ELSE Goes(p, "clear") /\ staging' = staging \cup {<<"manifest", p>>}
  /\ UNCHANGED <<makes, open, dest, old, cache, locks, kills, history>>

\* Mutant: the workspace goes with the old one.
ClearOld_AndDest(p) ==
  /\ At(p, "clear")
  /\ old' = Nothing /\ dest' = Nothing /\ Goes(p, "move")
  /\ UNCHANGED <<makes, open, staging, cache, locks, kills, history>>

ClearOld(p) ==
  /\ At(p, "clear")
  /\ old' = Nothing /\ Goes(p, "move")
  /\ UNCHANGED <<makes, open, staging, dest, cache, locks, kills, history>>

\* A directory cannot be renamed over one that is not empty.
MoveOld(p) ==
  /\ At(p, "move")
  /\ IF dest = Nothing THEN Goes(p, "publish") /\ UNCHANGED <<dest, old>>
     ELSE IF old \notin {Nothing, {}} THEN Ends(p) /\ UNCHANGED <<dest, old>>
     ELSE Goes(p, "publish") /\ old' = dest /\ dest' = Nothing
  /\ UNCHANGED <<makes, open, staging, cache, locks, kills, history>>

Publish(p) ==
  /\ At(p, "publish")
  /\ IF staging = Nothing \/ dest \notin {Nothing, {}}
     THEN Ends(p) /\ gap' = TRUE /\ UNCHANGED <<staging, dest, built, mixed>>
     ELSE /\ dest' = staging /\ staging' = Nothing /\ Goes(p, "drop")
          /\ gap' = FALSE /\ built' = open /\ mixed' = (p \in crossed)
  /\ UNCHANGED <<makes, open, old, cache, locks, kills, crossed, cut, late>>

DropOld(p) ==
  /\ At(p, "drop")
  /\ old' = Nothing /\ Ends(p)
  /\ UNCHANGED <<makes, open, staging, dest, cache, locks, kills, history>>

-----------------------------------------------------------------------------
(* render.render of one receipt for the model, in the mode "ocr". The same  *)
(* receipt may be rendered by the worker and by spend extract at once.      *)

Cached(f) == f \in DOMAIN cache
IsWhole(f) == Cached(f) /\ cache[f].has = "all"

\* The files F of a directory c, and no others.
Only(c, F) == [f \in F |-> [c[f] EXCEPT !.newer = @ \cap F]]

\* Mutant: a file that is written again is as old as it was.
Newest_KeepsAge(c, f, h, b) ==
  [g \in DOMAIN c \cup {f} |->
     IF g = f THEN [has |-> h, by |-> b, newer |-> IF f \in DOMAIN c THEN c[f].newer ELSE {}]
              ELSE [c[g] EXCEPT !.newer = @ \cup {f}]]

\* A write makes a file the newest.
Newest(c, f, h, b) ==
  [g \in DOMAIN c \cup {f} |->
     IF g = f THEN [has |-> h, by |-> b, newer |-> {}]
              ELSE [c[g] EXCEPT !.newer = @ \cup {f}]]

\* The two halves of write_bytes: open(f, "w"), and the write into what was opened, which nobody
\* sees if it was unlinked meanwhile.
Opened(c, f, p) ==
  Newest(c, f, "part", {p} \cup (IF f \in DOMAIN c THEN c[f].by ELSE {}))

Written(f, p) ==
  IF Cached(f) /\ p \in cache[f].by
  THEN Newest(cache, f, "all", cache[f].by \ {p})
  ELSE cache

\* A page is as large as its image; a text, and an image not yet written, are nothing beside it.
Size(F) == Cardinality({f \in F : IsWhole(f) /\ f[1] = "jpg"})

\* Mutant: no budget.
Evicted_Never == cache

\* render.evict: the oldest go until the rest fits, so a file stays that fits with all newer ones.
Evicted == Only(cache, {f \in DOMAIN cache : Size({f} \cup cache[f].newer) <= Budget})

Jpg(p) == <<"jpg", work[p].receipt>>
Txt(p) == <<"txt", work[p].receipt>>

BeginRender(p, r) ==
  /\ open /\ At(p, "idle") /\ makes[p] = "pages"
  /\ work' = [work EXCEPT ![p] = [NoWork EXCEPT !.pc = "jpg", !.receipt = r]]
  /\ UNCHANGED <<makes, open, agent, cache, locks, kills, history>>

\* An image cut short cannot be decoded: the extraction ends with status "error".
LookJpg(p) ==
  /\ At(p, "jpg")
  /\ IF ~Cached(Jpg(p)) THEN Goes(p, "newjpg")
     ELSE IF IsWhole(Jpg(p)) THEN Goes(p, "txt") ELSE Ends(p)
  /\ UNCHANGED <<makes, open, agent, cache, locks, kills, history>>

\* The directory is made with its parents; space is made before the write.
NewJpg(p) ==
  /\ At(p, "newjpg")
  /\ cache' = Opened(Evicted, Jpg(p), p) /\ Goes(p, "savejpg")
  /\ UNCHANGED <<makes, open, agent, locks, kills, history>>

SaveJpg(p) ==
  /\ At(p, "savejpg")
  /\ cache' = Written(Jpg(p), p) /\ Goes(p, "txt")
  /\ UNCHANGED <<makes, open, agent, locks, kills, history>>

\* Mutant: the file is opened before there is a text to write.
LookTxt_OpensFirst(p) ==
  /\ At(p, "txt")
  /\ IF Cached(Txt(p)) THEN Ends(p) /\ UNCHANGED cache
     ELSE cache' = Opened(cache, Txt(p), p) /\ (Ends(p) \/ Goes(p, "savetxt"))
  /\ UNCHANGED <<makes, open, agent, locks, kills, history>>

\* A cached text is taken as it is; the check for an empty one is made of a new text only.
LookTxt(p) ==
  /\ At(p, "txt")
  /\ IF Cached(Txt(p)) THEN Ends(p) /\ UNCHANGED cache
                       ELSE Goes(p, "savetxt") /\ cache' = Opened(cache, Txt(p), p)
  /\ UNCHANGED <<makes, open, agent, locks, kills, history>>

SaveTxt(p) ==
  /\ At(p, "savetxt")
  /\ cache' = Written(Txt(p), p) /\ Ends(p)
  /\ UNCHANGED <<makes, open, agent, locks, kills, history>>

\* An image that cannot be decoded or has no text, and a file that another eviction or a lock
\* removed between exists() and the read, end the rendering before it has written.
Raises(p) ==
  /\ work[p].pc \in {"jpg", "newjpg", "txt"}
  /\ Ends(p)
  /\ UNCHANGED <<makes, open, agent, cache, locks, kills, history>>

-----------------------------------------------------------------------------
(* Lock, unlock, kill                                                       *)

OpenGate ==
  /\ ~open /\ \A p \in Actor : ~Locking(p)
  /\ open' = TRUE
  /\ UNCHANGED <<makes, agent, cache, work, locks, kills, history>>

\* The identity is overwritten first, which closes the gate.
CloseGate(p) ==
  /\ open /\ At(p, "idle") /\ locks < MaxLock
  /\ open' = FALSE /\ locks' = locks + 1 /\ built' = FALSE
  /\ Goes(p, "scan")
  /\ crossed' = crossed \cup {q \in Actor : Building(q)}
  /\ late' = (UNION {{Jpg(q), Txt(q)} : q \in {r \in Actor : Rendering(r)}})
             \cup (IF \E q \in Actor : Building(q) THEN {Agent} ELSE {})
  /\ UNCHANGED <<makes, agent, cache, kills, gap, mixed, cut>>

Files(name, d) == IF d = Nothing THEN {} ELSE {<<name, "dir">>} \cup {<<name, f[1]>> : f \in d}
\* Mutant: the lock overlooks the workspace moved away.
Listing_NoOld == Files("staging", staging) \cup Files("dest", dest) \cup {<<"render", f>> : f \in DOMAIN cache}

Listing == Files("staging", staging) \cup Files("dest", dest) \cup Files("old", old)
           \cup {<<"render", f>> : f \in DOMAIN cache}

\* rmtree removes what it found; a directory that has got another file since is not removed.
Left(name, d, listed) ==
  IF d = Nothing THEN Nothing
  ELSE LET rest == {f \in d : <<name, f[1]>> \notin listed} IN
       IF rest = {} /\ <<name, "dir">> \in listed THEN Nothing ELSE rest

ListAll(p) ==
  /\ At(p, "scan")
  /\ work' = [work EXCEPT ![p].pc = "remove", ![p].listed = Listing]
  /\ UNCHANGED <<makes, open, agent, cache, locks, kills, history>>

Remove(p) ==
  /\ At(p, "remove")
  /\ LET listed == work[p].listed IN
     /\ staging' = Left("staging", staging, listed)
     /\ dest' = Left("dest", dest, listed)
     /\ old' = Left("old", old, listed)
     /\ cache' = Only(cache, {f \in DOMAIN cache : <<"render", f>> \notin listed})
  /\ Ends(p)
  /\ UNCHANGED <<makes, open, locks, kills, history>>

Kill(p) ==
  /\ (Building(p) \/ Rendering(p)) /\ kills < MaxKill
  /\ kills' = kills + 1
  /\ gap' = (gap \/ At(p, "publish"))
  /\ cut' = cut \cup (CASE At(p, "savejpg") -> {Jpg(p)} [] At(p, "savetxt") -> {Txt(p)} [] OTHER -> {})
  /\ Ends(p)
  /\ UNCHANGED <<makes, open, agent, cache, locks, crossed, built, mixed, late>>

RuntimeNext ==
  \/ OpenGate
  \/ \E p \in Actor :
       \/ Begin(p) \/ Stage(p) \/ WriteBank(p) \/ WriteLedger(p) \/ WriteManifest(p)
       \/ ClearOld(p) \/ MoveOld(p) \/ Publish(p) \/ DropOld(p)
       \/ \E r \in Receipt : BeginRender(p, r)
       \/ LookJpg(p) \/ NewJpg(p) \/ SaveJpg(p) \/ LookTxt(p) \/ SaveTxt(p) \/ Raises(p)
       \/ CloseGate(p) \/ ListAll(p) \/ Remove(p) \/ Kill(p)

RuntimeSpec == RuntimeInit /\ [][RuntimeNext]_runtime

-----------------------------------------------------------------------------
Dir == {Nothing} \cup SUBSET (Part \X Actor)
Pc == {"idle", "stage", "bank", "ledger", "manifest", "clear", "move", "publish", "drop",
       "jpg", "newjpg", "savejpg", "txt", "savetxt", "scan", "remove"}
Listed == ({"staging", "dest", "old"} \X (Part \cup {"dir"})) \cup ({"render"} \X Page)

\* Every variable has its type.
RuntimeTypeOK ==
  /\ makes \in [Actor -> {"workspace", "pages"}] /\ open \in BOOLEAN /\ locks \in 0..MaxLock /\ kills \in 0..MaxKill
  /\ {staging, dest, old} \subseteq Dir
  /\ work \in [Actor -> [pc : Pc, receipt : Receipt \cup {Nothing}, listed : SUBSET Listed]]
  /\ DOMAIN cache \subseteq Page
  /\ \A f \in DOMAIN cache : cache[f] \in [has : {"part", "all"}, by : SUBSET Actor, newer : SUBSET (DOMAIN cache \ {f})]
  /\ \A f, g \in DOMAIN cache : f # g => (f \in cache[g].newer <=> g \notin cache[f].newer)
  /\ crossed \subseteq Actor /\ {built, gap, mixed} \subseteq BOOLEAN /\ cut \subseteq Page /\ late \subseteq Page \cup {Agent}

\* What an agent finds is one whole build, every part by the same builder (workspace.py:346), with
\* builds killed and begun again, unless another build or a lock ran beside the one that made it.
WorkspaceIsWhole == dest = Nothing \/ mixed \/ \E p \in Actor : dest = Part \X {p}

\* A workspace that was made stays there until the next lock, whatever happens to later builds, save
\* between the two renames (workspace.py:350-351) and after a build that ended between them.
WorkspaceStays == built /\ dest = Nothing => gap \/ \E p \in Actor : At(p, "publish")

\* What is in the directory after a lock (paths.py:197: "gone at lock") was
\* written by somebody who was at it when the lock began, and is the page or the workspace of that.
LeftIsLate ==
  ~open /\ (\A p \in Actor : ~Locking(p)) =>
    /\ DOMAIN cache \subseteq late
    /\ {staging, dest, old} # {Nothing} => Agent \in late

\* A page that may be read is whole (a text is given to the model as it is found), unless it is
\* being written or its writer was killed.
PagesAreWhole ==
  \A f \in DOMAIN cache : cache[f].has = "all" \/ f \in cut
    \/ \E p \in cache[f].by : work[p].pc \in {"savejpg", "savetxt"}

\* The images stay within the budget, plus one for each process that renders (render.py:93).
CacheIsBounded == Size(DOMAIN cache) <= Budget + Cardinality({p \in Actor : makes[p] = "pages"})
=============================================================================
