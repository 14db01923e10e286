------------------------------- MODULE Menus -------------------------------
(***************************************************************************)
(* The menu verbs (menu_service.rs): create, patch, delete and the fan-out *)
(* copy, and the trees that officers and visitors read.                    *)
(*                                                                         *)
(* As in Pages, a verb is one transaction and an action one SQL statement  *)
(* with the control after it.  The rules on depth and mega-menus are       *)
(* service-side: each is checked on rows that nothing locks, some          *)
(* statements before the write.  The order of siblings is layout and left  *)
(* out, so the fan-out may take any root of a website for its first one.   *)
(***************************************************************************)
EXTENDS RowStore, Specificity, FiniteSets

CONSTANTS
    Catalogs,   \* committed states a run may start from
    Verbs,      \* the verbs the officers of this run call
    Actors,     \* "officer": the host set WebsiteActor; "system": it did not
    Drafts,     \* <<visibility, is_mega_menu>> given to create
    Patches,    \* the column sets given to patch
    Viewers,    \* the tiers that pass for a visitor, as tier_passes answers
    Keep,       \* a column that a patch does not name
    MaxCalls    \* bound on the calls of a behaviour

VARIABLES tx, calls

vars == <<db, ws, tx, calls>>

\* The depth ceiling, and the hops after which depth_of stops to climb.
MenuMaxDepth == 2
WalkLimit == 16

Patch == [parent : MenuIds \cup {None, Keep}, mega : BOOLEAN \cup {Keep},
          tier : Tiers \cup {Keep}]

ASSUME CatalogsAssumption == \A t \in Catalogs : TableState(t) /\ CollisionFree(t)
ASSUME InputsAssumption ==
    /\ Verbs \subseteq {"create", "patch", "delete", "fanout"}
    /\ Actors \subseteq {"officer", "system"}
    /\ Drafts \subseteq Tiers \X BOOLEAN
    /\ Patches \subseteq Patch
    /\ Viewers \subseteq SUBSET Tiers
    /\ MaxCalls \in Nat
ASSUME KeepAssumption ==
    Keep \notin MenuIds \cup {None} /\ Keep \notin BOOLEAN /\ Keep \notin Tiers

Answers == {"none", "aborted", "MenuCreated", "MenuPatched", "MenuDeleted", "MenusFannedOut",
            "NotFound", "InvalidInput", "MenuDepthExceeded", "MegaMenuIsolated", "Db"}

Labels == {"idle", "commit", "create.depth", "create.insert",
           "patch.load", "patch.depth", "patch.mega", "patch.update",
           "delete.load", "delete.tombstone",
           "fanout.load", "fanout.key", "fanout.targets", "fanout.root", "fanout.page",
           "fanout.insert"}

\* The locals of a handler.  `row` is the input of create, `current` of patch, `source`
\* of the fan-out; `page` and `root` are what the fan-out found on its target.
Frame == [pc : Labels, actor : {"officer", "system"}, menu : MenuIds \cup {None},
          row : MenuRow \cup {NoRow}, patch : Patch \cup {None}, key : Keys \cup {None},
          targets : SUBSET Sites, root : MenuIds \cup {None}, page : PageIds \cup {None},
          answer : Answers]

Idle(a) == [pc |-> "idle", actor |-> "officer", menu |-> None, row |-> NoRow, patch |-> None,
            key |-> None, targets |-> {}, root |-> None, page |-> None, answer |-> a]

Init ==
    /\ db \in Catalogs
    /\ ws = [p \in Procs |-> NoWrites]
    /\ tx = [p \in Procs |-> Idle("none")]
    /\ calls = MaxCalls
-----------------------------------------------------------------------------
\* The shape of the tree in a table state t.

\* What depth_of has met after n hops up the parents of m: dead rows count.
Climb(t, m) ==
    LET up[n \in 0 .. WalkLimit] ==
          IF n = 0 THEN {m} ELSE {t[x].parent : x \in up[n - 1]} \ {None}
    IN  up

DepthOf(t, m) ==
    LET up == Climb(t, m)
    IN  CHOOSE d \in 0 .. WalkLimit : up[d] # {} /\ (d = WalkLimit \/ up[d + 1] = {})

\* The nodes that m hangs below: no chain without a cycle has more.
Ancestors(t, m) == UNION {Climb(t, m)[n] : n \in 1 .. Cardinality(MenuIds)}

ChildrenOf(t, m) == {x \in LiveMenus(t) : t[x].parent = m}

SiteMenus(t, w) == {m \in LiveMenus(t) : t[m].site = w}

\* A wrong variant: `attach` that does not descend.
FlatBuildTree(t, R) ==
    LET roots == {m \in R : t[m].parent \notin R}
    IN  roots \cup {m \in R : t[m].parent \in roots}

\* build_tree(rows): the nodes it hands out.  A node whose parent is not among the rows
\* is a root; one that no root leads to is in no tree.
BuildTree(t, R) ==
    LET served[n \in 0 .. Cardinality(R)] ==
          IF n = 0 THEN {m \in R : t[m].parent \notin R}
          ELSE LET above == served[n - 1]
               IN  above \cup {m \in R : t[m].parent \in above}
    IN  served[Cardinality(R)]

TreeAdmin(t, w) == BuildTree(t, SiteMenus(t, w))

\* What a viewer may see by the tier of the node alone.
Visible(t, w, viewer) == {m \in SiteMenus(t, w) : t[m].tier \in viewer}

\* Keeps a visible node when its parent is visible.
TreeVisible(t, w, viewer) ==
    LET visible == Visible(t, w, viewer)
        fully == {m \in visible : t[m].parent \in visible \cup {None}}
    IN  BuildTree(t, fully)
-----------------------------------------------------------------------------
\* Handler control.

At(p, label) == tx[p].pc = label /\ UNCHANGED calls

Goto(p, frame, label) == tx' = [tx EXCEPT ![p] = [frame EXCEPT !.pc = label]]

Finish(p, frame, a) ==
    tx' = [tx EXCEPT ![p] = [frame EXCEPT !.pc = "commit", !.answer = a]]

Fail(p, a) == RollbackTx(p) /\ tx' = [tx EXCEPT ![p] = Idle(a)]

Unused == {m \in MenuIds : db[m] = NoRow /\ \A q \in Procs : ws[q][m] = NoRow}
NewId == CHOOSE m \in Unused : TRUE

\* SELECT .. WHERE id = $1 AND the row is live.
LoadLive(p, frame, label) ==
    \/ /\ tx[p].menu \in LiveMenus(View(p))
       /\ UNCHANGED storeVars /\ Goto(p, frame, label)
    \/ tx[p].menu \notin LiveMenus(View(p)) /\ Fail(p, "NotFound")

\* Without an officer the stamps break the statement, as in Pages.
StampRefused(p) == tx[p].actor = "system" /\ Fail(p, "Db")
\* The next website of the loop, or the end of the verb.
FanoutNext(p, frame) ==
    \/ frame.targets # {} /\ Goto(p, frame, "fanout.root")
    \/ frame.targets = {} /\ Finish(p, frame, "MenusFannedOut")

-----------------------------------------------------------------------------
\* Wrong variants, one plausible slip each.

\* The row written back as it was loaded.
StalePatchUpdate(p) ==
    LET f == tx[p]
        new == Version(f.menu, [f.row EXCEPT
                  !.parent = IF f.patch.parent = Keep THEN @ ELSE f.patch.parent,
                  !.mega = IF f.patch.mega = Keep THEN @ ELSE f.patch.mega,
                  !.tier = IF f.patch.tier = Keep THEN @ ELSE f.patch.tier])
    IN  /\ At(p, "patch.update")
        /\ \/ /\ f.actor = "officer" /\ f.menu \in LiveMenus(View(p))
              /\ Write(p, new) /\ Finish(p, f, "MenuPatched")
           \/ /\ f.actor = "officer" /\ f.menu \notin LiveMenus(View(p))
              /\ Fail(p, "Db")
           \/ StampRefused(p)

\* The loop goes over every live website.
EveryFanoutTarget(p) ==
    /\ At(p, "fanout.targets")
    /\ UNCHANGED storeVars
    /\ FanoutNext(p, [tx[p] EXCEPT !.targets = LiveSites(View(p))])

\* The copy keeps the page of the source.
UnboundFanoutPage(p) ==
    /\ At(p, "fanout.page")
    /\ UNCHANGED storeVars
    /\ Goto(p, [tx[p] EXCEPT !.page = tx[p].row.page], "fanout.insert")
-----------------------------------------------------------------------------
\* create_menu

\* Only a menu with a parent is checked: it is no mega-menu, and not too deep.  That the
\* parent is live, of the same website and no mega-menu itself is not asked.
CreateDepth(p) ==
    LET parent == tx[p].row.parent
        depth == DepthOf(View(p), parent) + 1
    IN  /\ At(p, "create.depth")
        /\ \/ tx[p].row.mega /\ Fail(p, "MegaMenuIsolated")
           \/ ~tx[p].row.mega /\ depth > MenuMaxDepth /\ Fail(p, "MenuDepthExceeded")
           \/ /\ ~tx[p].row.mega /\ depth <= MenuMaxDepth
              /\ UNCHANGED storeVars /\ Goto(p, tx[p], "create.insert")

CreateInsert(p) ==
    /\ At(p, "create.insert") /\ Unused # {}
    /\ Write(p, Version(NewId, tx[p].row))
    /\ Finish(p, tx[p], "MenuCreated")
-----------------------------------------------------------------------------
\* patch_menu(id, patch)

\* The row as it is now tells which rules the patch has to meet.
PatchLoad(p) ==
    LET f == tx[p]
        current == View(p)[f.menu]
        willParent == IF f.patch.parent = Keep THEN current.parent ELSE f.patch.parent
        willMega == IF f.patch.mega = Keep THEN current.mega ELSE f.patch.mega
        loaded == [f EXCEPT !.row = current, !.root = willParent]
    IN  /\ At(p, "patch.load")
        /\ \/ f.menu \notin LiveMenus(View(p)) /\ Fail(p, "NotFound")
           \/ /\ f.menu \in LiveMenus(View(p))
              /\ \/ willParent = f.menu /\ Fail(p, "InvalidInput")
                 \/ /\ willParent \notin {f.menu, None}
                    /\ Goto(p, loaded, "patch.depth") /\ UNCHANGED storeVars
                 \/ /\ willParent = None /\ willMega
                    /\ Goto(p, loaded, "patch.mega") /\ UNCHANGED storeVars
                 \/ /\ willParent = None /\ ~willMega
                    /\ Goto(p, loaded, "patch.update") /\ UNCHANGED storeVars

\* The depth of the node itself at its new place: nobody asks for what hangs below it.
PatchDepth(p) ==
    LET f == tx[p]
        willMega == IF f.patch.mega = Keep THEN f.row.mega ELSE f.patch.mega
        depth == DepthOf(View(p), f.root) + 1
    IN  /\ At(p, "patch.depth")
        /\ \/ depth > MenuMaxDepth /\ Fail(p, "MenuDepthExceeded")
           \/ depth <= MenuMaxDepth /\ willMega /\ Fail(p, "MegaMenuIsolated")
           \/ /\ depth <= MenuMaxDepth /\ ~willMega
              /\ Goto(p, f, "patch.update") /\ UNCHANGED storeVars

PatchMega(p) ==
    /\ At(p, "patch.mega")
    /\ \/ ChildrenOf(View(p), tx[p].menu) # {} /\ Fail(p, "MegaMenuIsolated")
       \/ /\ ChildrenOf(View(p), tx[p].menu) = {}
          /\ Goto(p, tx[p], "patch.update") /\ UNCHANGED storeVars

\* UPDATE of the named columns of the live row.
PatchUpdate(p) ==
    LET f == tx[p]
        new == Version(f.menu, [View(p)[f.menu] EXCEPT
                  !.parent = IF f.patch.parent = Keep THEN @ ELSE f.patch.parent,
                  !.mega = IF f.patch.mega = Keep THEN @ ELSE f.patch.mega,
                  !.tier = IF f.patch.tier = Keep THEN @ ELSE f.patch.tier])
    IN  /\ At(p, "patch.update")
        /\ \/ /\ f.actor = "officer" /\ f.menu \in LiveMenus(View(p))
              /\ Write(p, new) /\ Finish(p, f, "MenuPatched")
           \/ /\ f.actor = "officer" /\ f.menu \notin LiveMenus(View(p))
              /\ Fail(p, "Db")
           \/ StampRefused(p)
-----------------------------------------------------------------------------
\* delete_menu(id)

DeleteLoad(p) == At(p, "delete.load") /\ LoadLive(p, tx[p], "delete.tombstone")

DeleteTombstone(p) ==
    LET m == tx[p].menu
    IN  /\ At(p, "delete.tombstone")
        /\ \/ /\ tx[p].actor = "officer"
              /\ Write(p, Version(m, [View(p)[m] EXCEPT !.live = FALSE]))
              /\ Finish(p, tx[p], "MenuDeleted")
           \/ StampRefused(p)
-----------------------------------------------------------------------------
\* fanout_menu(id)

FanoutLoad(p) ==
    /\ At(p, "fanout.load")
    /\ LoadLive(p, [tx[p] EXCEPT !.row = View(p)[tx[p].menu]],
                IF View(p)[tx[p].menu].page = None THEN "fanout.targets" ELSE "fanout.key")

\* The key of the source's page, dead or alive: no foreign key holds it in the table.
FanoutKey(p) ==
    LET page == View(p)[tx[p].row.page]
    IN  /\ At(p, "fanout.key")
        /\ UNCHANGED storeVars
        /\ Goto(p, [tx[p] EXCEPT !.key = IF page = NoRow THEN None ELSE page.key],
                "fanout.targets")

FanoutTargets(p) ==
    /\ At(p, "fanout.targets")
    /\ UNCHANGED storeVars
    /\ FanoutNext(p, [tx[p] EXCEPT !.targets = LiveSites(View(p)) \ {tx[p].row.site}])

\* The websites come ORDER BY id.
Target(f) == CHOOSE w \in f.targets : \A x \in f.targets : w <= x

FanoutRoot(p) ==
    LET f == tx[p]
        v == View(p)
        roots == {m \in SiteMenus(v, Target(f)) : v[m].parent = None}
    IN  /\ At(p, "fanout.root")
        /\ UNCHANGED storeVars
        /\ \E r \in IF roots = {} THEN {None} ELSE roots :
             \/ f.key # None /\ Goto(p, [f EXCEPT !.root = r], "fanout.page")
             \/ f.key = None /\ Goto(p, [f EXCEPT !.root = r, !.page = None], "fanout.insert")

\* The page that the key resolves to on the target.
FanoutPage(p) ==
    LET f == tx[p]
        found == ResolveSpecific(View(p), f.key, Target(f))
    IN  /\ At(p, "fanout.page")
        /\ UNCHANGED storeVars
        /\ \E i \in IF found = {} THEN {None} ELSE found :
             Goto(p, [f EXCEPT !.page = i], "fanout.insert")

\* A mega-menu is copied as a root, any other menu below the root that was found.
FanoutInsert(p) ==
    LET f == tx[p]
        copy == [f.row EXCEPT !.site = Target(f), !.page = f.page,
                              !.parent = IF f.row.mega THEN None ELSE f.root]
    IN  /\ At(p, "fanout.insert") /\ Unused # {}
        /\ Write(p, Version(NewId, copy))
        /\ FanoutNext(p, [f EXCEPT !.targets = @ \ {Target(f)}, !.root = None, !.page = None])
-----------------------------------------------------------------------------
\* A request starts a verb.

Begin(p, verb, label, frame) ==
    /\ tx[p].pc = "idle" /\ calls > 0 /\ verb \in Verbs
    /\ calls' = calls - 1
    /\ UNCHANGED storeVars
    /\ Goto(p, frame, label)

BeginCreate(p) ==
    \E w \in {x \in Sites : db[x] # NoRow}, d \in Drafts,
       parent \in {m \in MenuIds : db[m] # NoRow} \cup {None} :
        Begin(p, "create", IF parent = None THEN "create.insert" ELSE "create.depth",
              [Idle("none") EXCEPT !.row =
                 [site |-> w, page |-> None, url |-> None, parent |-> parent,
                  mega |-> d[2], tier |-> d[1], live |-> TRUE]])

BeginPatch(p) ==
    \E m \in {x \in MenuIds : db[x] # NoRow}, c \in Patches, a \in Actors :
        Begin(p, "patch", "patch.load",
              [Idle("none") EXCEPT !.menu = m, !.patch = c, !.actor = a])

BeginDelete(p) ==
    \E m \in {x \in MenuIds : db[x] # NoRow}, a \in Actors :
        Begin(p, "delete", "delete.load", [Idle("none") EXCEPT !.menu = m, !.actor = a])

BeginFanout(p) ==
    \E m \in {x \in MenuIds : db[x] # NoRow} :
        Begin(p, "fanout", "fanout.load", [Idle("none") EXCEPT !.menu = m])

Commit(p) ==
    /\ At(p, "commit")
    /\ CommitTx(p)
    /\ tx' = [tx EXCEPT ![p] = Idle(tx[p].answer)]

Abort(p) ==
    /\ tx[p].pc # "idle" /\ UNCHANGED calls
    /\ Fail(p, "aborted")

Create(p) == CreateDepth(p) \/ CreateInsert(p)

PatchVerb(p) == PatchLoad(p) \/ PatchDepth(p) \/ PatchMega(p) \/ PatchUpdate(p)

Delete(p) == DeleteLoad(p) \/ DeleteTombstone(p)

Fanout(p) == \/ FanoutLoad(p) \/ FanoutKey(p) \/ FanoutTargets(p) \/ FanoutRoot(p)
             \/ FanoutPage(p) \/ FanoutInsert(p)

Start(p) == BeginCreate(p) \/ BeginPatch(p) \/ BeginDelete(p) \/ BeginFanout(p)

Next == \E p \in Procs : \/ Start(p) \/ Create(p) \/ PatchVerb(p) \/ Delete(p) \/ Fanout(p)
                         \/ Commit(p) \/ Abort(p)

Spec == Init /\ [][Next]_vars
-----------------------------------------------------------------------------
\* Properties.

\* Labels at which the handler holds the row it has loaded.
LoadedLabels == {"patch.depth", "patch.mega", "patch.update", "fanout.key", "fanout.targets",
                 "fanout.root", "fanout.page", "fanout.insert"}

\* Types, locks, and what the handlers rely on: a row that was loaded stays in the table,
\* the fan-out has a target at hand and never aims at the website it copies from.
MenusInv ==
    /\ StoreTypeOK /\ tx \in [Procs -> Frame] /\ calls \in 0 .. MaxCalls
    /\ LocksExclusive
    /\ \A p \in Procs :
         LET f == tx[p]
         IN  /\ f.pc \in LoadedLabels => f.row # NoRow /\ db[f.menu] # NoRow
             /\ f.pc = "patch.depth" => f.root \in MenuIds
             /\ f.pc \in {"fanout.root", "fanout.page", "fanout.insert"} =>
                  f.targets # {} /\ f.row.site \notin f.targets

\* "Depth <= 2 below root" (docs/spec.md 1.4) and "a patch that would DEEPEN a subtree past
\* the ceiling is refused" (tests/probes/menus_redirects.rs), for the committed menus.
DepthBounded == \A m \in LiveMenus(db) : DepthOf(db, m) <= MenuMaxDepth

\* The chain of m ends in a root, and all of it is in S.
WholeChainIn(t, m, S) ==
    LET chain == Ancestors(t, m) \cup {m}
    IN  chain \subseteq S /\ \E r \in chain : t[r].parent = None

\* The trees lose nothing: the officer is shown every node whose chain ends in a root, a viewer
\* every node whose whole chain it may see, after any race of moves, deletions and changes of
\* tier (tree_admin, tree_visible).
PublicTreeComplete ==
    \A m \in LiveMenus(db), viewer \in Viewers :
        LET w == db[m].site
        IN  /\ WholeChainIn(db, m, SiteMenus(db, w)) => m \in TreeAdmin(db, w)
            /\ WholeChainIn(db, m, Visible(db, w, viewer)) => m \in TreeVisible(db, w, viewer)

\* p commits in this step, and answers a.
Commits(p, a) == tx[p].pc = "commit" /\ tx'[p] = Idle(a) /\ tx[p].answer = a

Changed == {i \in Id : db'[i] # db[i]}

\* The columns that the patch of p does not name are as committed, and only its row changed.
KeepsTheRest(p) ==
    LET m == tx[p].menu
        c == tx[p].patch
    IN  /\ Changed \subseteq {m} /\ db'[m].live = db[m].live
        /\ c.parent = Keep => db'[m].parent = db[m].parent
        /\ c.mega = Keep => db'[m].mega = db[m].mega
        /\ c.tier = Keep => db'[m].tier = db[m].tier

\* A patch sets the columns it names and keeps every other one as committed, whatever was
\* written to the row since the patch loaded it; and it revives nothing.
PatchTouchesOnlyItsFields ==
    [][\A p \in Procs : Commits(p, "MenuPatched") => KeepsTheRest(p)]_vars

\* The copies of p's fan-out: new rows, one on every other live website, each below a menu of
\* its own website and bound to a page that website serves.
CopiesLand(p) ==
    LET source == tx[p].row
    IN  /\ \A w \in LiveSites(db) \ {source.site} :
             Cardinality({m \in Changed : db'[m].site = w}) = 1
        /\ \A m \in Changed :
             /\ db[m] = NoRow /\ db'[m].site \in LiveSites(db) \ {source.site}
             /\ db'[m].parent # None => db'[db'[m].parent].site = db'[m].site
             /\ db'[m].page # None =>
                  /\ db'[db'[m].page].scope \in {db'[m].site, Generic}
                  /\ db'[db'[m].page].key = db'[source.page].key

\* The copies of a fan-out land together, one on every other live website; each hangs
\* below a menu of its own website and is bound to a page that website serves.
FanoutStaysLocal ==
    [][\A p \in Procs : Commits(p, "MenusFannedOut") => CopiesLand(p)]_vars
=============================================================================
