------------------------------- MODULE Pages -------------------------------
(***************************************************************************)
(* The page verbs: copy-on-write fork and copy-on-unlink fanout deletion   *)
(* (versioning_service.rs), and create, patch, publish, unpublish, rename  *)
(* and delete of a page (page_service.rs).                                 *)
(*                                                                         *)
(* A verb is one transaction; an action is one SQL statement of it, and    *)
(* the local control that follows the statement up to the next one.  Two   *)
(* requests interleave between statements.  `tx[p]` holds the locals of    *)
(* the handler that request p runs.                                        *)
(***************************************************************************)
EXTENDS RowStore, Specificity

CONSTANTS
    Catalogs,   \* committed states a run may start from
    Verbs,      \* the verbs the officers of this run call
    Actors,     \* "officer": the host set WebsiteActor; "system": it did not
    Listings,   \* <<visibility, website_indexed>> given to create and patch
    MaxCalls    \* bound on the calls of a behaviour

VARIABLES tx, calls

vars == <<db, ws, tx, calls>>

AllVerbs == {"fork", "fanout", "create", "patch", "publish", "unpublish",
             "rename", "delete"}

\* The live menus of a table state are bound to rows (a foreign key), each to a page of its
\* own website or to a generic one.
BoundLocally(t) ==
    \A m \in LiveMenus(t) : t[m].page # None =>
        t[t[m].page] # NoRow /\ t[t[m].page].scope \in {t[m].site, Generic}

ASSUME CatalogsAssumption ==
    \A t \in Catalogs : TableState(t) /\ CollisionFree(t) /\ BoundLocally(t)
ASSUME VerbsAssumption == Verbs \subseteq AllVerbs
ASSUME ActorsAssumption == Actors \subseteq {"officer", "system"}
ASSUME ListingsAssumption == Listings \subseteq Tiers \X BOOLEAN
ASSUME MaxCallsAssumption == MaxCalls \in Nat

\* What a handler returns.  "Internal" and "Db" are the untyped 500s.
Answers == {"none", "aborted", "Created", "Existing", "FannedOut", "PageCreated",
            "Patched", "Published", "Unpublished", "Renamed", "Deleted",
            "ForkSourceMissing", "NotFound", "GenericRequiresFanoutVerb",
            "SpecificityConflict", "InvalidInput", "Internal", "Db"}

Labels == {"idle", "commit",
           "fork.resolve", "fork.confirm", "fork.generic", "fork.select",
           "fork.insert", "fork.reselect", "fork.menus",
           "fanout.generic", "fanout.targets", "fanout.select", "fanout.insert",
           "fanout.menus", "fanout.delete",
           "create.insert", "patch.update", "publish.update", "unpublish.update",
           "rename.load", "rename.move", "rename.menus", "rename.homepage",
           "rename.redirect",
           "delete.load", "delete.tombstone", "delete.generic", "delete.repoint",
           "delete.unbind"}

\* The locals of a handler.  `page` is the page the call names or answers with.
Frame == [pc : Labels, actor : {"officer", "system"}, key : Keys \cup {None},
          scope : Scopes, page : PageIds \cup {None}, url : Urls \cup {None},
          oldUrl : Urls \cup {None}, listing : Tiers \X BOOLEAN \cup {None},
          redirect : {"no", "moved", "bad"}, generic : PageIds \cup {None},
          source : PageRow \cup {NoRow}, targets : SUBSET Sites,
          created : BOOLEAN, answer : Answers]

Idle(a) == [pc |-> "idle", actor |-> "officer", key |-> None, scope |-> Generic,
            page |-> None, url |-> None, oldUrl |-> None, listing |-> None,
            redirect |-> "no", generic |-> None, source |-> NoRow,
            targets |-> {}, created |-> FALSE, answer |-> a]

Init ==
    /\ db \in Catalogs
    /\ ws = [p \in Procs |-> NoWrites]
    /\ tx = [p \in Procs |-> Idle("none")]
    /\ calls = MaxCalls
-----------------------------------------------------------------------------
\* Handler control.

At(p, label) == tx[p].pc = label /\ UNCHANGED calls

Goto(p, frame, label) == tx' = [tx EXCEPT ![p] = [frame EXCEPT !.pc = label]]

\* The last statement ran: what is left is tx.commit(), then the answer.
Finish(p, frame, a) ==
    tx' = [tx EXCEPT ![p] = [frame EXCEPT !.pc = "commit", !.answer = a]]

\* `return Err(..)` drops the open transaction.
Fail(p, a) == RollbackTx(p) /\ tx' = [tx EXCEPT ![p] = Idle(a)]

\* A primary key that no transaction has used (Uuid::new_v4, gen_random_uuid).
Unused(S) == {i \in S : db[i] = NoRow /\ \A q \in Procs : ws[q][i] = NoRow}
NewId(S) == CHOOSE i \in Unused(S) : TRUE

\* UPDATE .. WHERE id = $1 AND the row is live.
UpdateLive(p, g(_), done, missing) ==
    LET i == tx[p].page
        v == View(p)
        new == Version(i, g(v[i]))
    IN  \/ /\ i \in LivePages(v)
           /\ \/ Write(p, new) /\ Finish(p, tx[p], done)
              \/ ~Waits(p, new) /\ Conflicts(p, new) /\ Fail(p, "SpecificityConflict")
        \/ i \notin LivePages(v) /\ Fail(p, missing)

-----------------------------------------------------------------------------
\* insert_specific_copy: INSERT .. SELECT .. ON CONFLICT DO NOTHING.  The SELECT
\* reads the generic row; the INSERT may wait, and lands or does nothing.

SelectSource(p, label) ==
    LET g == tx[p].generic IN
    /\ UNCHANGED storeVars
    /\ Goto(p, [tx[p] EXCEPT !.source = IF View(p)[g].live THEN View(p)[g] ELSE NoRow],
            label)

\* The columns of the generic that the copy takes, under the target's website_id.
SpecificCopy(row, g, w) == [row EXCEPT !.scope = w, !.forkedFrom = g]

\* The fanout's targets come ORDER BY w.id.
First(S) == {w \in S : \A x \in S : w <= x}

\* landed tells whether this call created the row.
InsertSpecificCopy(p, w, landed) ==
    LET row == tx[p].source
        new == Version(NewId(PageIds), SpecificCopy(row, tx[p].generic, w))
    IN  \/ row = NoRow /\ ~landed /\ UNCHANGED storeVars
        \/ /\ row # NoRow /\ Unused(PageIds) # {}
           /\ \/ ~landed /\ Refused(p, new)
              \/ landed /\ Write(p, new)

-----------------------------------------------------------------------------
\* Wrong variants, one plausible slip each.  No action uses them: a property is worth
\* checking when putting one in the place of its original breaks it.

\* The re-point's bind parameters swapped: page_id gets the website.
SwappedForkMenus(p) ==
    LET f == tx[p]
        v == View(p)
        bound == {m \in LiveMenus(v) : v[m].site = f.scope /\ v[m].page = f.generic}
    IN  /\ At(p, "fork.menus")
        /\ Write(p, [m \in bound |-> [v[m] EXCEPT !.page = f.scope]])
        /\ Finish(p, f, "Created")

\* The re-point without its website arm.
EverywhereForkMenus(p) ==
    LET f == tx[p]
        v == View(p)
        bound == {m \in LiveMenus(v) : v[m].page = f.generic}
    IN  /\ At(p, "fork.menus")
        /\ Write(p, [m \in bound |-> [v[m] EXCEPT !.page = f.page]])
        /\ Finish(p, f, "Created")

\* The fanout copies only to websites whose menus use the page.
MenuOnlyTargets(p) ==
    LET f == tx[p]
        v == View(p)
        lacking == {w \in LiveSites(v) :
                      \E m \in LiveMenus(v) : v[m].site = w /\ v[m].page = f.generic}
    IN  /\ At(p, "fanout.targets")
        /\ UNCHANGED storeVars
        /\ IF lacking = {} THEN Goto(p, f, "fanout.menus")
           ELSE Goto(p, [f EXCEPT !.targets = lacking], "fanout.select")

\* The fanout asks the fold, which the generic itself answers.
FoldedTargets(p) ==
    LET f == tx[p]
        v == View(p)
        lacking == {w \in LiveSites(v) : ResolveSpecific(v, f.key, w) = {}}
    IN  /\ At(p, "fanout.targets")
        /\ UNCHANGED storeVars
        /\ IF lacking = {} THEN Goto(p, f, "fanout.menus")
           ELSE Goto(p, [f EXCEPT !.targets = lacking], "fanout.select")

\* The fanout tries a copy that did not land again.
RetryingFanoutInsert(p) ==
    LET f == tx[p]
    IN  /\ At(p, "fanout.insert")
        /\ \E w \in First(f.targets), landed \in BOOLEAN :
             LET rest == IF landed THEN f.targets \ {w} ELSE f.targets IN
             /\ InsertSpecificCopy(p, w, landed)
             /\ Goto(p, [f EXCEPT !.targets = rest, !.source = NoRow],
                     IF rest = {} THEN "fanout.menus" ELSE "fanout.select")

\* The fanout forgets the menus.
NoFanoutMenus(p) ==
    /\ At(p, "fanout.menus")
    /\ UNCHANGED storeVars
    /\ Goto(p, tx[p], "fanout.delete")

\* The patch whitelist lets is_published through.
PublishingPatch(p) ==
    LET Patched(row) == [row EXCEPT !.published = TRUE]
    IN  /\ At(p, "patch.update")
        /\ \/ tx[p].actor = "officer" /\ UpdateLive(p, Patched, "Patched", "Db")
           \/ tx[p].actor = "system" /\ Fail(p, "Db")

\* The rename rebuilds metadata instead of setting updated_at in it.
RevivingRenameMove(p) ==
    LET f == tx[p]
        new == Version(f.page, [View(p)[f.page] EXCEPT !.url = f.url, !.live = TRUE])
    IN  /\ At(p, "rename.move")
        /\ \/ /\ Write(p, new)
              /\ \/ f.scope # Generic /\ Goto(p, f, "rename.menus")
                 \/ f.scope = Generic /\ Goto(p, f, "rename.redirect")
           \/ ~Waits(p, new) /\ Conflicts(p, new) /\ Fail(p, "SpecificityConflict")

-----------------------------------------------------------------------------
\* fork_to_website(key, target)

ForkResolve(p) ==
    LET f == tx[p]
        specific == \E i \in ResolveSpecific(View(p), f.key, f.scope) :
                        View(p)[i].scope = f.scope
    IN  /\ At(p, "fork.resolve")
        /\ UNCHANGED storeVars
        /\ \/ specific /\ Goto(p, f, "fork.confirm")
           \/ ~specific /\ Goto(p, f, "fork.generic")

\* A specific answers: read it as an entity and return it.
ForkConfirm(p) ==
    LET f == tx[p]
        found == ResolveSpecificEntity(View(p), f.key, f.scope)
    IN  /\ At(p, "fork.confirm")
        /\ \/ \E i \in found : /\ Finish(p, [f EXCEPT !.page = i], "Existing")
                               /\ UNCHANGED storeVars
           \/ found = {} /\ Fail(p, "Internal")

ForkLoadGeneric(p) ==
    LET f == tx[p]
        found == ResolveGeneric(View(p), f.key)
    IN  /\ At(p, "fork.generic")
        /\ \/ \E g \in found : /\ Goto(p, [f EXCEPT !.generic = g], "fork.select")
                               /\ UNCHANGED storeVars
           \/ found = {} /\ Fail(p, "ForkSourceMissing")

ForkSelect(p) == At(p, "fork.select") /\ SelectSource(p, "fork.insert")

ForkInsert(p) ==
    /\ At(p, "fork.insert")
    /\ \E landed \in BOOLEAN :
         /\ InsertSpecificCopy(p, tx[p].scope, landed)
         /\ Goto(p, [tx[p] EXCEPT !.created = landed, !.source = NoRow], "fork.reselect")

\* The loser re-selects the winner.
ForkReselect(p) ==
    LET f == tx[p]
        found == ResolveSpecificEntity(View(p), f.key, f.scope)
    IN  /\ At(p, "fork.reselect")
        /\ \/ \E i \in found :
                /\ UNCHANGED storeVars
                /\ \/ f.created /\ Goto(p, [f EXCEPT !.page = i], "fork.menus")
                   \/ ~f.created /\ Finish(p, [f EXCEPT !.page = i], "Existing")
           \/ found = {} /\ Fail(p, "Internal")

\* Only the call whose INSERT landed re-points the website's menus.
ForkRepointMenus(p) ==
    LET f == tx[p]
        v == View(p)
        bound == {m \in LiveMenus(v) : v[m].site = f.scope /\ v[m].page = f.generic}
    IN  /\ At(p, "fork.menus")
        /\ Write(p, [m \in bound |-> [v[m] EXCEPT !.page = f.page]])
        /\ Finish(p, f, "Created")

-----------------------------------------------------------------------------
\* delete_generic_with_fanout(key)

FanoutLoadGeneric(p) ==
    LET f == tx[p]
        found == ResolveGeneric(View(p), f.key)
    IN  /\ At(p, "fanout.generic")
        /\ \/ \E g \in found : /\ Goto(p, [f EXCEPT !.generic = g], "fanout.targets")
                               /\ UNCHANGED storeVars
           \/ found = {} /\ Fail(p, "ForkSourceMissing")

\* The loop has targets left, or the menus come next.
FanoutNext(p, frame) ==
    \/ frame.targets # {} /\ Goto(p, frame, "fanout.select")
    \/ frame.targets = {} /\ Goto(p, frame, "fanout.menus")

\* Every live website that lacks a specific for the key.
FanoutTargets(p) ==
    LET f == tx[p]
        v == View(p)
        lacking == {w \in LiveSites(v) : ResolveSpecificEntity(v, f.key, w) = {}}
    IN  /\ At(p, "fanout.targets")
        /\ UNCHANGED storeVars
        /\ FanoutNext(p, [f EXCEPT !.targets = lacking])

FanoutSelect(p) == At(p, "fanout.select") /\ SelectSource(p, "fanout.insert")

\* One turn of the loop, in the order of the website ids; a copy that does not
\* land is passed over.
FanoutInsert(p) ==
    LET f == tx[p]
    IN  /\ At(p, "fanout.insert")
        /\ \E w \in First(f.targets), landed \in BOOLEAN :
             /\ InsertSpecificCopy(p, w, landed)
             /\ FanoutNext(p, [f EXCEPT !.targets = f.targets \ {w}, !.source = NoRow])

\* UPDATE menus .. FROM pages: each website's menus go to its own specific.
FanoutRepointMenus(p) ==
    LET f == tx[p]
        v == View(p)
        Specific(m) == ResolveSpecificEntity(v, f.key, v[m].site)
        bound == {m \in LiveMenus(v) : v[m].page = f.generic /\ Specific(m) # {}}
    IN  /\ At(p, "fanout.menus")
        /\ Write(p, [m \in bound |-> [v[m] EXCEPT !.page = CHOOSE i \in Specific(m) : TRUE]])
        /\ Goto(p, f, "fanout.delete")

\* The soft delete stamps deleted_by with to_jsonb($2).  Without an officer that is
\* NULL, jsonb_set is strict, and the NOT NULL metadata column refuses the row.
Tombstone(p, i) ==
    /\ tx[p].actor = "officer"
    /\ Write(p, Version(i, [View(p)[i] EXCEPT !.live = FALSE]))

StampRefused(p) == tx[p].actor = "system" /\ Fail(p, "Db")

FanoutDelete(p) ==
    /\ At(p, "fanout.delete")
    /\ \/ Tombstone(p, tx[p].generic) /\ Finish(p, tx[p], "FannedOut")
       \/ StampRefused(p)

-----------------------------------------------------------------------------
\* The one-statement verbs.

\* create_page: an unpublished row; a collision answers 409.
CreateInsert(p) ==
    LET f == tx[p]
        row == [key |-> f.key, scope |-> f.scope, url |-> f.url, published |-> FALSE,
                tier |-> f.listing[1], indexed |-> f.listing[2],
                forkedFrom |-> None, live |-> TRUE]
        new == Version(NewId(PageIds), row)
    IN  /\ At(p, "create.insert") /\ Unused(PageIds) # {}
        /\ \/ Write(p, new) /\ Finish(p, f, "PageCreated")
           \/ ~Waits(p, new) /\ Conflicts(p, new) /\ Fail(p, "SpecificityConflict")

\* patch_page sets the whitelisted columns it was given, url among them; a missing
\* row is fetch_one's RowNotFound.  Without an officer the second stamp is left out of
\* the jsonb_set nest, and Postgres knows no jsonb_set of one argument.
PatchUpdate(p) ==
    LET f == tx[p]
        Patched(row) ==
            [row EXCEPT !.url = IF f.url = None THEN @ ELSE f.url,
                        !.tier = IF f.listing = None THEN @ ELSE f.listing[1],
                        !.indexed = IF f.listing = None THEN @ ELSE f.listing[2]]
    IN  /\ At(p, "patch.update")
        /\ \/ f.actor = "officer" /\ UpdateLive(p, Patched, "Patched", "Db")
           \/ StampRefused(p)

PublishUpdate(p) ==
    LET Publish(row) == [row EXCEPT !.published = TRUE]
    IN  At(p, "publish.update") /\ UpdateLive(p, Publish, "Published", "NotFound")

UnpublishUpdate(p) ==
    LET Unpublish(row) == [row EXCEPT !.published = FALSE]
    IN  At(p, "unpublish.update") /\ UpdateLive(p, Unpublish, "Unpublished", "NotFound")

-----------------------------------------------------------------------------
\* rename_page(id, new_url, create_redirect)

\* Reads the old url and the scope, without a lock.
RenameLoad(p) ==
    LET f == tx[p]
        v == View(p)
    IN  /\ At(p, "rename.load")
        /\ \/ /\ f.page \in LivePages(v)
              /\ Goto(p, [f EXCEPT !.oldUrl = v[f.page].url, !.scope = v[f.page].scope],
                      "rename.move")
              /\ UNCHANGED storeVars
           \/ f.page \notin LivePages(v) /\ Fail(p, "NotFound")

\* UPDATE .. WHERE id = $1: no liveness arm.  Only a specific has a website to cascade to.
RenameMove(p) ==
    LET f == tx[p]
        new == Version(f.page, [View(p)[f.page] EXCEPT !.url = f.url])
    IN  /\ At(p, "rename.move")
        /\ \/ /\ Write(p, new)
              /\ \/ f.scope # Generic /\ Goto(p, f, "rename.menus")
                 \/ f.scope = Generic /\ Goto(p, f, "rename.redirect")
           \/ ~Waits(p, new) /\ Conflicts(p, new) /\ Fail(p, "SpecificityConflict")

RenameMenus(p) ==
    LET f == tx[p]
        v == View(p)
        literal == {m \in LiveMenus(v) : v[m].site = f.scope /\ v[m].url = f.oldUrl}
    IN  /\ At(p, "rename.menus")
        /\ Write(p, [m \in literal |-> [v[m] EXCEPT !.url = f.url]])
        /\ Goto(p, f, "rename.homepage")

RenameHomepage(p) ==
    LET f == tx[p]
        v == View(p)
        home == {w \in {f.scope} : v[w] # NoRow /\ v[w].homepage = f.oldUrl}
    IN  /\ At(p, "rename.homepage")
        /\ Write(p, [w \in home |-> [v[w] EXCEPT !.homepage = f.url]])
        /\ Goto(p, f, "rename.redirect")

\* The optional redirect row: any code but 301 and 302 is refused, a generic has no
\* website_id for the NOT NULL column, and an existing rule for the path stays.
RenameRedirect(p) ==
    LET f == tx[p]
        rule == [site |-> f.scope, from |-> f.oldUrl, to |-> f.url, live |-> TRUE]
        new == Version(NewId(RedirectIds), rule)
    IN  /\ At(p, "rename.redirect")
        /\ \/ f.redirect = "no" /\ Finish(p, f, "Renamed") /\ UNCHANGED storeVars
           \/ f.redirect = "bad" /\ Fail(p, "InvalidInput")
           \/ f.redirect = "moved" /\ f.scope = Generic /\ Fail(p, "Db")
           \/ /\ f.redirect = "moved" /\ f.scope # Generic /\ Unused(RedirectIds) # {}
              /\ Write(p, new) \/ Refused(p, new)
              /\ Finish(p, f, "Renamed")

-----------------------------------------------------------------------------
\* delete_specific(id)

DeleteLoad(p) ==
    LET f == tx[p]
        v == View(p)
    IN  /\ At(p, "delete.load")
        /\ \/ f.page \notin LivePages(v) /\ Fail(p, "NotFound")
           \/ /\ f.page \in LivePages(v)
              /\ \/ /\ v[f.page].scope = Generic
                    /\ Fail(p, "GenericRequiresFanoutVerb")
                 \/ /\ v[f.page].scope # Generic
                    /\ Goto(p, [f EXCEPT !.key = v[f.page].key], "delete.tombstone")
                    /\ UNCHANGED storeVars

DeleteTombstone(p) ==
    /\ At(p, "delete.tombstone")
    /\ \/ Tombstone(p, tx[p].page) /\ Goto(p, tx[p], "delete.generic")
       \/ StampRefused(p)

DeleteLoadGeneric(p) ==
    LET f == tx[p]
        found == ResolveGeneric(View(p), f.key)
    IN  /\ At(p, "delete.generic")
        /\ UNCHANGED storeVars
        /\ \/ \E g \in found : Goto(p, [f EXCEPT !.generic = g], "delete.repoint")
           \/ found = {} /\ Goto(p, f, "delete.unbind")

\* UPDATE menus SET page_id = target WHERE page_id = the deleted page.
Rebind(p, target) ==
    LET v == View(p)
        bound == {m \in LiveMenus(v) : v[m].page = tx[p].page}
    IN  Write(p, [m \in bound |-> [v[m] EXCEPT !.page = target]])

DeleteRepoint(p) ==
    /\ At(p, "delete.repoint")
    /\ Rebind(p, tx[p].generic)
    /\ Goto(p, tx[p], "delete.unbind")

DeleteUnbind(p) ==
    /\ At(p, "delete.unbind")
    /\ Rebind(p, None)
    /\ Finish(p, tx[p], "Deleted")

-----------------------------------------------------------------------------
\* A request starts a verb, with the inputs an officer may give it.

Begin(p, verb, label, frame) ==
    /\ tx[p].pc = "idle" /\ calls > 0 /\ verb \in Verbs
    /\ calls' = calls - 1
    /\ UNCHANGED storeVars
    /\ Goto(p, frame, label)

BeginFork(p) ==
    \E k \in Keys, w \in {x \in Sites : db[x] # NoRow} :
        Begin(p, "fork", "fork.resolve", [Idle("none") EXCEPT !.key = k, !.scope = w])

BeginFanout(p) ==
    \E k \in Keys, a \in Actors :
        Begin(p, "fanout", "fanout.generic", [Idle("none") EXCEPT !.key = k, !.actor = a])

BeginCreate(p) ==
    \E k \in Keys, u \in Urls, l \in Listings, s \in Scopes :
        /\ s # Generic => db[s] # NoRow
        /\ Begin(p, "create", "create.insert",
                 [Idle("none") EXCEPT !.key = k, !.scope = s, !.url = u, !.listing = l])

BeginPatch(p) ==
    \E i \in {x \in PageIds : db[x] # NoRow}, u \in Urls \cup {None},
       l \in Listings \cup {None}, a \in Actors :
        /\ u # None \/ l # None
        /\ Begin(p, "patch", "patch.update",
                 [Idle("none") EXCEPT !.page = i, !.url = u, !.listing = l, !.actor = a])

BeginPublish(p) ==
    \E i \in {x \in PageIds : db[x] # NoRow} :
        \/ Begin(p, "publish", "publish.update", [Idle("none") EXCEPT !.page = i])
        \/ Begin(p, "unpublish", "unpublish.update", [Idle("none") EXCEPT !.page = i])

BeginRename(p) ==
    \E i \in {x \in PageIds : db[x] # NoRow}, u \in Urls, r \in {"no", "moved", "bad"} :
        Begin(p, "rename", "rename.load",
              [Idle("none") EXCEPT !.page = i, !.url = u, !.redirect = r])

BeginDelete(p) ==
    \E i \in {x \in PageIds : db[x] # NoRow}, a \in Actors :
        Begin(p, "delete", "delete.load", [Idle("none") EXCEPT !.page = i, !.actor = a])

-----------------------------------------------------------------------------
\* tx.commit(), and the answer to the caller.
Commit(p) ==
    /\ At(p, "commit")
    /\ CommitTx(p)
    /\ tx' = [tx EXCEPT ![p] = Idle(tx[p].answer)]

\* The connection is lost, the process stops, or the deadlock detector picks p.
Abort(p) ==
    /\ tx[p].pc # "idle" /\ UNCHANGED calls
    /\ Fail(p, "aborted")

Fork(p) == \/ ForkResolve(p) \/ ForkConfirm(p) \/ ForkLoadGeneric(p) \/ ForkSelect(p)
           \/ ForkInsert(p) \/ ForkReselect(p) \/ ForkRepointMenus(p)

Fanout(p) == \/ FanoutLoadGeneric(p) \/ FanoutTargets(p) \/ FanoutSelect(p)
             \/ FanoutInsert(p) \/ FanoutRepointMenus(p) \/ FanoutDelete(p)

Edit(p) == CreateInsert(p) \/ PatchUpdate(p) \/ PublishUpdate(p) \/ UnpublishUpdate(p)

Rename(p) == \/ RenameLoad(p) \/ RenameMove(p) \/ RenameMenus(p) \/ RenameHomepage(p)
             \/ RenameRedirect(p)

Delete(p) == \/ DeleteLoad(p) \/ DeleteTombstone(p) \/ DeleteLoadGeneric(p)
             \/ DeleteRepoint(p) \/ DeleteUnbind(p)

Start(p) == \/ BeginFork(p) \/ BeginFanout(p) \/ BeginCreate(p) \/ BeginPatch(p)
            \/ BeginPublish(p) \/ BeginRename(p) \/ BeginDelete(p)

Next == \E p \in Procs : \/ Start(p) \/ Fork(p) \/ Fanout(p) \/ Edit(p) \/ Rename(p)
                         \/ Delete(p) \/ Commit(p) \/ Abort(p)

Spec == Init /\ [][Next]_vars

-----------------------------------------------------------------------------
\* Shapes of every variable.
TypeOK ==
    /\ StoreTypeOK
    /\ tx \in [Procs -> Frame]
    /\ calls \in 0 .. MaxCalls

\* Labels at which the handler holds a generic row it has read.
GenericLabels == {"fork.select", "fork.insert", "fork.reselect", "fork.menus",
                  "fanout.targets", "fanout.select", "fanout.insert", "fanout.menus",
                  "fanout.delete", "delete.repoint"}

\* What the handler with locals f relies on, when its transaction sees v.
Locals(f, v) ==
    /\ f.pc \in GenericLabels => f.generic \in PageIds /\ v[f.generic] # NoRow
    /\ f.pc \in {"rename.move", "delete.tombstone"} => f.page \in PageIds /\ v[f.page] # NoRow
    /\ f.pc = "fork.menus" => f.page \in PageIds
    /\ f.pc \in {"fanout.select", "fanout.insert"} => f.targets # {}
    /\ f.pc = "create.insert" =>
         f.key \in Keys /\ f.url \in Urls /\ f.listing \in Tiers \X BOOLEAN
    /\ f.pc \in {"rename.load", "rename.move", "rename.menus", "rename.homepage",
                 "rename.redirect"} => f.url \in Urls
    /\ f.pc \in {"rename.move", "rename.menus", "rename.homepage", "rename.redirect"} =>
         f.oldUrl \in Urls
    /\ f.pc \in {"rename.menus", "rename.homepage"} => f.scope \in Sites

\* The inductive invariant: every table typed, row locks exclusive, the unique indexes
\* safe whichever open transactions commit, and every handler's locals fit its label.
PagesInv ==
    /\ TypeOK
    /\ LocksExclusive
    /\ IndexesSafe
    /\ \A p \in Procs : Locals(tx[p], View(p))

\* p commits in this step, and answers a.
Commits(p, a) == tx[p].pc = "commit" /\ tx'[p] = Idle(a) /\ tx[p].answer = a

AtMostOne(S) == \A i, j \in S : i = j

\* "The fold is deterministic" (specificity.rs): in the committed state, and inside
\* every open transaction, a key or a url has at most one answer on a website, and a
\* key has at most one generic row.
FoldDeterministic ==
    \A t \in {db} \cup {View(p) : p \in Procs} :
        /\ \A k \in Keys : AtMostOne(ResolveGeneric(t, k))
        /\ \A w \in Sites :
             /\ \A k \in Keys : AtMostOne(ResolveSpecific(t, k, w))
             /\ \A u \in Urls : AtMostOne(ResolvePageByUrl(t, u, w))

\* A page binding of a menu never crosses websites: the bound page is the menu's own
\* website's, or generic, whatever the interleaving of fork, fanout and delete.
MenusStayLocal == BoundLocally(db)

\* A soft-deleted page never comes back, although rename and both deletions write
\* the row with no liveness arm in the WHERE.
TombstonesStay ==
    [][\A i \in PageIds : (db[i] # NoRow /\ ~db[i].live) => ~db'[i].live]_vars

\* The publish fence: a page that was not published becomes so by the publish verb,
\* or is born as the copy of another page.
PublishFence ==
    [][\A i \in PageIds :
         (/\ db[i] = NoRow \/ ~db[i].published
          /\ db'[i] # NoRow /\ db'[i].published) =>
             \/ \E p \in Procs : Commits(p, "Published") /\ tx[p].page = i
             \/ db[i] = NoRow /\ db'[i].forkedFrom # None]_vars

\* A fork that raced another fork or a fanout finds its row: it never ends in the
\* internal errors of the re-select, unless the target website is dead.
ForkNeverInternal ==
    [][\A p \in Procs :
         (tx[p].pc # "idle" /\ tx'[p] = Idle("Internal")) => tx[p].scope \notin LiveSites(db)]_vars

\* Deleting a generic takes its key from no website: a live website that could
\* resolve a key still can after any step.
NoSiteLosesAPage ==
    [][\A w \in LiveSites(db), k \in Keys :
         ResolveSpecific(db, k, w) # {} => ResolveSpecific(db', k, w) # {}]_vars

\* A bound menu of a live website names a live page.
MenusBoundToLive ==
    \A m \in LiveMenus(db) :
        (db[m].site \in LiveSites(db) /\ db[m].page # None) => db[db[m].page].live

=============================================================================
