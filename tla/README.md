# Verification of backbone-website

TLA+ models of the website module's own logic, TLC configurations that check them on small
instances, and TLAPS proofs for every instance. Paths are relative to the repository; services
live in `src/application/service/`.

## 1. The system

`backbone-website` keeps several websites in one Postgres schema. A page is *generic*
(`website_id` NULL, served by every website) or *specific* to one website; a specific outranks
the generic of its key. Officers edit through `admin_routes.rs`, visitors read and post through
`public_routes.rs`. The only long-lived state outside the database is the intake's rate books.
Every verb is one transaction at READ COMMITTED (`pool.begin()` .. `tx.commit()`); two requests
interleave between its statements, and row locks and partial unique indexes are the only
synchronisation. Reads outside a transaction see a fresh state at every statement.

| component | state | operations | what is hard | correct when |
|---|---|---|---|---|
| versioning (`versioning_service.rs`) | pages, menu bindings | fork, fanout deletion of a generic | races of forks, fork against fanout, target list read once, `ON CONFLICT DO NOTHING` | verbs look atomic; one copy per website; no website loses a page |
| resolver (`specificity.rs`) | none | resolve by key, by url, effective list, sitemap | NULL in unique indexes, filter-then-fold against fold-then-filter | at most one answer; one notion of shadowing |
| pages (`page_service.rs`) | pages, menus, homepage url, redirects | create, patch, publish, unpublish, rename, delete; the visible page | unlocked read before the write, cascades over three tables | tombstones stay; cascades follow the page; publishing only by its verb |
| menus (`menu_service.rs`) | menu tree | create, patch, delete, fanout, visible tree | check-then-update on rows not locked | depth rule; nothing visible is lost; a fanout stays in its websites |
| redirects (`redirect_service.rs`), matcher (`lang_matcher.rs`) | redirects; none | create, patch, delete, record; first-match table | validation outside the transaction, chains of rules | one row per url, live rows answer, normalising ends |
| visitors (`visitor_service.rs`, `visitor_gc.rs`) | visitors, tracks | heartbeat, merge, sweep | `SKIP LOCKED`, rows that vanish under a waiting statement, deadlock | one row per browser, a visit counts once, the sweep takes only the stale |
| intake (`intake_engine.rs`, `captcha_*.rs`) | contact messages, rate books | captcha, rate, validate, persist, audit, notify, mark | a failure or restart between two stages, the hour's turn, forged headers | refused means nothing stored; limits hold; the audit tells the outcome |
| tours (`tour_service.rs`) | tours, consumptions | upsert, delete, consume, reset | reset or delete against consume | a fact is recorded once and stands |
| websites (`website_service.rs`) | websites, bootstrap homepage and menus | create, patch, delete, host lookup | guard outside the transaction, bootstrap race | a bootstrap is whole; a host finds its website; the primary is spared |
| public routes, member fence | memberships | page, sitemap, resolve, intake, heartbeat | several statements, several moments | no answer that was never true; the sitemap walk loses nothing |
| officer routes (`admin_routes.rs`) | audit log | every writing verb | loose JSON, audit after the commit, a stop in between | answer, store and trail agree |
| generated entities, DTOs, row rules | ten tables | create, update, patch, guard | rules apply to changed columns only | no refused value gets in |
| request pool, exports, events, repositories, seeders, module builder | - | - | none of their own | not modelled |

The components share tables and nothing else: fork, fanout, rename and delete write the menus
that the menu service owns; rename writes the website's homepage and a redirect; the creation of
a website forks the homepage; the fence of `heartbeat` shares the rate books with the intake.

## 2. Modules

| module | what it is |
|---|---|
| `Schema` | rows and partial unique indexes; `Collide` says which two row versions no index admits together. Primary keys carry their table, `deleted_at` is `live`, NULL `website_id` is `Generic` |
| `RowStore` | Postgres as the page and menu services use it (external): committed state `db`, one write set `ws[p]` per open transaction, a written row is locked, a statement sees `db` overlaid with its own writes, waits for locks and for undecided index conflicts, and then takes effect or meets a definite conflict |
| `Specificity` | the reads of `specificity.rs`, as the set of rows that the ordering may put first |
| `Pages` | the eight page verbs: one action per SQL statement with the control that follows it. `tx[p]` is the handler's locals, `pc` names the verb and the statement |
| `PageCatalog`, `PagesRefinement` | the promise of fork and fanout (docs/spec.md section 4) as two atomic steps over "which scopes hold a key" and "what is a menu bound to", and the mapping from `Pages` |
| `PagesLiveness` | fairness and the answer to every page call |
| `Menus` | the four menu verbs in the same style, the walk that measures depth, and the officer and public trees as operators over a table state |
| `Visitors` | heartbeat, merge and sweep over visitors and tracks, with row locks, the deadlock detector and a clock |
| `Intake` | one call per record, walking the executor's stages; the rate books, the hour, restarts |
| `Routing` | the redirect verbs, the matcher as an operator over split paths, and `public_resolve` that composes it with the page reads |
| `Sites` | websites with their bootstrap, host normalisation and the two reads of a host |
| `Tours` | the tour verbs over definitions and facts |
| `Public` | a page request and a sitemap walk, statement by statement, against officers' commits |
| `Entities` | columns, builders, create, update and patch shapes and row rules of the ten tables |
| `Officer` | every writing verb of `admin_routes.rs` as body, patch, commit, audit and answer, beside the generated write path on the same row |
| `MC*` | catalogs, inputs and starting tables for TLC (`Tours` needs none) |
| `PagesProofs`, `MenusProofs`, `VisitorsProofs`, `IntakeProofs`, `RoutingProofs`, `SitesProofs`, `ToursProofs` | theorems about the module each is named for; `PagesProofs` begins with those about `RowStore` and ends with those of `PagesRefinement` and `PageCatalog` |
| `SurfaceProofs` | theorems about `Officer` and `Public` |

From code to actions. `fork_to_website` is `ForkResolve`, then `ForkConfirm` or
`ForkLoadGeneric`, `ForkSelect`, `ForkInsert`, `ForkReselect`, `ForkRepointMenus`, `Commit`. The
INSERT .. SELECT is two actions: it reads its source when it starts and may wait for another
transaction before it lands. `delete_generic_with_fanout` is `FanoutLoadGeneric`,
`FanoutTargets`, a loop of `FanoutSelect` and `FanoutInsert` in the order of website ids,
`FanoutRepointMenus`, `FanoutDelete`, `Commit`. `rename_page` and `delete_specific` are the
`Rename..` and `Delete..` actions; create, patch, publish and unpublish are one statement each. A
returned error is `Fail`, which rolls back. `Abort` (`Lost` in `Sites` and `Tours`) stands for a
lost connection or a process that stops; it may strike a handler anywhere.

In `Menus`, `patch_menu` is `PatchLoad`, then `PatchDepth` when the row will have a parent or
`PatchMega` when it will be a mega-menu at the top, then `PatchUpdate`; `create_menu` is
`CreateDepth` and `CreateInsert`; `fanout_menu` runs `FanoutRoot`, `FanoutPage` and
`FanoutInsert` per website. `Climb` is the recursive query of `depth_of` with its stop at 16
hops. `BuildTree` gives the nodes `build_tree` hands out: a node whose parent is not among the
rows is a root, and a node on a cycle is nowhere.

`Visitors`: `heartbeat` is one SQL statement, in two actions because its upsert may wait for
the row: `HeartbeatStatement` fixes what its sub-selects see, `HeartbeatUpsert` acts on the row
as it is when the lock is free. `MergeFind` may skip a locked row (`SKIP LOCKED`); then
`MergeReparent` and `MergeDelete`, or `MergeClaim`; `MergeView` reads the answer, and finds none when the
identified row was the visitor itself. The sweep
commits every batch by itself, so `SweepBatch` loops over transactions and `SweepAudit` ends it.
`DeadlockVictim` is enabled only for a handler on a cycle of waits.

`Intake`: `BeginIntake`, `Verify` (the captcha's answer is any of `Replies`), `Admit` (body,
rate books, arms), `ArmRateBuckets`, `AuditRefusal`, `Persist`, `Commit`, `AuditReceived`,
`Notify`, `Mark`. The books are a set of windows; `Tick` turns the hour, `Restart` empties the
books and drops the calls in flight. `FirstHopVisitorIp`, `Bump` and `Verdict` are the fence's
arithmetic. A payload is a kind (what is wrong with the form), not a string.

`Routing`: a path is its list of segments, so that trailing and double slashes and the language
prefix stay visible and no text is put together; `ApplyMatcher` is the nine-row table in its
order. `BeginPatch`/`PatchLoad` read on the pool, `PatchUpdate` writes in a transaction of its
own, which fails without an officer. A url has a path and how often it names each query parameter, for
the 308 rule compares sorted lists of names. `AuditFails` is the deletion's audit row, written in its
transaction; `Lost` a lost connection. `InsertRecorded` is `record_redirect`'s `DO NOTHING`. A rename moves `served` when it
commits; `Toggle` stands for the page verbs that `Pages` models.

`Sites`: creation is `CreateSite`, `CreateResolve`, `CreateSeed`, `CreateFork`, `Commit`;
deletion reads its guard in `DeleteSite`/`DeletePrimary` and writes in `DeleteUpdate`. A host is
a name behind the things normalisation takes away, so that `NormalizeHost` is modelled by what it
strips and in which order; `Slot` is the domain as the unique index sees it, where one live website may
have none. A patch names domain, homepage_url or sequence, or several; `homepage` is the website's
column, `opened` the homepage_url its bootstrap used. Renaming the homepage (which moves both the fork
and the column) is in `Pages`. `FanoutHomepage` is the page verb that may take the generic away.

`Public`: `ReadPage`, `ReadMembers`, `ReadBlocks` are the statements of `visible_page`; `BindWalk`
and `ListUrls` those of one sitemap request, and a walk follows `next_cursor`.

`Officer`: `Decode` is what `as_str`, `as_i64 .. as i32`, `as_array` and the clearing columns make
of a JSON value; `Position` says where a verb writes its audit entry: in its transaction, on the
pool after the commit, or nowhere. A column holds a *kind* of value (good, blank, too long, NULL,
unreadable). What a verb does to other rows is in the module of its component; here a service may
refuse (`Refuse`).

What the models abstract from: titles and blocks, which no modelled statement branches on; the
order of siblings (`fanout_menu` may take any root of a website for its first); in `Menus` the
member roles of a restricted entry (a viewer passes a tier or does not; `Public` has the roles);
the tenant scope that each transaction relays. A statement of `Pages` and `Menus` is atomic once
it no longer waits: the order in which one multi-row UPDATE takes its locks is left out, and so is
a deadlock inside two such statements.

## 3. Runs

Twelve runs; two of them are meant to find a violation. No run checks deadlock: each stops when its
calls are used up.
Typing is a conjunct of each component's `..Inv`.

| run | question | checks |
|---|---|---|
| `pages_versioning` | Do fork and fanout behave as atomic verbs? Two live and one dead website, three menus, three calls | `ImplementsCatalog` (refinement), `NoSiteLosesAPage`, `MenusBoundToLive`, `ForkNeverInternal` |
| `pages_editing` | What do all eight verbs preserve, with and without an officer and with a url collision, and is every call answered? | `PagesInv` (the inductive invariant of the proofs), `FoldDeterministic`, `MenusStayLocal`, `TombstonesStay`, `PublishFence`, `EveryCallEnds` |
| `pages_fanout_gap` | Does a fanout leave every website its page? (violated) | `NoSiteLosesAPage` |
| `menus_racing` | What do the menu verbs in pairs preserve? | `MenusInv`, `PublicTreeComplete`, `PatchTouchesOnlyItsFields`, `FanoutStaysLocal` |
| `menus_moves` | Do moves keep to the depth ceiling? (violated) | `DepthBounded` |
| `visitors_racing` | Do heartbeats, merges and sweeps keep count of browsers and visits, lose nobody, and end? | `VisitorsInv`, `VisitsCountOnce`, `SweepTakesOnlyStale`, `AbsorbedNotLost`, `EveryCallEnds` |
| `intake_calls` | Is what is stored verified, within the limits and truthfully on record, whatever fails? | `IntakeInv`, `ClientWithinLimit`, `AuditTellsOutcome`, `RefusedOnlyWhenFull`, `VerifiedCallEnds` |
| `routing_racing` | Is there one answer per path, is it the row's, and does following it end? | `RoutingInv`, `LiveRowsAnswer`, `NormalisingEnds`, `PatchValidatesResult` |
| `sites_racing` | Is a bootstrap whole, is a website found by its host, is the primary spared? | `SitesInv`, `HostFindsItsWebsite`, `DeletionSparesPrimary` |
| `tours_racing` | Are facts recorded once, and do only resets take them away? | `ToursInv`, `FactsStand`, `ToursAnswered` |
| `public_reads` | Is every answer true of some moment of its request, and does a sitemap walk lose nothing? | `AnswersAreTrue`, `SitemapComplete`, `WalksEnd` |
| `officer_calls` | Do answer, store and audit trail agree, and does a patch stay in its columns? | `AnswersTellTheStore`, `RuledColumns`, `PatchStaysInItsColumns` |

Bounds, and why they are enough.

- The `pages_` runs have two requests in flight, six page ids and two or three calls. A violation
  needs at most two interleaved verbs and one before them to build the state; the catalogs give
  the state, so two calls give every pair of verbs in every interleaving and three give a third
  verb after a race. `pages_versioning` leaves out the situation in which the code does not keep its
  word, a specific page at a generic's url (`pages_fanout_gap`).
- `menus_racing`: two requests, two calls, six menu ids. Its patches hide a menu, make it a
  mega-menu, or move it below `m1` or `m3`. Moves succeed: of a leaf, of a node with children, to a menu
  of another website, and below the node's own child, so that `PublicTreeComplete` is checked over
  subtrees that are too deep and over cycles as well. It is one half of what the public tree promises:
  nothing is lost that is visible with all its ancestors up to a root.
- `menus_moves`: one request, a chain of three and a second root; one move breaks the ceiling.
- `visitors_racing`: two requests, two calls, two browsers and two principals, four rows of each table,
  a clock of three readings with windows of one tick, batches of one row: a row at, below and above each
  threshold, a sweep that loops, and a merge that is repeated.
- `intake_calls`: two calls and limits of one, so that the second call meets a full window, an hour that
  turns once and one restart; four host compositions (selector, secrets, proxy, wired or not) and
  three kinds of calls (contact, heartbeat, unknown verb). Every host is
  behind a proxy that appends the peer's address: without one `ClientWithinLimit` does not hold (section 5).
- `routing_racing`: paths of up to three segments over the empty one, two names and the default
  language: every shape the nine rows tell apart, and every chain of two of them.
- `sites_racing`: two requests, three calls, five websites of two companies, starting empty or with
  three websites, one of them without a domain: every pair of verbs and a creation before it. Inputs and
  patches contend for a domain, for the one domainless slot, for a public user, and for the homepage's url.
- `tours_racing`: three calls over two names and two users: every pair of verbs after a third.
- `public_reads`: one reader at a time, a page size of one so that three pages need several
  requests, and two edits, which may fall between any two of its statements.
- `officer_calls`: one row of each of the ten tables, one odd column at a time (the columns do not
  interact), two calls so that a row a verb has just written meets another write.

Fairness. Every liveness property assumes weak fairness of a handler's own statements and nothing
else: a handler never sleeps, and a statement runs once no lock is in its way. Nothing is assumed
of callers, lost connections, the clock or restarts. In `Visitors` the deadlock detector is among
the fair steps, since two handlers can wait for each other and Postgres breaks the cycle; in `Pages` it is not, so a cycle of waits would be a counterexample of `EveryCallEnds`. In
`Public` a client that has a cursor asks again. In `Intake` the captcha endpoint is not fair: the
HTTP client has no timeout of its own, so `VerifiedCallEnds` begins once it has answered.

Two runs show where code and documentation disagree.

- `pages_fanout_gap`: a website that has a specific page of another key at the generic's url is passed
  over by the fanout (`ON CONFLICT DO NOTHING` swallows the url index too), and the generic is deleted.
  docs/spec.md:523-526 says every website has a copy, or all rolls back.
- `menus_moves`: `patch_menu` measures the new place of the node it moves, not of what hangs below it
  (`menu_service.rs` 278), so a move leaves a grandchild at depth 3. docs/spec.md:145 and
  tests/probes/menus_redirects.rs:58-60 say that such a patch is refused. Two racing moves may do the same
  on rows nothing locks; one is enough.

## 4. Proofs

Every theorem holds for all values of the constants that the named assumptions of its module
allow: disjoint identifier sets, positive website ids, `None` and `NoRow` outside the data, typed
starting tables in which the unique indexes hold. Further hypotheses are named below. The theorems
state 33 of the 40 properties of the passing runs; the last paragraph lists the other seven.

Storage. `PagesProofs!StoreStepSafe`: a write that obeys the waiting rule, a commit or a
rollback keeps typing, exclusive row locks and the indexes. `FoldDeterministic` alone is not
inductive, since whether a second row of a key can appear depends on what open transactions hold;
so `IndexesSafe` asks that the indexes have no duplicate in the committed state, in any
transaction's view, or between the write sets of two transactions. Then commits in any order are
safe. Lemmas beside it say which rows each kind of step changes, as seen by each request. Menus have no
unique index, so `MenusProofs` begins with the part of it that is about typing and locks.

Pages, by one lemma per action over these.

- `Invariance`, `TypeCorrect`, `DeterministicFold`: `PagesInv`, which adds to the storage part what
  each statement relies on (`Locals`), and from it that the fold has at most one answer.
- `BindingsStayLocal`, `DeadStayDead`, `PublishFenced`: from `LineageInv`. A row seen by an open
  transaction descends from the committed one: same key and scope, never revived, published only by
  the publish verb or by birth as a copy. Menus are bound locally in every view as well as in the
  committed state, and what a handler is about to bind them to is a page of their website or a
  generic. Starting catalogs are assumed `BoundLocally`: a foreign key, and what the verbs leave.

Fork and fanout implement `PageCatalog`. The invariant `Safe` adds to `LineageInv` what the
committed table promises (menus bound to live pages, one key per url, one generic per key that
anything still names) and, for each handler, `Fits`: what its commit would make of the committed
table if it came now. A fork's write set is one copy and in the end its website's menus; a fanout's
is copies on live websites, and every live website that it has passed holds the key, by its own
copy or by a committed one. A commit of any handler only `Grows` the table (pages keep their place,
new ones are specifics, menus move to pages of their own website) and a generic that dies `Hands` its
menus over, so it lets `Fits` stand for every other handler. Then a commit that ends `Created` is
`Atomic!Fork`, one that ends `FannedOut` is `Atomic!Fanout` or, where a racing fanout of the same
generic came first, a stutter, and every other step is a stutter.

- `Refines`: `ImplementsCatalog`. `NoPageLost`: `NoSiteLosesAPage`. `BoundMenusLive`:
  `MenusBoundToLive`. `RacedForkAnswers`: `ForkNeverInternal`.
- Hypotheses. `TidyCatalogs`: in a starting table a url is one key's, a key has one generic that is
  live or named by a live menu, and menus of live websites name live pages. Without the first the url index
  can refuse a copy for another key's page, and `pages_fanout_gap` is the counterexample; the
  indexes allow such tables, so this is the scope of the promise and not a fact about the code.
  `VersioningOnly`: the verbs are fork, fanout, publish and unpublish, since `PageCatalog` has no
  step for creating, patching, renaming or deleting a page. `PairsAreNotNone` keeps `None` apart
  from bindings. `MCPages` has TLC evaluate these of the catalogs of `pages_versioning`, whose verbs are fork and fanout.

Menus. `Safe` is the storage part with `Fits`: what a handler read is a version of the row it is
going to write, and a fan-out's write set holds exactly the copies of the websites it has passed.

- `HandlersHoldRows`: `MenusInv`. `PatchKeepsTheRest`: a patch leaves the columns it was not given,
  though other verbs commit to the row between its read and its write.
- `CopiesLandTogether`: every other live website gets its one copy, bound to its own page of that
  key or to the generic. `CopiesHangBelowRoots` adds that the copy's parent is a root of the copy's
  website, under `NoMoves`: no patch gives a menu a new parent. A move may
  fall between the read of the root and the commit (section 5).

Visitors. `Safe` relates the locals of each statement to rows that may be merged or swept between two
of them, and keeps pending inserts of two requests apart. `OneVisitorPerBrowser`, `OneVisitPerWindow`,
`OnlyStaleSwept` and `IdentifiedNotLost` follow, the last since a merge holds the row it found until it commits; row ids are a finite set.

Intake. `Safe` has the life of a call (what its answer, its message and its audit rows say at each
stage) and the books: a window counts exactly the calls let through in its hour, no key has two
windows, and no count is above its limit.

- `BooksCountCalls`: `IntakeInv`. `AuditIsTheOutcome`: an audit entry tells what happened.
- `ClientsHeldToLimit` and `RefusedForItsOwn`: no client gets more than the limit by forging hops,
  and none is refused for another's traffic. Both assume that every host is behind a proxy
  (`\A g \in Configs : g.proxied`); without one they are false (section 5).

Routing. `Safe`: row locks exclusive, the index safe for any order of commits, failures and
rollbacks. `OneAnswerPerPath`;
`RedirectsAnswer`: a live redirect in normal form is what the matcher finds at its path;
`PatchesValidated`.

Tours. `OneTourPerName` and `FactsOnlyReset`, by an invariant of the same shape.

Sites. `Safe` says of each open transaction that its website row collides with no committed one
(`RowFits`) and its seeded homepage is the only live generic (`SeedFits`), that the rows of two
transactions do not collide either (`Parted`), and what each statement relies on (`LabelFits`): the
page to be forked is there, an update keeps the company and the url the website was opened with (its
`homepage_url` may move), a deletion read a table in which
another website of the company comes first. Uniqueness of the committed rows alone is not inductive,
for the same reason as in the storage part.

- `SitesHold`: `SitesInv`, with the domainless slot of the index. A fork's generic cannot vanish under it, since the fanout that deletes
  it leaves the row in the table as a tombstone.
- `HostsFound`: `HostFindsItsWebsite`, for hosts in a form a Host header has. It rests on the
  lemma that normalising such a host twice gives what normalising it once gives; hosts for which
  this is false are in section 5.
- `PrimarySpared`: `DeletionSparesPrimary`.

Officer. `Books` relates each call to the log, to the changes that committed and to the audit trail: an
open call holds its number alone and has left in the three exactly what its statement says, and an
ended call was told what they say. `AnswersTold`, `PatchStays` follow from it.
`RuledColumns` is inductive beside it (`ColumnsRuled`), once lemmas about each of the ten
tables say that what builders, creates, updates and patches can make of a column is neither NULL
where none may stand nor, if the row rules pass it, a refused value.

Public. `PublicSafe` says that the history of a request always contains what the tables show now
(`Seen`), so what a statement reads is part of it, and that every url a walk still owes is listed now and
lies beyond its cursor unless it was given already (`Owed`). Of an edit the proof uses
only that it keeps the types and the url index (`CollisionFree`), which makes the resolver's answer unique.
`AnswersTrue`: `AnswersAreTrue`; `SitemapWhole`: `SitemapComplete`, for any page size; the pages are
a finite set, for a page of results is the least so many of those listed.

Catalog. `PagesProofs!CatalogBindings`: whatever implements the atomic catalog never leaves a menu of
a live website bound to a missing page or another website's. With `Refines` this holds of fork and fanout.

Checked by TLC only:

- `PublicTreeComplete` and `NormalisingEnds`, which are about recursive functions
  (`BuildTree`, the walks of the matcher) and need induction over data;
- every liveness property: fairness and ENABLED are beyond the proof system.

## 5. Disagreements without a run of their own

Met while modelling; the models keep what the code does, and the properties are stated so that they
hold beside these. Services by file: P page, S specificity, MN menu, RS redirect.

- Pages. Two renames of a homepage leave the website behind (P 402-416 against the comment at 455).
  Without an officer a soft delete stamps SQL NULL into a strict `jsonb_set` (P 549; also menu,
  redirect, website), though admin_routes.rs:15-18 says the verbs run as the system actor. Unpublishing
  a fork lists the generic it shadows in the sitemap again (S 183, docs/spec.md:473-475).
  `delete_specific` racing a fanout binds menus to a dead generic. A fork that meets a specific page
  at the generic's url ends internal, where the hardening migration promises a typed refusal. Renaming
  a generic with `create_redirect` inserts NULL `website_id` and fails.
- Menus. A move below the node's own child makes a cycle, whose nodes are in no tree (MN 278). `create_menu` accepts
  a child below a mega-menu (MN 195, docs/spec.md:153). `fanout_menu` reads
  the first root of each website without a lock, so a move that commits before it does leaves its copy
  below a menu that is no root any more. `tree_visible` asks only for a visible direct
  parent, so a grandchild of a hidden root is served as a root (MN 572-576).
- Visitors. A repeated merge finds the row it claimed as the identified one, re-parents it onto itself,
  deletes it, and fails at its closing read (`visitor_service.rs` 343-352): everything rolls back, so
  nothing is lost (`AbsorbedNotLost`), but the retry ends as a database error where docs/spec.md:653 and
  the comment at 255 say idempotent. `SKIP LOCKED` can leave two identified rows of a principal. A track written while its row is
  merged away goes with the cascade. The track dedup reads a snapshot older than its lock.
- Intake. Without a proxy the rate key is the socket with its port, so a client that opens a new
  connection gets a new window. A retry after a lost answer
  stores the message twice.
- Routing. A rename away and back leaves a redirect from the url that serves the page.
  The matcher does not collapse a leading `//`. `url_from` is not normalised
  (docs/spec.md:172). `record_redirect` and the rename's redirect do nothing on a conflict, so the
  older target stays. Two patches together may leave a pair that neither validated.
  The 308 rule is documented over the set of parameter names (RS 48-50) and compares sorted lists, so a
  name that is repeated on one side only is refused. A patch without an officer ends as a database error.
- Websites. The host is normalised twice, and once is not enough for "a./" or "a:80.". The deletion
  guard is read before the transaction: two deletions may remove the primary.
  A second concurrent bootstrap gets 409 where the doc says it rides the existing page.
  `patch_config` updates dead websites, fails without an officer, and moves `homepage_url`
  without its page: the homepage fork stays at the url it had. Deletion cascades nothing.
- Tours. A consume that meets a reset between its insert and its select ends as a database error.
- Officers. `patch_config`, `delete_website` and `delete_specific` leave no audit row. A JSON value
  of the wrong type clears `parent_id`, `page_id`, `url` and `description`; `sequence` wraps at 32 bits.
  A generated PUT may change `company_id` and `public_user_id`. The router that the docs call full mounts
  only the read routes. Seeders store past the row rules.

## 6. Not modelled, and why

- Request pool scoping (`request_pool.rs`): a task-local that picks a connection pool.
- Repositories, exports, events, seeders, the module builder: wiring and type declarations
  without behaviour of their own (a seeded row appears in `Officer` as `StoreBuilt`).
- The generic CRUD service: it is in `backbone_core`, and is modelled only as far as this code
  parameterises it; its handlers under `src/presentation/http/*_handler.rs` are one call each.
- Plain reads: lists, counts, `company_allowlist`, the mega-menu's blocks and the hierarchy slice,
  `robots.txt`; the ghost user that a website's creation mints in the portal's schema.
- Text: slugs, escaping, the spelling of urls and emails beyond what a rule tells apart.
- The website surface: a facade that forwards every call to a verb modelled with its component.

## 7. Plan

1. `Pages` and `Menus` over one store: `fanout_menu` binding to a generic that a fanout deletes,
   and the menu that `delete_specific` racing a fanout leaves.
2. The hierarchy slice and the order of siblings in `Menus`.
