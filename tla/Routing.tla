------------------------------ MODULE Routing ------------------------------
(***************************************************************************)
(* The redirect service (redirect_service.rs), the nine-row matcher        *)
(* (lang_matcher.rs) and the routing answer that composes them with the    *)
(* page reads (public_routes.rs, public_resolve).                          *)
(*                                                                         *)
(* A path is what follows its first slash, split at slashes: "/" is <<"">>,*)
(* "/a/" is <<"a", "">>.  A url adds how often each query name occurs in   *)
(* it; `absolute` says that it starts with a slash.  `served` is where an  *)
(* anonymous reader finds a page: Pages models the verbs behind it, here a *)
(* rename moves one page and Toggle stands for the others.  An open        *)
(* transaction has written at most one redirect, held in the locals until  *)
(* it commits.                                                             *)
(***************************************************************************)
EXTENDS Naturals, Sequences, FiniteSets

CONSTANTS
    RedirectIds, Sites, Procs,
    Segments,        \* path segments, "" among them
    MaxSegments,
    Urls,            \* what officers and blog write into a row, see UrlType
    Asked,           \* paths that readers ask for
    Names,           \* query parameter names
    Lang,            \* websites.default_lang_code
    Starts,          \* <<redirects, served>> a run may start from
    Verbs, MaxCalls,
    NoRow, None

VARIABLES redirects, served, tx, calls

vars == <<redirects, served, tx, calls>>

Paths == UNION {[1..n -> Segments] : n \in 1..MaxSegments}
UrlType == [absolute : BOOLEAN, path : Paths, names : [Names -> Nat]]
Kinds == {"moved_301", "found_302", "alias_308", "gone_404"}
RedirectRow == [site : Sites, from : Urls, kind : Kinds, to : Urls \cup {None}, live : BOOLEAN]

ASSUME UrlsAssumption == Urls \subseteq UrlType /\ Asked \subseteq Paths
ASSUME VerbsAssumption == Verbs \subseteq {"create", "patch", "delete", "record", "rename", "resolve"}
ASSUME LangAssumption == Lang \in Segments \ {""}
ASSUME NoRowAssumption == NoRow \notin RedirectRow

Live(i) == redirects[i] # NoRow /\ redirects[i].live
At(p, label) == tx[p].pc = label /\ UNCHANGED calls

\* `id` and `row` are the redirect the call names and the version it wrote; `move` is the
\* rename's page; `read` is what a statement before this one returned.
Idle(a) == [pc |-> "idle", site |-> None, path |-> << >>, id |-> None, row |-> NoRow,
            read |-> NoRow, patch |-> << >>, officer |-> TRUE, move |-> << >>, get |-> TRUE,
            bot |-> FALSE, location |-> None, done |-> "none", answer |-> a]

Init ==
    /\ \E s \in Starts : redirects = s.redirects /\ served = s.served
    /\ tx = [p \in Procs |-> Idle("none")]
    /\ calls = MaxCalls

Goto(p, frame, label) == tx' = [tx EXCEPT ![p] = [frame EXCEPT !.pc = label]]
Return(p, a) == tx' = [tx EXCEPT ![p] = Idle(a)]
StoreKept == UNCHANGED <<redirects, served>>

-----------------------------------------------------------------------------
(* Validation (a 308 keeps the query names, each as often as it was), and  *)
(* the unique (url_from, website_id) over live rows.                       *)

Validate(kind, from, to) ==
    IF ~from.absolute THEN "InvalidInput"
    ELSE IF kind = "gone_404" THEN IF to = None THEN "Ok" ELSE "InvalidInput"
    ELSE IF to = None THEN "RedirectTargetRequired"
    ELSE IF kind = "alias_308" THEN IF from.names = to.names THEN "Ok" ELSE "RedirectParamParity"
    ELSE IF to.absolute THEN "Ok" ELSE "InvalidInput"

\* A wrong variant: no unique index.
NeverCollide(r, s) == FALSE

Collide(r, s) == r # NoRow /\ s # NoRow /\ r.live /\ s.live /\ r.site = s.site /\ r.from = s.from

\* The tables of a start: rows that validation admitted, one live row per path of a website,
\* and pages.
ASSUME StartsAssumption ==
    \A s \in Starts :
        /\ s.redirects \in [RedirectIds -> RedirectRow \cup {NoRow}]
        /\ \A i \in RedirectIds : s.redirects[i] # NoRow => s.redirects[i].from.absolute
        /\ \A i, j \in RedirectIds : i # j => ~Collide(s.redirects[i], s.redirects[j])
        /\ s.served \subseteq Sites \X Paths

Others(p) == {q \in Procs \ {p} : tx[q].row # NoRow}

Waits(p, i, r) ==
    \E q \in Others(p) : \/ tx[q].id = i
                         \/ Collide(r, tx[q].row)
                         \/ Collide(r, redirects[tx[q].id])

Conflicts(i, r) == \E j \in RedirectIds \ {i} : Collide(r, redirects[j])

Unused == {i \in RedirectIds : redirects[i] = NoRow /\ \A q \in Procs : tx[q].id # i}
NewId == CHOOSE i \in Unused : TRUE

-----------------------------------------------------------------------------
(* The matcher. *)

Last(path) == path[Len(path)]

TrailingSlash(path) == Len(path) > 1 /\ Last(path) = ""
DoubleSlash(path) == \E k \in 2..Len(path) - 1 : path[k] = ""
DefaultLangPrefixed(path) == path[1] = Lang

\* trim_end_matches('/')
TrimTrailing(path) ==
    LET filled == {k \in 1..Len(path) : path[k] # ""}
        last == CHOOSE k \in filled : \A j \in filled : j <= k
    IN  IF filled = {} THEN <<"">> ELSE SubSeq(path, 1, last)

Filled(s) == s # ""
Collapse(path) == SelectSeq(path, Filled) \o (IF Last(path) = "" THEN <<"">> ELSE << >>)
\* A wrong variant: the prefix stays.
KeepingUnprefix(path) == path

Unprefix(path) == IF Len(path) = 1 THEN <<"">> ELSE Tail(path)

\* A page serves when the resolver found one at exactly this url; the fold reads by url,
\* so the canonical row never finds another one.
ServeOr404(page) == IF page THEN [action |-> "serve", to |-> None]
                    ELSE [action |-> "not_found", to |-> None]
NoNames == [n \in Names |-> 0]
SitePath(path) == [absolute |-> TRUE, path |-> path, names |-> NoNames]
Moved(path) == [action |-> "moved_301", to |-> SitePath(path)]
Reroute(row) == IF row.kind = "gone_404" THEN [action |-> "not_found", to |-> None]
                ELSE [action |-> row.kind, to |-> row.to]

\* A wrong variant: a page before the redirect table.
PageFirst(path, get, bot, row, page) ==
    IF page \/ bot \/ ~get THEN ServeOr404(page)
    ELSE IF TrailingSlash(path) THEN Moved(TrimTrailing(path))
    ELSE IF DoubleSlash(path) THEN Moved(Collapse(path))
    ELSE IF DefaultLangPrefixed(path) THEN Moved(Unprefix(path))
    ELSE IF row # NoRow THEN Reroute(row)
    ELSE ServeOr404(page)

\* MATCHER_TABLE, first match wins; the row of the language aliases is dormant.
ApplyMatcher(path, get, bot, row, page) ==
    IF bot \/ ~get THEN ServeOr404(page)
    ELSE IF TrailingSlash(path) THEN Moved(TrimTrailing(path))
    ELSE IF DoubleSlash(path) THEN Moved(Collapse(path))
    ELSE IF DefaultLangPrefixed(path) THEN Moved(Unprefix(path))
    ELSE IF row # NoRow THEN Reroute(row)
    ELSE ServeOr404(page)

-----------------------------------------------------------------------------
(* The officer verbs. *)

Write(p, i, r, done) ==
    /\ ~Waits(p, i, r) /\ ~Conflicts(i, r)
    /\ Goto(p, [tx[p] EXCEPT !.id = i, !.row = r, !.done = done], "commit")

BeginCreate(p) ==
    \E site \in Sites, kind \in Kinds, from \in Urls, to \in Urls \cup {None} :
      LET verdict == Validate(kind, from, to)
          row == [site |-> site, from |-> from, kind |-> kind, to |-> to, live |-> TRUE]
      IN  IF verdict = "Ok" THEN Goto(p, [Idle("none") EXCEPT !.read = row], "create.insert")
          ELSE Return(p, verdict)

InsertCreated(p) ==
    /\ At(p, "create.insert") /\ Unused # {}
    /\ LET row == tx[p].read
       IN  \/ Write(p, NewId, row, "Created")
           \/ ~Waits(p, NewId, row) /\ Conflicts(NewId, row) /\ Return(p, "SpecificityConflict")
    /\ StoreKept

\* A patch names the columns it sets: a function from column names to values.
Patches == {[kind |-> "gone_404", to |-> None], [kind |-> "moved_301"]}
           \cup {[to |-> u] : u \in Urls} \cup {[from |-> u] : u \in Urls}
           \cup {[to |-> None]}
Patched(row, patch) == [c \in DOMAIN row |-> IF c \in DOMAIN patch THEN patch[c] ELSE row[c]]

BeginPatch(p) ==
    \E i \in RedirectIds, patch \in Patches, officer \in BOOLEAN :
      Goto(p, [Idle("none") EXCEPT !.id = i, !.patch = patch, !.officer = officer], "patch.load")

\* A wrong variant: only what the patch says of the kind is validated.
BlindPatchLoad(p) ==
    /\ At(p, "patch.load")
    /\ IF Live(tx[p].id) THEN Goto(p, [tx[p] EXCEPT !.read = redirects[tx[p].id]], "patch.update")
       ELSE Return(p, "NotFound")
    /\ StoreKept

\* The row is read and the result validated before the transaction begins.
PatchLoad(p) ==
    /\ At(p, "patch.load")
    /\ LET i == tx[p].id
           new == Patched(redirects[i], tx[p].patch)
           verdict == Validate(new.kind, new.from, new.to)
       IN  IF ~Live(i) THEN Return(p, "NotFound")
           ELSE IF verdict # "Ok" THEN Return(p, verdict)
           ELSE Goto(p, [tx[p] EXCEPT !.read = redirects[i]], "patch.update")
    /\ StoreKept

\* UPDATE of the named columns, where the row is live by now; else fetch_one fails.  Without
\* an officer the outer jsonb_set is left with one argument, and the statement fails.
PatchUpdate(p) ==
    /\ At(p, "patch.update")
    /\ LET i == tx[p].id
           new == Patched(redirects[i], tx[p].patch)
           lands == tx[p].officer /\ Live(i)
       IN  \/ lands /\ Write(p, i, new, "Patched")
           \/ lands /\ ~Waits(p, i, new) /\ Conflicts(i, new) /\ Return(p, "SpecificityConflict")
           \/ ~lands /\ Return(p, "Db")
    /\ StoreKept

BeginDelete(p) ==
    \E i \in RedirectIds, officer \in BOOLEAN :
      Goto(p, [Idle("none") EXCEPT !.id = i, !.officer = officer], "delete.load")

DeleteLoad(p) ==
    /\ At(p, "delete.load")
    /\ IF Live(tx[p].id) THEN Goto(p, tx[p], "delete.tombstone") ELSE Return(p, "NotFound")
    /\ StoreKept

\* Without an officer the stamp is NULL, and jsonb_set makes the whole metadata NULL.
DeleteTombstone(p) ==
    /\ At(p, "delete.tombstone")
    /\ IF tx[p].officer
       THEN Write(p, tx[p].id, [redirects[tx[p].id] EXCEPT !.live = FALSE], "Deleted")
       ELSE Return(p, "Db")
    /\ StoreKept

\* record_redirect, and the redirect row of a page rename: INSERT ON CONFLICT DO NOTHING.
BeginRecord(p) ==
    \E site \in Sites, kind \in Kinds, from, to \in Urls :
      LET target == IF kind = "gone_404" THEN None ELSE to
          row == [site |-> site, from |-> from, kind |-> kind, to |-> target, live |-> TRUE]
          verdict == Validate(kind, from, target)
      IN  IF verdict = "Ok" THEN Goto(p, [Idle("none") EXCEPT !.read = row], "record.insert")
          ELSE Return(p, verdict)

\* The page's url moves in the transaction that writes its redirect.
BeginRename(p) ==
    \E page \in served, new \in Paths :
      LET row == [site |-> page[1], from |-> SitePath(page[2]), kind |-> "moved_301",
                  to |-> SitePath(new), live |-> TRUE]
      IN  /\ SitePath(new) \in Urls /\ SitePath(page[2]) \in Urls
          /\ \/ new = page[2] \/ <<page[1], new>> \notin served
          /\ \A q \in Procs : tx[q].move = << >>
          /\ Goto(p, [Idle("none") EXCEPT !.read = row, !.move = <<page, <<page[1], new>>>>],
                  "record.insert")

InsertRecorded(p) ==
    /\ At(p, "record.insert") /\ Unused # {}
    /\ LET row == tx[p].read
           done == IF tx[p].move = << >> THEN "Recorded" ELSE "Renamed"
       IN  \/ Write(p, NewId, row, done)
           \/ /\ ~Waits(p, NewId, row) /\ Conflicts(NewId, row)
              /\ Goto(p, [tx[p] EXCEPT !.done = done], "commit")
    /\ StoreKept

\* COMMIT.  Created and Patched then write their audit row on the pool: when that fails
\* the caller gets its error for a redirect that is in force.
Commit(p) ==
    LET f == tx[p] IN
    /\ At(p, "commit")
    /\ redirects' = IF f.row = NoRow THEN redirects ELSE [redirects EXCEPT ![f.id] = f.row]
    /\ served' = IF f.move = << >> \/ f.move[1] \notin served THEN served
                 ELSE (served \ {f.move[1]}) \cup {f.move[2]}
    /\ \/ Return(p, f.done)
       \/ f.done \in {"Created", "Patched"} /\ Return(p, "Db")

\* A deletion audits in its transaction: when that fails, nothing is deleted.
AuditFails(p) ==
    /\ At(p, "commit") /\ tx[p].done = "Deleted"
    /\ Return(p, "Db") /\ StoreKept

\* A lost connection, at any statement.
Lost(p) == tx[p].pc # "idle" /\ UNCHANGED calls /\ Return(p, "aborted") /\ StoreKept

-----------------------------------------------------------------------------
(* public_resolve: three reads, each on its own. *)

RowFor(site, path) ==
    LET hits == {i \in RedirectIds : Live(i) /\ redirects[i].site = site
                                             /\ redirects[i].from = SitePath(path)}
    IN  IF hits = {} THEN NoRow ELSE redirects[CHOOSE i \in hits : TRUE]

BeginResolve(p) ==
    \E site \in Sites, path \in Asked, get, bot \in BOOLEAN :
      Goto(p, [Idle("none") EXCEPT !.site = site, !.path = path, !.get = get, !.bot = bot],
           "resolve.redirect")

ResolveRedirect(p) ==
    /\ At(p, "resolve.redirect")
    /\ Goto(p, [tx[p] EXCEPT !.read = RowFor(tx[p].site, tx[p].path)], "resolve.page")
    /\ StoreKept

\* The page read, the matcher, and for a serve the page read again.
ResolvePage(p) ==
    LET f == tx[p]
        a == ApplyMatcher(f.path, f.get, f.bot, f.read, <<f.site, f.path>> \in served)
    IN  /\ At(p, "resolve.page")
        /\ IF a.action = "serve" THEN Goto(p, [f EXCEPT !.done = "serve"], "resolve.again")
           ELSE tx' = [tx EXCEPT ![p] = [Idle(a.action) EXCEPT !.location = a.to]]
        /\ StoreKept

ResolveAgain(p) ==
    /\ At(p, "resolve.again")
    /\ Return(p, IF <<tx[p].site, tx[p].path>> \in served THEN "served" ELSE "served nothing")
    /\ StoreKept

Begin(p) ==
    /\ tx[p].pc = "idle" /\ calls > 0 /\ calls' = calls - 1
    /\ \/ "create" \in Verbs /\ BeginCreate(p)
       \/ "patch" \in Verbs /\ BeginPatch(p)
       \/ "delete" \in Verbs /\ BeginDelete(p)
       \/ "record" \in Verbs /\ BeginRecord(p)
       \/ "rename" \in Verbs /\ BeginRename(p)
       \/ "resolve" \in Verbs /\ BeginResolve(p)
    /\ StoreKept

\* Publication, deletion and the other page verbs, between the reads of a resolve.
Toggle ==
    /\ "resolve" \in Verbs
    /\ \E site \in Sites, u \in Urls :
         /\ SitePath(u.path) = u
         /\ \A q \in Procs : tx[q].move # << >> => <<site, u.path>> # tx[q].move[2]
         /\ served' = IF <<site, u.path>> \in served THEN served \ {<<site, u.path>>}
                      ELSE served \cup {<<site, u.path>>}
    /\ UNCHANGED <<redirects, tx, calls>>

Step(p) == \/ InsertCreated(p) \/ PatchLoad(p) \/ PatchUpdate(p) \/ DeleteLoad(p)
           \/ DeleteTombstone(p) \/ InsertRecorded(p) \/ Commit(p) \/ AuditFails(p) \/ Lost(p)
           \/ ResolveRedirect(p) \/ ResolvePage(p) \/ ResolveAgain(p)

Next == (\E p \in Procs : Begin(p) \/ Step(p)) \/ Toggle

Spec == Init /\ [][Next]_vars

-----------------------------------------------------------------------------
(* Properties. *)

Versions(i) == {redirects[i]} \cup {tx[q].row : q \in {x \in Procs : tx[x].id = i}}
Commits(p, a) == tx[p].pc = "commit" /\ tx[p].done = a /\ tx'[p].pc # "commit"

\* "One redirect answer per path per website", whichever open transactions commit.
RoutingInv ==
    /\ \A i \in RedirectIds : redirects[i] \in RedirectRow \cup {NoRow}
    /\ served \subseteq Sites \X Paths
    /\ \A i, j \in RedirectIds : i # j =>
         \A r \in Versions(i), s \in Versions(j) :
           r = NoRow \/ s = NoRow \/ ~(r.live /\ s.live /\ r.site = s.site /\ r.from = s.from)
    /\ \A p, q \in Procs : p # q /\ tx[p].row # NoRow /\ tx[q].row # NoRow => tx[p].id # tx[q].id

\* "Re-validated against the RESULTING row": a patch that lands on the row it read leaves
\* one that validation admits.  (On a row patched meanwhile it may not: it validated
\* outside its transaction.)
PatchValidatesResult ==
    [][\A p \in Procs :
         (/\ tx[p].pc = "patch.update" /\ tx'[p].pc = "commit"
          /\ redirects[tx[p].id] = tx[p].read) =>
            LET r == tx'[p].row IN Validate(r.kind, r.from, r.to) = "Ok"]_vars

Normal(path) == ~TrailingSlash(path) /\ ~DoubleSlash(path) /\ ~DefaultLangPrefixed(path)

\* Every live redirect from a normalised url is what a reader of that url is answered,
\* also when a page stands there.
LiveRowsAnswer ==
    \A i \in RedirectIds :
      LET r == redirects[i] IN
      (Live(i) /\ r.from.names = NoNames /\ Normal(r.from.path)) =>
         ApplyMatcher(r.from.path, TRUE, FALSE, RowFor(r.site, r.from.path),
                      <<r.site, r.from.path>> \in served) = Reroute(r)

\* Where a reader ends who follows the answers from `path`.
Followed(path) ==
    LET hop[n \in 0..MaxSegments + 1] ==
          IF n = 0 THEN path
          ELSE LET here == hop[n - 1]
                   a == ApplyMatcher(here, TRUE, FALSE, NoRow, FALSE)
               IN  IF a.to = None THEN here ELSE a.to.path
    IN  hop[MaxSegments + 1]

\* The nonempty segments behind any leading default language.
Canonical(path) ==
    LET names == SelectSeq(path, Filled)
        start == {k \in 1..Len(names) : names[k] # Lang /\ \A j \in 1..k - 1 : names[j] = Lang}
    IN  IF start = {} THEN <<"">> ELSE SubSeq(names, CHOOSE k \in start : TRUE, Len(names))

\* The normalising rows never send a reader round in a circle: from every path that does
\* not begin with two slashes they lead to the canonical one.  (`//a` is not collapsed:
\* the predicate drops the first slash before it looks.)
NormalisingEnds ==
    \A p \in Procs : tx[p].pc = "resolve.page" /\ (tx[p].path[1] # "" \/ Len(tx[p].path) = 1) =>
       Followed(tx[p].path) = Canonical(tx[p].path)

=============================================================================
