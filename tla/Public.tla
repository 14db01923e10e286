------------------------------- MODULE Public -------------------------------
(***************************************************************************)
(* The anonymous reads of a page and of the sitemap (public_routes.rs,     *)
(* PageAdminService::visible_page, tier_passes), one statement at a time,  *)
(* while officers edit the rows.                                           *)
(*                                                                         *)
(* A page row is Schema's, with `due` (date_publish is NULL or past) and   *)
(* `roles` (required_member_roles).  `members` holds the live rows of      *)
(* website_members.  Host binding is by site: Sites models the Host        *)
(* header.  Urls are numbers, in the order of the text column.             *)
(***************************************************************************)
EXTENDS Specificity, FiniteSets

CONSTANTS
    Readers,         \* requests, or clients that follow the sitemap's cursor
    Users, Roles,    \* portal users, website_members.role
    Cap,             \* SITEMAP_PAGE_CAP
    Starts,          \* <<rows, members>> a run may start from
    MaxEdits,
    MaxReads

VARIABLES rows, members, reading, edits, reads

publicVars == <<rows, members, reading, edits, reads>>

ASSUME CapAssumption == Cap \in Nat \ {0}
ASSUME UrlsAssumption == Urls \subseteq Nat \ {0}

PublicPageRow == [key : Keys, scope : Scopes, url : Urls, published : BOOLEAN, due : BOOLEAN,
                  tier : Tiers, roles : SUBSET Roles, indexed : BOOLEAN, live : BOOLEAN]

\* The tables of pages and websites, and the live rows of website_members.
PublicTables(t, M) ==
    /\ t \in [Id -> PublicPageRow \cup Row \cup {NoRow}]
    /\ \A i \in PageIds : t[i] \in PublicPageRow \cup {NoRow}
    /\ \A w \in Sites : t[w] \in SiteRow \cup {NoRow}
    /\ M \subseteq Sites \X Users \X Roles

ASSUME StartsAssumption ==
    \A s \in Starts : PublicTables(s.rows, s.members) /\ CollisionFree(s.rows)
ASSUME PagesAssumption == IsFiniteSet(PageIds)

\* What a request holds between its statements.  `shown`, `hidden`, `held` and `always` are
\* history: the tiers and roles with which the url answered, whether it was ever without an
\* answer, the roles the reader ever held, and the urls that were listed at every moment.
Rest(a) == [pc |-> "idle", site |-> None, url |-> 0, who |-> None, required |-> {},
            cursor |-> 0, listed |-> {}, shown |-> {}, hidden |-> FALSE, held |-> {},
            always |-> {}, answer |-> a]

PublicInit ==
    /\ \E s \in Starts : rows = s.rows /\ members = s.members
    /\ reading = [p \in Readers |-> Rest("none")]
    /\ edits = MaxEdits
    /\ reads = MaxReads

-----------------------------------------------------------------------------
(* The reads. *)

\* Published, and not in the future.
Out(r) == r.published /\ r.due

\* A wrong variant, for the checks: a membership of any website counts.
RolesAnywhere(w, u) == {m[3] : m \in {m \in members : m[2] = u}}

\* SELECT array_agg(role) of the live memberships of (website, user).
RolesHeld(w, u) == {m[3] : m \in {m \in members : m[1] = w /\ m[2] = u}}

\* The rows the sitemap's statement lists: it filters on the date as well.
Picked(t, w) ==
    ResolveSitemapPage([i \in Id |-> IF i \in PageIds /\ t[i] # NoRow
                                     THEN [t[i] EXCEPT !.published = Out(t[i])]
                                     ELSE t[i]], w)

\* A wrong variant, for the checks: the cursor is inclusive.
FromCursor(w, c) == {i \in Picked(rows, w) : rows[i].url >= c}

\* $2 IS NULL OR url > $2.
AfterCursor(w, c) == {i \in Picked(rows, w) : rows[i].url > c}

\* ORDER BY url LIMIT: any set of n rows with the smallest urls.
Leading(S, n) ==
    {P \in SUBSET S : /\ Cardinality(P) = IF Cardinality(S) < n THEN Cardinality(S) ELSE n
                      /\ \A i \in P, j \in S \ P : rows[i].url <= rows[j].url}

\* The last url of a page.
LastOf(Found) == CHOOSE u \in Found : \A v \in Found : v <= u

\* A wrong variant, for the checks: a full page is taken for the last.
MoreThanFull(n) == n > Cap

\* next_cursor is given when the page is full.
HasNext(n) == n >= Cap

-----------------------------------------------------------------------------
(* History: what the url, the reader and the sitemap showed at each moment of a call. *)

Watch(f, t, M) ==
    IF f.pc = "idle" THEN f
    ELSE LET R == {t[i] : i \in ResolvePageByUrl(t, f.url, f.site)}
             Shown == {r \in R : Out(r)}
         IN  [f EXCEPT !.shown = @ \cup {[tier |-> r.tier, roles |-> r.roles] : r \in Shown},
                       !.hidden = @ \/ Shown = {},
                       !.held = @ \cup {r \in Roles : <<f.site, f.who, r>> \in M},
                       !.always = @ \cap {t[i].url : i \in Picked(t, f.site)}]

Watched(t, M) == reading' = [p \in Readers |-> Watch(reading[p], t, M)]
ReadsOnly == UNCHANGED <<rows, members, edits>>
Stands(p, label) == reading[p].pc = label /\ UNCHANGED reads
Moves(p, label) == reading' = [reading EXCEPT ![p].pc = label]
Return(p, a) == reading' = [reading EXCEPT ![p].pc = "idle", ![p].answer = a]

-----------------------------------------------------------------------------
(* GET /public/pages/{url} *)

\* Miss -> the typed 404; else the bearer is verified by the port, which answers a user or None.
BeginRead(p, w, u, who) ==
    /\ reading[p].pc = "idle" /\ reads > 0 /\ reads' = reads - 1
    /\ ReadsOnly
    /\ IF w \in LiveSites(rows)
       THEN reading' = [reading EXCEPT ![p] = Watch([Rest("none") EXCEPT !.pc = "resolve", !.site = w,
                                                              !.url = u, !.who = who], rows, members)]
       ELSE Return(p, "unbound")

\* tier_passes, but for the membership rows of its restricted arm.
ReadPage(p) ==
    LET f == reading[p]
        Answers == ResolvePageByUrl(rows, f.url, f.site)
    IN  /\ Stands(p, "resolve")
        /\ ReadsOnly
        /\ \/ Answers = {} /\ Return(p, "missing")
           \/ \E i \in Answers :
                LET r == rows[i] IN
                \/ ~Out(r) /\ Return(p, "missing")
                \/ Out(r) /\ (r.tier = "public" \/ (r.tier = "connected" /\ f.who # None))
                   /\ Moves(p, "blocks")
                \/ Out(r) /\ r.tier # "public" /\ f.who = None /\ Return(p, "refused")
                \/ Out(r) /\ r.tier = "restricted" /\ f.who # None
                   /\ reading' = [reading EXCEPT ![p].pc = "members", ![p].required = r.roles]

ReadMembers(p) ==
    /\ Stands(p, "members")
    /\ ReadsOnly
    /\ IF RolesHeld(reading[p].site, reading[p].who) \cap reading[p].required # {}
       THEN Moves(p, "blocks")
       ELSE Return(p, "refused")

\* The blocks of the row that was read; no verb changes the blocks of a row it did not insert.
ReadBlocks(p) == Stands(p, "blocks") /\ ReadsOnly /\ Return(p, "served")

(* GET /public/sitemap, and the client that follows next_cursor: each page is a request. *)

BeginWalk(p, w) ==
    /\ reading[p].pc = "idle" /\ reads > 0 /\ reads' = reads - 1
    /\ ReadsOnly
    /\ reading' = [reading EXCEPT ![p] = [Rest("none") EXCEPT !.pc = "page", !.site = w,
                                                   !.always = {rows[i].url : i \in Picked(rows, w)}]]

BindWalk(p) ==
    /\ Stands(p, "page")
    /\ ReadsOnly
    /\ IF reading[p].site \in LiveSites(rows) THEN Moves(p, "list") ELSE Return(p, "unbound")

ListUrls(p) ==
    LET f == reading[p] IN
    /\ Stands(p, "list")
    /\ ReadsOnly
    /\ \E P \in Leading(AfterCursor(f.site, f.cursor), Cap) :
         LET Found == {rows[i].url : i \in P}
         IN  reading' = [reading EXCEPT ![p].listed = @ \cup Found,
                              ![p].cursor = IF HasNext(Cardinality(P)) THEN LastOf(Found) ELSE @,
                              ![p].pc = IF HasNext(Cardinality(P)) THEN "page" ELSE "idle",
                              ![p].answer = IF HasNext(Cardinality(P)) THEN @ ELSE "listed"]

-----------------------------------------------------------------------------
(* What officers commit meanwhile, and the clock.  Pages models these verbs. *)

EditRows(t) ==
    /\ edits > 0 /\ edits' = edits - 1
    /\ CollisionFree(t)
    /\ rows' = t
    /\ UNCHANGED <<members, reads>>
    /\ Watched(t, members)

Publish(i) == i \in LivePages(rows) /\ EditRows([rows EXCEPT ![i].published = TRUE])
Unpublish(i) == i \in LivePages(rows) /\ EditRows([rows EXCEPT ![i].published = FALSE])

\* patch_page: the url, or the tier with its roles, or the sitemap flag.
PatchPage(i) ==
    /\ i \in LivePages(rows)
    /\ \/ \E u \in Urls : EditRows([rows EXCEPT ![i].url = u])
       \/ \E t \in Tiers, R \in SUBSET Roles :
            EditRows([rows EXCEPT ![i].tier = t, ![i].roles = R])
       \/ \E b \in BOOLEAN : EditRows([rows EXCEPT ![i].indexed = b])

\* delete_specific: the row stays, dead.
DeletePage(i) == i \in LivePages(rows) /\ rows[i].scope # Generic
                 /\ EditRows([rows EXCEPT ![i].live = FALSE])

\* fork_to_website: the copy keeps what the generic shows.
ForkPage(i, j, w) ==
    /\ i \in LivePages(rows) /\ rows[i].scope = Generic /\ rows[j] = NoRow /\ w \in LiveSites(rows)
    /\ EditRows([rows EXCEPT ![j] = [rows[i] EXCEPT !.scope = w]])

DeleteWebsite(w) == w \in LiveSites(rows) /\ EditRows([rows EXCEPT ![w].live = FALSE])

DatePasses(i) == rows[i] # NoRow /\ ~rows[i].due /\ EditRows([rows EXCEPT ![i].due = TRUE])

\* A membership is granted or revoked: website_members has no verb of its own.
EditMembers(w, u, r) ==
    /\ edits > 0 /\ edits' = edits - 1
    /\ members' = IF <<w, u, r>> \in members THEN members \ {<<w, u, r>>}
                  ELSE members \cup {<<w, u, r>>}
    /\ UNCHANGED <<rows, reads>>
    /\ Watched(rows, members')

-----------------------------------------------------------------------------

Read(p) ==
    \/ \E w \in Sites, u \in Urls, who \in Users \cup {None} : BeginRead(p, w, u, who)
    \/ ReadPage(p)
    \/ ReadMembers(p)
    \/ ReadBlocks(p)

Walk(p) ==
    \/ \E w \in Sites : BeginWalk(p, w)
    \/ BindWalk(p)
    \/ ListUrls(p)

Edit ==
    \/ \E i \in PageIds : Publish(i) \/ Unpublish(i) \/ PatchPage(i) \/ DeletePage(i) \/ DatePasses(i)
    \/ \E i, j \in PageIds, w \in Sites : ForkPage(i, j, w)
    \/ \E w \in Sites : DeleteWebsite(w)
    \/ \E w \in Sites, u \in Users, r \in Roles : EditMembers(w, u, r)

PublicNext == Edit \/ \E p \in Readers : Read(p) \/ Walk(p)

PublicSpec == PublicInit /\ [][PublicNext]_publicVars

\* A client that has a next_cursor asks for that page, and the server answers it.
FairSpec == PublicSpec /\ \A p \in Readers : WF_publicVars(BindWalk(p)) /\ WF_publicVars(ListUrls(p))

-----------------------------------------------------------------------------
(* Properties. *)

\* Who the tier of a row lets in, with roles H held.
Admits(s, who, H) ==
    \/ s.tier = "public"
    \/ s.tier = "connected" /\ who # None
    \/ s.tier = "restricted" /\ who # None /\ H \cap s.roles # {}

\* The statements of visible_page see different moments.  A page is served only if, at some moment
\* of the request, the url answered with a published row whose tier let this reader in with roles
\* held at some moment of the request; the 403 is given only if the url once answered with a row
\* that needs more than nothing, so an unpublished page never shows as refused; the 404 only if the
\* url once had no visible answer.
AnswersAreTrue ==
    \A p \in Readers : LET f == reading[p] IN f.pc = "idle" =>
        /\ f.answer = "served" => \E s \in f.shown : Admits(s, f.who, f.held)
        /\ f.answer = "refused" => \E s \in f.shown : s.tier # "public"
        /\ f.answer = "missing" => f.hidden

\* Pagination loses nothing: a client that followed next_cursor to the end was given every url
\* that was listed at every moment of its walk, whatever else was edited, renamed or forked.
SitemapComplete ==
    \A p \in Readers : reading[p].pc = "idle" /\ reading[p].answer = "listed" => reading[p].always \subseteq reading[p].listed

\* A client that follows next_cursor comes to the last page.
WalksEnd == \A p \in Readers : reading[p].pc \in {"page", "list"} ~> reading[p].pc = "idle"
=============================================================================
