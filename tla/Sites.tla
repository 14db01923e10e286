------------------------------- MODULE Sites -------------------------------
(***************************************************************************)
(* The root service over the website table (website_service.rs): the       *)
(* bootstrap of a website with its homepage and menus, the configuration   *)
(* patch, the guarded deletion, and the binding of a host name.            *)
(*                                                                         *)
(* The rows that one bootstrap inserts under its own fresh website_id are  *)
(* kept with it: homes[w] its fork of the homepage, menus[w] its menu      *)
(* entries.  `generic` holds the generic homepage pages.  A transaction    *)
(* holds its version of one website and one generic page in its locals.    *)
(* A host is a name behind what the normalisation strips: `odd` for a      *)
(* scheme or capitals, `tail` for ports, dots and slashes.                 *)
(***************************************************************************)
EXTENDS Naturals, Sequences

CONSTANTS
    SiteIds,       \* in uuid order
    GenericIds, Companies, Users, Urls, Hosts,
    Inputs,        \* of create_website
    Patches,       \* of patch_config: a column that is not named is Keep
    TakenUrls,     \* urls of generic pages with another key
    Procs, Starts, MaxCalls, NoRow, None, Keep

VARIABLES sites, homes, menus, generic, tx, calls

vars == <<sites, homes, menus, generic, tx, calls>>
store == <<sites, homes, menus, generic>>

HostType == [name : STRING, odd : BOOLEAN, tail : Seq({"port", "dot", "slash"})]
\* typed is the domain as it was given, opened the homepage_url of the bootstrap.
SiteRow == [company : Companies, domain : HostType \cup {None}, typed : Hosts \cup {None},
            user : Users, sequence : 0..1, homepage : Urls, opened : Urls, live : BOOLEAN]
HomeRow == [from : GenericIds, url : Urls]
PageRow == [url : Urls, live : BOOLEAN]

ASSUME SiteIdsAssumption == SiteIds \subseteq Nat
ASSUME HostsAssumption == Hosts \subseteq HostType /\ TakenUrls \subseteq Urls
ASSUME InputsAssumption ==
    Inputs \subseteq [company : Companies, typed : Hosts \cup {None}, user : Users,
                      sequence : 0..1, homepage : Urls]
ASSUME PatchesAssumption ==
    Patches \subseteq [typed : Hosts \cup {None, Keep}, homepage : Urls \cup {Keep},
                       sequence : 0..1 \cup {Keep}]
ASSUME NullsAssumption == /\ NoRow \notin SiteRow /\ NoRow \notin HomeRow /\ NoRow \notin PageRow
                          /\ None \notin HostType
                          /\ Keep \notin Hosts /\ Keep \notin Urls /\ Keep # None

Idle(a) == [pc |-> "idle", id |-> None, row |-> NoRow, page |-> None, pageRow |-> NoRow,
            home |-> NoRow, entries |-> {}, officer |-> TRUE, seen |-> << >>, patch |-> << >>,
            done |-> "none", answer |-> a]

Init ==
    /\ \E s \in Starts : sites = s.sites /\ homes = s.homes /\ menus = s.menus /\ generic = s.generic
    /\ tx = [p \in Procs |-> Idle("none")]
    /\ calls = MaxCalls

At(p, label) == tx[p].pc = label /\ UNCHANGED calls
Goto(p, frame, label) == tx' = [tx EXCEPT ![p] = [frame EXCEPT !.pc = label]]
Return(p, a) == tx' = [tx EXCEPT ![p] = Idle(a)]
Others(p) == Procs \ {p}
Live(w) == sites[w] # NoRow /\ sites[w].live

-----------------------------------------------------------------------------
(* normalize_host *)

Least(S) == CHOOSE w \in S : \A v \in S : w <= v

\* trim_end_matches: the shortest beginning with nothing but c behind it.
TrimEnd(tail, c) ==
    SubSeq(tail, 1, Least({n \in 0..Len(tail) : \A k \in n + 1..Len(tail) : tail[k] = c}))

\* A numeric port goes when no other colon stands before it.
StripPort(tail) ==
    IF /\ tail # << >> /\ tail[Len(tail)] = "port"
       /\ \A k \in 1..Len(tail) - 1 : tail[k] # "port"
    THEN SubSeq(tail, 1, Len(tail) - 1) ELSE tail

NormalizeHost(h) ==
    [name |-> h.name, odd |-> FALSE, tail |-> TrimEnd(TrimEnd(StripPort(h.tail), "dot"), "slash")]

\* A wrong variant: only the case and the scheme are folded.
CaseOnlyDomain(typed) == IF typed = None THEN None ELSE [typed EXCEPT !.odd = FALSE]

\* A stored domain is normalised once ...
Domain(typed) == IF typed = None THEN None ELSE NormalizeHost(typed)

\* ... and a Host header twice: by bound_website and by website_by_host.
WebsiteByHost(header) ==
    {w \in SiteIds : Live(w) /\ sites[w].domain = NormalizeHost(NormalizeHost(header))}

-----------------------------------------------------------------------------
(* The unique domain and public user of live websites, and the one live    *)
(* generic homepage.                                                       *)

\* COALESCE(domain, ''): one live website may be without a domain.
Slot(domain) == IF domain = None THEN [name |-> "", odd |-> FALSE, tail |-> << >>] ELSE domain

Collide(r, s) == /\ r # NoRow /\ s # NoRow /\ r.live /\ s.live
                 /\ r.user = s.user \/ Slot(r.domain) = Slot(s.domain)

Waits(p, w, r) ==
    \E q \in Others(p) : /\ tx[q].row # NoRow
                         /\ \/ tx[q].id = w
                            \/ Collide(r, tx[q].row) \/ Collide(r, sites[tx[q].id])
Conflicts(w, r) == \E v \in SiteIds \ {w} : Collide(r, sites[v])

Unused == {w \in SiteIds : sites[w] = NoRow /\ \A q \in Procs : tx[q].id # w}
UnusedPage == {g \in GenericIds : generic[g] = NoRow /\ \A q \in Procs : tx[q].page # g}
LiveGeneric == {g \in GenericIds : generic[g] # NoRow /\ generic[g].live}

\* A wrong variant: the lowest of the whole table.
GlobalPrimaryOf(table, company) ==
    LET live == {w \in SiteIds : table[w] # NoRow /\ table[w].live}
    IN  Least({w \in live : \A v \in live : table[w].sequence <= table[v].sequence})

\* The lowest live (sequence, id) of the company.
PrimaryOf(table, company) ==
    LET live == {w \in SiteIds : table[w] # NoRow /\ table[w].live /\ table[w].company = company}
    IN  Least({w \in live : \A v \in live : table[w].sequence <= table[v].sequence})

\* A database that the program left before: unique columns, stored domains normalised,
\* each website with what its bootstrap gave it.
ASSUME StartsAssumption ==
    \A s \in Starts :
      /\ s.sites \in [SiteIds -> SiteRow \cup {NoRow}]
      /\ s.homes \in [SiteIds -> HomeRow \cup {NoRow}]
      /\ s.menus \in [SiteIds -> SUBSET {"Main", "Home"}]
      /\ s.generic \in [GenericIds -> PageRow \cup {NoRow}]
      /\ \A g, h \in GenericIds :
           (s.generic[g] # NoRow /\ s.generic[g].live /\ s.generic[h] # NoRow /\ s.generic[h].live) => g = h
      /\ \A w, v \in SiteIds : w # v => ~Collide(s.sites[w], s.sites[v])
      /\ \A w \in SiteIds : s.sites[w] # NoRow =>
           /\ s.sites[w].domain = Domain(s.sites[w].typed)
           /\ s.homes[w] # NoRow /\ s.homes[w].url = s.sites[w].opened
           /\ s.generic[s.homes[w].from] # NoRow
           /\ s.menus[w] = {"Main", "Home"}

-----------------------------------------------------------------------------
(* create_website: one transaction. *)

\* The public principal is bound, or minted in the transaction: one that nobody else has.
BeginCreate(p) ==
    \E in \in Inputs :
      Goto(p, [Idle("none") EXCEPT
                 !.patch = [company |-> in.company, domain |-> Domain(in.typed), typed |-> in.typed,
                            user |-> in.user, sequence |-> in.sequence, homepage |-> in.homepage,
                            opened |-> in.homepage, live |-> TRUE]],
           "create.site")

CreateSite(p) ==
    /\ At(p, "create.site") /\ Unused # {}
    /\ LET w == Least(Unused)
           r == tx[p].patch
       IN  /\ ~Waits(p, w, r)
           /\ IF Conflicts(w, r) THEN Return(p, "SpecificityConflict")
              ELSE Goto(p, [tx[p] EXCEPT !.id = w, !.row = r], "create.resolve")
    /\ UNCHANGED store

\* resolve_generic('homepage'): ride the existing seed.
CreateResolve(p) ==
    /\ At(p, "create.resolve")
    /\ \/ \E g \in LiveGeneric : Goto(p, [tx[p] EXCEPT !.page = g], "create.fork")
       \/ LiveGeneric = {} /\ Goto(p, tx[p], "create.seed")
    /\ UNCHANGED store

\* A wrong variant: a second seed next to a live one.
UncheckedSeed(p) ==
    /\ At(p, "create.seed") /\ UnusedPage # {}
    /\ LET row == [url |-> tx[p].row.homepage, live |-> TRUE]
       IN  Goto(p, [tx[p] EXCEPT !.page = CHOOSE g \in UnusedPage : TRUE, !.pageRow = row], "create.fork")
    /\ UNCHANGED store

\* The seed waits for another bootstrap's, and is refused when that one commits or when
\* a generic page of another key stands at the url.
CreateSeed(p) ==
    /\ At(p, "create.seed") /\ UnusedPage # {}
    /\ \A q \in Others(p) : tx[q].pageRow = NoRow
    /\ LET row == [url |-> tx[p].row.homepage, live |-> TRUE]
       IN  IF LiveGeneric # {} \/ row.url \in TakenUrls THEN Return(p, "SpecificityConflict")
           ELSE Goto(p, [tx[p] EXCEPT !.page = CHOOSE g \in UnusedPage : TRUE, !.pageRow = row],
                     "create.fork")
    /\ UNCHANGED store

\* The fork of the generic, dead or alive by now, under the website's own homepage_url;
\* the root menu and its first entry, bound to the fork.
CreateFork(p) ==
    /\ At(p, "create.fork")
    /\ Goto(p, [tx[p] EXCEPT !.home = [from |-> tx[p].page, url |-> tx[p].row.homepage],
                             !.entries = {"Main", "Home"}, !.done = "Created"], "commit")
    /\ UNCHANGED store

-----------------------------------------------------------------------------
(* patch_config and delete_website *)

\* A patch that sets nothing, or a homepage_url without its slash, is refused before this.
BeginPatch(p) ==
    \E w \in SiteIds, patch \in Patches, officer \in BOOLEAN :
      Goto(p, [Idle("none") EXCEPT !.id = w, !.patch = patch, !.officer = officer], "patch.update")

Patched(r, patch) ==
    [r EXCEPT !.typed = IF patch.typed = Keep THEN @ ELSE patch.typed,
              !.domain = IF patch.typed = Keep THEN @ ELSE Domain(patch.typed),
              !.homepage = IF patch.homepage = Keep THEN @ ELSE patch.homepage,
              !.sequence = IF patch.sequence = Keep THEN @ ELSE patch.sequence]

\* UPDATE of the named columns, of a dead website too, and of the website alone: its
\* homepage page keeps its url.  Without an officer the outer jsonb_set is left with one
\* argument, and the statement fails.
PatchUpdate(p) ==
    /\ At(p, "patch.update")
    /\ LET w == tx[p].id
           new == Patched(sites[w], tx[p].patch)
       IN  IF ~tx[p].officer \/ sites[w] = NoRow THEN Return(p, "Db")
           ELSE /\ ~Waits(p, w, new)
                /\ IF Conflicts(w, new) THEN Return(p, "SpecificityConflict")
                   ELSE Goto(p, [tx[p] EXCEPT !.row = new, !.done = "Patched"], "commit")
    /\ UNCHANGED store

BeginDelete(p) ==
    \E w \in SiteIds, officer \in BOOLEAN :
      Goto(p, [Idle("none") EXCEPT !.id = w, !.officer = officer], "delete.site")

\* The guard reads twice before the transaction begins.
DeleteSite(p) ==
    /\ At(p, "delete.site")
    /\ IF Live(tx[p].id) THEN Goto(p, [tx[p] EXCEPT !.seen = sites], "delete.primary")
       ELSE Return(p, "NotFound")
    /\ UNCHANGED store

DeletePrimary(p) ==
    /\ At(p, "delete.primary")
    /\ LET w == tx[p].id
           company == tx[p].seen[w].company
           live == {v \in SiteIds : Live(v) /\ sites[v].company = company}
       IN  IF live # {} /\ PrimaryOf(sites, company) = w
           THEN Return(p, "WebsiteIsPrimaryForCompany")
           ELSE Goto(p, [tx[p] EXCEPT !.seen = sites], "delete.update")
    /\ UNCHANGED store

\* UPDATE WHERE id, live or not.  Without an officer jsonb_set makes the metadata NULL.
DeleteUpdate(p) ==
    /\ At(p, "delete.update")
    /\ LET w == tx[p].id
           dead == [sites[w] EXCEPT !.live = FALSE]
       IN  IF ~tx[p].officer THEN Return(p, "Db")
           ELSE ~Waits(p, w, dead) /\ Goto(p, [tx[p] EXCEPT !.row = dead, !.done = "Deleted"], "commit")
    /\ UNCHANGED store

-----------------------------------------------------------------------------
Commit(p) ==
    LET f == tx[p] IN
    /\ At(p, "commit")
    /\ sites' = [sites EXCEPT ![f.id] = f.row]
    /\ homes' = IF f.home = NoRow THEN homes ELSE [homes EXCEPT ![f.id] = f.home]
    /\ menus' = IF f.entries = {} THEN menus ELSE [menus EXCEPT ![f.id] = f.entries]
    /\ generic' = IF f.pageRow = NoRow THEN generic ELSE [generic EXCEPT ![f.page] = f.pageRow]
    /\ Return(p, f.done)

Lost(p) == tx[p].pc # "idle" /\ UNCHANGED calls /\ Return(p, "aborted") /\ UNCHANGED store

\* The fanout deletion of the generic homepage (Pages): every website keeps its fork.
FanoutHomepage ==
    /\ LiveGeneric # {}
    /\ generic' = [g \in GenericIds |-> IF g \in LiveGeneric THEN [generic[g] EXCEPT !.live = FALSE]
                                        ELSE generic[g]]
    /\ UNCHANGED <<sites, homes, menus, tx, calls>>

Begin(p) ==
    /\ tx[p].pc = "idle" /\ calls > 0 /\ calls' = calls - 1
    /\ BeginCreate(p) \/ BeginPatch(p) \/ BeginDelete(p)
    /\ UNCHANGED store

Step(p) == \/ CreateSite(p) \/ CreateResolve(p) \/ CreateSeed(p) \/ CreateFork(p)
           \/ PatchUpdate(p) \/ DeleteSite(p) \/ DeletePrimary(p) \/ DeleteUpdate(p) \/ Commit(p)

Next == (\E p \in Procs : Begin(p) \/ Step(p) \/ Lost(p)) \/ FanoutHomepage

Spec == Init /\ [][Next]_vars

-----------------------------------------------------------------------------
Commits(p, a) == tx[p].pc = "commit" /\ tx[p].done = a /\ tx'[p] = Idle(a)

\* A website exists with all that its bootstrap gives it or not at all, wherever the
\* bootstrap is refused or its connection is lost: a homepage of its own at the
\* homepage_url it was created with, not at the generic's url, forked from a page that
\* exists, and both menu entries.
BootstrapWhole ==
    \A w \in SiteIds : sites[w] # NoRow =>
      /\ homes[w] # NoRow /\ homes[w].url = sites[w].opened
      /\ generic[homes[w].from] # NoRow
      /\ menus[w] = {"Main", "Home"}

\* Live websites share neither a domain, the missing one included, nor a public principal,
\* whichever open transactions commit, one live generic homepage serves every bootstrap,
\* and no website is there without what its bootstrap gives it.
SitesInv ==
    /\ sites \in [SiteIds -> SiteRow \cup {NoRow}]
    /\ \A w, v \in SiteIds : w # v =>
         LET versions(i) == {sites[i]} \cup {tx[q].row : q \in {x \in Procs : tx[x].id = i}}
         IN  \A r \in versions(w), s \in versions(v) : ~Collide(r, s)
    /\ \A g, h \in LiveGeneric \cup {tx[q].page : q \in {x \in Procs : tx[x].pageRow # NoRow}} : g = h
    /\ BootstrapWhole

\* A name as browsers send it: perhaps a port, perhaps the root's dot.
HeaderHost(h) == h.tail \in {<< >>, <<"port">>, <<"dot">>, <<"dot", "port">>}

\* "Both sides of the exact match share one normalization" (normalize_host): a website
\* whose domain was given like a Host header is found by that header, and no other is.
HostFindsItsWebsite ==
    \A w \in SiteIds : Live(w) /\ sites[w].typed # None =>
      (HeaderHost(sites[w].typed) => WebsiteByHost(sites[w].typed) = {w})

\* "Refuses while the website is its company's derived primary": a deletion that commits
\* over the table its guard read leaves the company its primary.  (The guard reads before
\* the transaction: over another table it may not.)
DeletionSparesPrimary ==
    [][\A p \in Procs : (Commits(p, "Deleted") /\ sites = tx[p].seen /\ Live(tx[p].id)) =>
         \E v \in SiteIds \ {tx[p].id} :
           /\ Live(v) /\ sites[v].company = sites[tx[p].id].company
           /\ sites[v].sequence <= sites[tx[p].id].sequence]_vars
=============================================================================
