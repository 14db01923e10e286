------------------------------- MODULE Schema -------------------------------
(***************************************************************************)
(* The rows of schema `website` that the versioning verbs touch, and the   *)
(* partial unique indexes of the hardening migration.                      *)
(*                                                                         *)
(* A row is one record per table.  Text the verbs only store (titles, SEO  *)
(* names, block payloads, time stamps) is left out; `metadata.deleted_at`  *)
(* is the Boolean `live`.  Which table a row belongs to is told by its     *)
(* primary key: the identifier sets are disjoint.                          *)
(***************************************************************************)
EXTENDS Naturals

CONSTANTS
    PageIds,      \* primary keys of website.pages
    MenuIds,      \* primary keys of website.menus
    Sites,        \* primary keys of website.websites, in uuid order
    RedirectIds,  \* primary keys of website.redirects
    Keys,         \* page keys
    Urls,         \* normalised site-absolute paths
    NoRow,        \* no version of a row
    None          \* SQL NULL in a nullable column

\* The website_id of a generic page (NULL in the column, the sentinel in the indexes).
Generic == 0

Scopes == Sites \cup {Generic}
Id == PageIds \cup MenuIds \cup Sites \cup RedirectIds

ASSUME SitesAssumption == Sites \subseteq Nat \ {0}
ASSUME IdsAssumption ==
    /\ PageIds \cap MenuIds = {} /\ PageIds \cap Sites = {} /\ PageIds \cap RedirectIds = {}
    /\ MenuIds \cap Sites = {} /\ MenuIds \cap RedirectIds = {} /\ Sites \cap RedirectIds = {}
ASSUME NoneAssumption == None \notin Id \cup Keys \cup Urls \cup {Generic}

Tiers == {"public", "connected", "restricted"}

PageRow == [key : Keys, scope : Scopes, url : Urls, published : BOOLEAN,
            tier : Tiers, indexed : BOOLEAN, forkedFrom : PageIds \cup {None},
            live : BOOLEAN]
MenuRow == [site : Sites, page : PageIds \cup {None}, url : Urls \cup {None},
            parent : MenuIds \cup {None}, mega : BOOLEAN, tier : Tiers, live : BOOLEAN]
SiteRow == [homepage : Urls, live : BOOLEAN]
RedirectRow == [site : Sites, from : Urls, to : Urls, live : BOOLEAN]
Row == PageRow \cup MenuRow \cup SiteRow \cup RedirectRow

ASSUME NoRowAssumption == NoRow \notin Row

\* A table state gives every primary key its row, or NoRow if it was never inserted.
TableState(t) ==
    /\ t \in [Id -> Row \cup {NoRow}]
    /\ \A i \in PageIds : t[i] \in PageRow \cup {NoRow}
    /\ \A i \in MenuIds : t[i] \in MenuRow \cup {NoRow}
    /\ \A i \in Sites : t[i] \in SiteRow \cup {NoRow}
    /\ \A i \in RedirectIds : t[i] \in RedirectRow \cup {NoRow}

-----------------------------------------------------------------------------
\* A wrong variant, for the checks of FoldDeterministic: a plain unique index, where
\* NULL differs from NULL.
PlainSpecificity(r, s) == r.scope = s.scope /\ r.scope # Generic /\ r.key = s.key

\* idx_website_pages_specificity: (key, COALESCE(website_id, nil)) over live rows.
SameSpecificity(r, s) == r.scope = s.scope /\ r.key = s.key

\* idx_website_pages_url_scope: (url, COALESCE(website_id, nil)) over live rows.
SameUrlScope(r, s) == r.scope = s.scope /\ r.url = s.url

\* idx_website_redirects_url_from_live: (url_from, website_id) over live rows.
SameUrlFrom(r, s) == r.site = s.site /\ r.from = s.from

\* Version r of row i and version s of row j cannot both be in the indexes.
Collide(i, r, j, s) ==
    /\ i # j /\ r # NoRow /\ s # NoRow
    /\ \/ /\ i \in PageIds /\ j \in PageIds /\ r.live /\ s.live
          /\ SameSpecificity(r, s) \/ SameUrlScope(r, s)
       \/ /\ i \in RedirectIds /\ j \in RedirectIds /\ r.live /\ s.live
          /\ SameUrlFrom(r, s)

\* No two rows of a table state collide.
CollisionFree(t) == \A i, j \in Id : ~Collide(i, t[i], j, t[j])
=============================================================================
