-------------------------- MODULE PagesRefinement --------------------------
(***************************************************************************)
(* The statements of fork and fanout, interleaved, implement the atomic    *)
(* catalog: a commit is one step of PageCatalog, all else is stuttering.   *)
(***************************************************************************)
EXTENDS Pages

\* The scopes in which the committed state holds a live page of key k.
HoldersOf(k) == {s \in Scopes : ResolveSpecificEntity(db, k, s) # {}}

\* The page that menu m is bound to, by key and scope.
BindingOf(m) ==
    IF m \in LiveMenus(db) /\ db[m].page # None
      THEN <<db[db[m].page].key, db[db[m].page].scope>>
      ELSE None

Atomic == INSTANCE PageCatalog WITH
    Menus   <- MenuIds,
    live    <- LiveSites(db),
    siteOf  <- [m \in MenuIds |-> IF db[m] = NoRow THEN None ELSE db[m].site],
    holders <- [k \in Keys |-> HoldersOf(k)],
    binding <- [m \in MenuIds |-> BindingOf(m)]

-----------------------------------------------------------------------------
\* When the promise holds.  The indexes keep two pages of a scope off one url; that a url
\* belongs to one key is nowhere enforced.

\* The live menus bound to page i.
BoundTo(t, i) == {m \in LiveMenus(t) : t[m].page = i}

\* The generic i is live, or a live menu still names it.
Standing(t, i) ==
    t[i] # NoRow /\ t[i].scope = Generic /\ (t[i].live \/ BoundTo(t, i) # {})

\* The catalogs the promise is about: a url is one key's, a key has one generic that is live
\* or named by a menu, and menus of live websites are bound to live pages.
Tidy(t) ==
    /\ \A i, j \in LivePages(t) : t[i].url = t[j].url => t[i].key = t[j].key
    /\ \A i, j \in PageIds :
         Standing(t, i) /\ Standing(t, j) /\ t[i].key = t[j].key => i = j
    /\ \A m \in LiveMenus(t) :
         (t[m].site \in LiveSites(t) /\ t[m].page # None) => t[t[m].page].live

TidyCatalogs == \A t \in Catalogs : Tidy(t)

\* The catalog has no step for the verbs that move urls, create pages, or delete specifics.
VersioningOnly == Verbs \subseteq {"fork", "fanout", "publish", "unpublish"}

\* No pair of a key and a scope is the missing binding.
PairsAreNotNone == None \notin Keys \X Scopes

-----------------------------------------------------------------------------
\* Fork and fanout are all-or-nothing, and racing calls behave as if one had come
\* after the other.
ImplementsCatalog == Atomic!Spec
=============================================================================
