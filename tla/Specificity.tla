---------------------------- MODULE Specificity ----------------------------
(***************************************************************************)
(* The one generic-vs-specific resolver (specificity.rs) and the public    *)
(* reads that ride it, as operators over a table state t.                  *)
(*                                                                         *)
(* A resolver answers with LIMIT 1 of an ordering; here it is the set of   *)
(* rows that ordering may put first, so `None` is the empty set and an     *)
(* answer that depends on nothing but the data is a singleton.             *)
(***************************************************************************)
EXTENDS Schema

LivePages(t) == {i \in PageIds : t[i] # NoRow /\ t[i].live}

LiveSites(t) == {w \in Sites : t[w] # NoRow /\ t[w].live}

LiveMenus(t) == {m \in MenuIds : t[m] # NoRow /\ t[m].live}

\* ORDER BY website_id NULLS LAST: the specific of w outranks the generic.
PreferSpecific(t, S, w) ==
    {i \in S : t[i].scope = w \/ \A j \in S : t[j].scope = t[i].scope}

\* website_id = $w OR website_id IS NULL, over live rows.
LiveScope(t, w) == {i \in LivePages(t) : t[i].scope \in {w, Generic}}

ResolveSpecific(t, k, w) ==
    PreferSpecific(t, {i \in LiveScope(t, w) : t[i].key = k}, w)

ResolvePageByUrl(t, u, w) ==
    PreferSpecific(t, {i \in LiveScope(t, w) : t[i].url = u}, w)

\* The exact arms: the generic row of a key, and the specific row of (key, w).
ResolveGeneric(t, k) == {i \in LivePages(t) : t[i].key = k /\ t[i].scope = Generic}

ResolveSpecificEntity(t, k, w) == {i \in LivePages(t) : t[i].key = k /\ t[i].scope = w}

\* The officer list: DISTINCT ON (key) with the specific first.
ResolveEffectivePages(t, w) == UNION {ResolveSpecific(t, k, w) : k \in Keys}

\* The sitemap filters first and folds by key afterwards.
ResolveSitemapPage(t, w) ==
    LET Listed == {i \in LiveScope(t, w) :
                     t[i].published /\ t[i].tier = "public" /\ t[i].indexed}
    IN  UNION {PreferSpecific(t, {i \in Listed : t[i].key = k}, w) : k \in Keys}
=============================================================================
