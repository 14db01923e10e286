------------------------------ MODULE MCPages ------------------------------
(***************************************************************************)
(* Small catalogs for Pages: two or three websites, one dead, generic      *)
(* pages with forks, and menus bound to them.                              *)
(***************************************************************************)
EXTENDS PagesRefinement, PagesLiveness, TLC

CONSTANTS p1, p2, p3, p4, p5, p6, m1, m2, m3, r1, r2, r3, k1, k2, a, b, c

MCPageIds == {p1, p2, p3, p4, p5, p6}

Page(k, s, u, pub) ==
    [key |-> k, scope |-> s, url |-> u, published |-> pub, tier |-> "public",
     indexed |-> TRUE, forkedFrom |-> None, live |-> TRUE]
ForkOf(k, s, u, g) == [Page(k, s, u, TRUE) EXCEPT !.forkedFrom = g]
Menu(s, i, u) == [site |-> s, page |-> i, url |-> u, parent |-> None, mega |-> FALSE,
                  tier |-> "public", live |-> TRUE]
Site(u) == [homepage |-> u, live |-> TRUE]
DeadSite(u) == [homepage |-> u, live |-> FALSE]

Catalog(rows) == [i \in Id |-> IF i \in DOMAIN rows THEN rows[i] ELSE NoRow]

\* One generic page on two live websites and a dead one, a menu on each.
Shared == Catalog(p1 :> Page(k1, Generic, a, TRUE)
                  @@ 1 :> Site(a) @@ 2 :> Site(a) @@ 3 :> DeadSite(a)
                  @@ m1 :> Menu(1, p1, None) @@ m2 :> Menu(2, p1, None)
                  @@ m3 :> Menu(3, p1, None))

\* Two generics; website 1 has forked the first, and bound a menu to it since.
Forked == Catalog(p1 :> Page(k1, Generic, a, TRUE) @@ p2 :> ForkOf(k1, 1, a, p1)
                  @@ p3 :> Page(k2, Generic, b, FALSE)
                  @@ 1 :> Site(a) @@ 2 :> Site(a) @@ 3 :> DeadSite(b)
                  @@ m1 :> Menu(1, p1, None) @@ m2 :> Menu(2, p1, a)
                  @@ m3 :> Menu(1, p3, None))

MCVersioningCatalogs == {Shared, Forked}

\* The hypotheses of the refinement, of the catalogs that it is checked on.
ASSUME VersioningHypotheses ==
    (\A t \in MCVersioningCatalogs : Tidy(t)) /\ PairsAreNotNone

\* Website 1 holds a specific of k2 at the url of the generic of k1.
Blocked == Catalog(p1 :> Page(k1, Generic, a, TRUE) @@ p2 :> Page(k2, 1, a, TRUE)
                   @@ 1 :> Site(a) @@ 2 :> Site(a)
                   @@ m1 :> Menu(1, p1, a) @@ m2 :> Menu(2, p1, None))

\* Website 1 has forked its homepage; its menu names it by binding and
\* by literal, and an old rename left a redirect from its url.
Homepage == Catalog(p1 :> Page(k1, Generic, a, TRUE) @@ p2 :> ForkOf(k1, 1, a, p1)
                    @@ 1 :> Site(a) @@ 2 :> Site(b)
                    @@ m1 :> Menu(1, p2, a) @@ m2 :> Menu(2, p1, b)
                    @@ r1 :> [site |-> 1, from |-> a, to |-> b, live |-> TRUE])

MCEditingCatalogs == {Blocked, Homepage}
MCListings == {<<"public", TRUE>>}
=============================================================================
