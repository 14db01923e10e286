------------------------------ MODULE MCSites ------------------------------
(***************************************************************************)
(* Small tables for Sites: two callers, an empty database or three         *)
(* websites of two companies, five inputs of create_website that collide   *)
(* in the domain (a missing one included), the public principal or the     *)
(* homepage url, and patches of each column that contend for a slot.       *)
(***************************************************************************)
EXTENDS Sites

CONSTANTS g1, g2, g3

Shop == [name |-> "shop", odd |-> TRUE, tail |-> <<"dot", "port">>]
Blog == [name |-> "blog", odd |-> FALSE, tail |-> <<"slash">>]
Docs == [name |-> "docs", odd |-> FALSE, tail |-> << >>]
Wiki == [name |-> "wiki", odd |-> TRUE, tail |-> <<"port">>]
MCHosts == {Shop, Blog, Docs, Wiki}

Input(host, user, seq, url) ==
    [company |-> "acme", typed |-> host, user |-> user, sequence |-> seq, homepage |-> url]
MCInputs == {Input(None, 1, 0, "/"), Input(Shop, 3, 0, "/"), Input(Shop, 4, 1, "/home"),
             Input(Blog, 3, 1, "/about"), Input(Blog, 4, 0, "/")}

Patch(host, url, seq) == [typed |-> host, homepage |-> url, sequence |-> seq]
MCPatches == {Patch(None, Keep, Keep), Patch(Shop, Keep, 0), Patch(Docs, "/home", Keep),
              Patch(Keep, "/about", 1)}

Site(company, host, user, seq) ==
    [company |-> company, domain |-> Domain(host), typed |-> host, user |-> user,
     sequence |-> seq, homepage |-> "/", opened |-> "/", live |-> TRUE]
Nothing(S) == [x \in S |-> NoRow]
\* Nothing yet; two websites of one company and one of another, beside a live generic
\* homepage.
Empty == [sites |-> Nothing(SiteIds), homes |-> Nothing(SiteIds), menus |-> [w \in SiteIds |-> {}],
          generic |-> Nothing(GenericIds)]
Three == [sites |-> [w \in SiteIds |-> CASE w = 1 -> Site("bolt", Docs, 1, 0)
                                          [] w = 2 -> Site("acme", Wiki, 2, 0)
                                          [] w = 3 -> Site("acme", None, 3, 1) [] OTHER -> NoRow],
          homes |-> [w \in SiteIds |-> IF w <= 3 THEN [from |-> g1, url |-> "/"] ELSE NoRow],
          menus |-> [w \in SiteIds |-> IF w <= 3 THEN {"Main", "Home"} ELSE {}],
          generic |-> [g \in GenericIds |-> IF g = g1 THEN [url |-> "/", live |-> TRUE] ELSE NoRow]]
MCStarts == {Empty, Three}
=============================================================================
