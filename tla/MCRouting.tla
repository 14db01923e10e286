------------------------------ MODULE MCRouting ------------------------------
(***************************************************************************)
(* Small redirect tables for Routing.                                      *)
(***************************************************************************)
EXTENDS Routing

CONSTANTS r1, r2, r3

A == [absolute |-> TRUE, path |-> <<"a">>, names |-> NoNames]
B == [absolute |-> TRUE, path |-> <<"b">>, names |-> NoNames]
Away == [absolute |-> FALSE, path |-> <<"b">>, names |-> [n \in Names |-> 2]]
MCUrls == {A, B, Away}

\* The two urls, and paths that the normalising rows send elsewhere.
MCAsked == {<<"a">>, <<"b">>, <<"">>, <<"b", "">>, <<"en", "", "">>, <<"en", "en", "a">>,
            <<"", "">>, <<"en", "", "a">>, <<"", "", "">>, <<"", "a">>}

Row(kind, from, to) == [site |-> 1, from |-> from, kind |-> kind, to |-> to, live |-> TRUE]
Table(r) == [i \in RedirectIds |-> IF i = r1 THEN r ELSE NoRow]

\* A page at /a: with a redirect from /b, and with a dead redirect.
MCStarts == {[redirects |-> Table(Row("found_302", B, A)), served |-> {<<1, <<"a">>>>}],
             [redirects |-> Table([Row("moved_301", A, B) EXCEPT !.live = FALSE]),
              served |-> {<<1, <<"a">>>>}]}
Home == {[redirects |-> Table(NoRow), served |-> {<<1, <<"a">>>>}]}
=============================================================================
