------------------------------ MODULE MCIntake ------------------------------
(***************************************************************************)
(* Small sets of requests and host configurations for Intake.              *)
(***************************************************************************)
EXTENDS Intake

CONSTANTS ann, bob, s1

Form(client, port, forged, session, payload) ==
    [verb |-> "contact", site |-> 1, client |-> client, port |-> port, forged |-> forged,
     session |-> session, token |-> TRUE, payload |-> payload, disabled |-> FALSE]
Beat(client, port) == [Form(client, port, << >>, None, "valid") EXCEPT !.verb = "heartbeat"]

\* One client by several ways, another client, and what the edge turns away.
MCRequests == {Form(ann, 1, << >>, None, "valid"), Form(ann, 2, <<bob>>, s1, "NUL byte"),
               Form(bob, 1, << >>, s1, "long name"), Beat(ann, 1)}
EdgeRequests == {Form(ann, 1, <<bob>>, None, "no name"),
                 [Form(ann, 1, << >>, None, "valid") EXCEPT !.token = FALSE],
                 [Form(ann, 1, << >>, None, "valid") EXCEPT !.verb = "other"],
                 [Form(ann, 1, << >>, None, "valid") EXCEPT !.site = None],
                 Form(ann, 1, << >>, None, "unknown field"), Form(ann, 1, << >>, None, "not JSON"),
                 [Beat(ann, 1) EXCEPT !.disabled = TRUE]}
AllRequests == [c \in Calls |-> IF c = 1 THEN MCRequests \cup EdgeRequests ELSE MCRequests]

Host(selector, secrets, wired) ==
    [selector |-> selector, secrets |-> secrets, pepper |-> wired, wired |-> wired, proxied |-> TRUE]
MCConfigs == {Host("", {"turnstile"}, TRUE), Host("recaptcha", {"recaptcha"}, FALSE),
              Host("hcaptcha", {"turnstile", "recaptcha"}, TRUE), Host("", {"recaptcha"}, TRUE)}
=============================================================================
