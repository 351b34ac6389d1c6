----------------------------- MODULE MCDocFetch -----------------------------
(* Two sessions of one principal, and one of a principal whose fetches     *)
(* need approval; one of the two tasks may fetch.  Of the URLs, only the   *)
(* first is for an allowed host.  The fetches differ in what they may ask  *)
(* for and what may come of it: the first ones are there for the others to *)
(* be read against.                                                        *)
EXTENDS DocFetch

Url(protocol, kind, labels) ==
  [protocol |-> protocol, host |-> [kind |-> kind, labels |-> labels], tooLong |-> FALSE]
Allowed == Url("https", "name", <<"api", "dev">>)
Other == Url("https", "name", <<"dev", "org">>)
Literal == Url("http", "literal", <<"ten">>)
Ftp == Url("ftp", "name", <<"api", "dev">>)
Long == [Allowed EXCEPT !.tooLong = TRUE]
MCUrls == {Allowed, Other, Literal, Ftp, Long}
Ask(s, t, url) == [session |-> s, task |-> t, url |-> url]
MCAsked ==
  << {Ask("a", "t", Allowed)},
     {Ask("a", "t", Allowed), Ask("a", "u", Allowed)},
     {Ask("b", "t", Allowed), Ask("c", "t", Allowed)}
       \cup {Ask("a", "t", url) : url \in MCUrls \ {Allowed}} >>
MCServers == << {}, {}, {"binary", "redirect", "failure"} >>
MCBodies == << {2}, {2}, {2, 3} >>
MCDomains ==
  {[wildcard |-> TRUE, labels |-> <<"dev">>], [wildcard |-> FALSE, labels |-> <<"ten">>]}
MCPrincipalOf == [s \in Sessions |-> IF s = "c" THEN "guest" ELSE "user"]
MCTrustOf == [s \in Sessions |-> IF s = "c" THEN "medium" ELSE "high"]
=============================================================================
