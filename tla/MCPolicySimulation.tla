------------------------- MODULE MCPolicySimulation -------------------------
EXTENDS PolicySimulation

(* Three crawlers of two categories, one of them protected.                 *)
MCName == {"bing", "google", "gpt"}
MCCategoryOf == [name \in MCName |-> IF name = "gpt" THEN "ai" ELSE "search"]

(* A plain route, one with a placeholder, one that cannot be acted on.      *)
MCRoute == 1 .. 3
MCPrefixOf == << <<"a">>, <<"b">>, NoPrefix >>

Of(action, profile, names, categories, paths, methods) ==
  [action |-> action, profile |-> profile, names |-> names, categories |-> categories,
   paths |-> paths, methods |-> methods]

Deny(names, categories, paths, methods) ==
  Of("deny", NoProfile, names, categories, paths, methods)
Limit(profile, names, categories) == Of("rate_limit", profile, names, categories, {}, {})

Google == Of("allow", NoProfile, {"google"}, {}, {}, {})
Gpt == Limit("gentle", {"gpt"}, {})
Search == Limit("strict", {}, {"search"})
Cached == Of("cache", NoProfile, {}, {}, {<<"a">>}, {"GET"})

(* One rule, a rule before or after a rate limit, and lists whose rules     *)
(* decide on what another one matches as well.                              *)
MCPolicies ==
  {<<rule>> : rule \in {Google, Gpt, Search, Cached,
                        Deny({"google", "gpt"}, {}, {}, {}),
                        Deny({}, {}, {<< >>}, {"POST"}),
                        Deny({}, {}, {<<"a">>, <<"b", "x">>}, {"GET"}),
                        Deny({"bing"}, {"ai"}, {}, {})}}
    \cup {<<Google, limit>> : limit \in {Gpt, Search}}
    \cup {<<limit, rule>> : limit \in {Gpt, Search},
                            rule \in {Deny({}, {"ai"}, {<<"a">>}, {}), Cached, Limit("gentle", {"bing"}, {})}}
    \cup {<<Google, Deny({}, {}, {<<"a">>}, {}), Deny({}, {"search"}, {}, {"GET"})>>,
          <<Gpt, Search, Deny({}, {}, {<<"a">>}, {})>>,
          <<Deny({}, {"ai"}, {<<"a">>}, {}), Gpt>>}

At(route, method, claim, unclassified, requests) ==
  [route |-> route, method |-> method, claim |-> claim, unclassified |-> unclassified,
   requests |-> requests]

MCCells ==
  << At(1, "GET", Unclaimed, TRUE, 1), At(1, "GET", "gpt", FALSE, 2), At(1, "POST", "google", FALSE, 1),
     At(2, "GET", "gpt", FALSE, 2), At(2, "GET", "bing", FALSE, 3),
     At(3, "GET", "google", FALSE, 1) >>

By(modeled, limited, known, clients) ==
  [modeled |-> modeled, limited |-> [profile \in Profile |-> limited], known |-> known, clients |-> clients]

(* Every caller was replayed, and one of gpt was not; all but what cannot be*)
(* acted on; and with a route in the overflow.                              *)
MCWorkspaces ==
  LET callers == [claim \in Claim |->
                    IF claim = "gpt" THEN By(4, 1, 2, 2)
                    ELSE IF claim = "bing" THEN By(3, 3, 3, 3)
                    ELSE IF claim = "google" THEN By(2, 0, 1, 1) ELSE By(1, 1, 1, 1)]
      full == [cells |-> MCCells, callers |-> callers, overflow |-> 0]
  IN  {full,
       [full EXCEPT !.callers["gpt"] = By(3, 1, 1, 2)],
       [full EXCEPT !.cells = SubSeq(MCCells, 1, 5), !.callers["google"] = By(1, 1, 1, 1)],
       [full EXCEPT !.overflow = 1]}
=============================================================================
