--------------------------- MODULE MCQualification ---------------------------
(* An instance of Qualification for TLC: two routes under one prefix, and a  *)
(* prefix under which a health check lies.                                   *)
EXTENDS Qualification

shop == <<"shop">>
api == <<"api">>

Request(route, prefix, client) ==
  [method |-> "GET", route |-> route, prefix |-> prefix, client |-> client,
   denied |-> FALSE, sampled |-> FALSE, upstream |-> 0]

Item(client) ==
  [Request(<<"shop", "item">>, shop, client) EXCEPT !.sampled = TRUE, !.upstream = 2]

List == Request(<<"shop", "list">>, shop, "one")

MCPastKind == {Item("one"), List, [Item("one") EXCEPT !.denied = TRUE]}

MCLiveKind ==
  {Item("one"), Item("two"), List, [Item("one") EXCEPT !.denied = TRUE],
   Request(api, api, "one")}

MCExcluded == {<<"api", "health">>, <<"static", "">>}

MCPath == {<<"shop", "item">>, <<"shop", "list">>, <<"api">>, <<"api", "">>,
           <<"api", "health">>, <<"api", "health", "db">>, <<"static", "logo">>}

MCDetection ==
  [volumeRequests |-> 2, volumeShare |-> 2, shapeRequests |-> 2, shapeUpstream |-> 2,
   clients |-> 2, clientRatio |-> 2, coverage |-> 2, averageUpstream |-> 1,
   multiplier |-> 3]
=============================================================================
