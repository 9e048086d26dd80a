------------------------------- MODULE MCRest -------------------------------
(***************************************************************************)
(* Instances of Rest: every URL of the service vector with every verb,     *)
(* every combination of defects on a few URLs, and pairs of connections    *)
(* whose bodies arrive at the same time.                                   *)
(***************************************************************************)
EXTENDS Rest, TLC

CONSTANTS c1, c2, t1, t2

Good ==
  [method |-> "POST", url |-> <<"v2", "entities">>, charsOk |-> TRUE, params |-> "none", servicePath |-> "none",
   tenant |-> "none", contentType |-> "application/json", accept |-> {}, body |-> <<>>, kind |-> "good"]

\* Bodies that fit in the static buffer, that need the heap, and that are too large
Body(id, size) == [i \in 1 .. size |-> 10 * id + i]

Fill(compV) == [i \in DOMAIN compV |-> IF compV[i] = "*" THEN "x" ELSE compV[i]]

Urls == {Fill(restServiceV[ix].compV) : ix \in DOMAIN restServiceV} \ {<<>>}

OddUrls ==
  {<<"foo">>, <<"v2", "foo", "x", "y", "z", "value", "w">>, <<"v1", "contextEntities", "type", "attributes", "id", "x">>,
   <<"v1", "contextEntities", "type", "x", "id", "x", "attributes">>}

Routed ==
  {[Good EXCEPT !.url = url, !.method = method, !.body = body, !.contentType = type] :
     url \in Urls \cup OddUrls, method \in Verbs, body \in {<<>>, Body(1, 1)}, type \in {"application/json", "text/plain"}}

Defective ==
  {[Good EXCEPT !.url = url, !.method = method, !.charsOk = chars, !.params = params, !.servicePath = path,
                !.tenant = tenant, !.contentType = type, !.accept = accept, !.body = body, !.kind = kind] :
     url \in {<<"v2", "subscriptions">>, <<"v1", "queryContext">>},
     method \in {"POST", "GET"},
     chars \in BOOLEAN, params \in {"good", "bad"}, path \in {"good", "bad"}, tenant \in {"good", "bad"},
     type \in {"", "application/json", "text/plain"}, accept \in {{"application/json"}, {"image/png"}},
     body \in {<<>>, Body(1, 1), Body(1, 4)}, kind \in {"good", "malformed", "invalid"}}

Sized(id) == {[Good EXCEPT !.body = Body(id, size)] : size \in 1 .. 3}

MCWorkloads ==
  {(c1 :> <<r>>) @@ (c2 :> <<>>) : r \in Routed \cup Defective}
  \cup {(c1 :> <<r, s>>) @@ (c2 :> <<u>>) : r \in Sized(1), s \in Sized(2), u \in Sized(3)}

=============================================================================
