-------------------------- MODULE ContextProviders --------------------------
(***************************************************************************)
(* Registrations of context providers and their use by updates and         *)
(* queries: registrationsQuery() and the lookups of MongoGlobal.cpp (see   *)
(* Registrations for what one registration contributes),                   *)
(* searchContextProviders() of MongoCommonUpdate.cpp, the provider part of *)
(* mongoQueryContext.cpp, and the sorting of what is forwarded to whom in  *)
(* serviceRoutines/postUpdateContext.cpp and postQueryContext.cpp.         *)
(*                                                                         *)
(* A context element response (CER) is a record                            *)
(*   [en, attrs, apps, status, prune]                                      *)
(* where attrs is a sequence of [name, found, app].                        *)
(***************************************************************************)
EXTENDS Registrations, SequencesExt

registrationsQuery(regs, enV, attrL) ==
  LET found == SelectSeq(regs, LAMBDA reg : selected(reg.entities, reg.attrs, Elements(enV), attrL))
  IN  [i \in DOMAIN found |-> processContextRegistrationElement(found[i], Elements(enV), attrL)]

(***************************************************************************)
(* The provider of an attribute: the first registration of the attribute,  *)
(* or else the last one of the whole entity.                               *)
(***************************************************************************)
regEntityMatches(en, crr) ==
  \E re \in crr.entities : re.id = en.id /\ re.type \in {"", en.type}

cprLookupByAttribute(en, name, crrV) ==
  LET perEnt == SelectSeq(crrV, LAMBDA c : regEntityMatches(en, c) /\ c.attrs = {})
      perAttr == SelectSeq(crrV, LAMBDA c : regEntityMatches(en, c) /\ name \in c.attrs)
  IN  CASE perAttr # <<>> -> perAttr[1].app
        [] perAttr = <<>> /\ perEnt # <<>> -> perEnt[Len(perEnt)].app
        [] OTHER -> ""

someContextElementNotFound(cer) == \E i \in DOMAIN cer.attrs : ~cer.attrs[i].found

\* Mutant: a provider is looked for although the attribute is stored.
FillFoundToo(cer, crrV) ==
  [cer EXCEPT !.attrs =
     [i \in DOMAIN @ |->
        LET app == cprLookupByAttribute(cer.en, @[i].name, crrV)
        IN  [@[i] EXCEPT !.app = app, !.found = @ \/ app # ""]]]

fillContextProviders(cer, crrV) ==
  [cer EXCEPT !.attrs =
     [i \in DOMAIN @ |->
        LET app == cprLookupByAttribute(cer.en, @[i].name, crrV)
        IN  IF @[i].found THEN @[i] ELSE [@[i] EXCEPT !.app = app, !.found = app # ""]]]

\* Of one CER of an update: first in the registrations of the attributes,
\* then in those of the whole entity.
searchContextProviders(regs, en, names, cer) ==
  LET search(c, attrL) ==
        IF someContextElementNotFound(c)
        THEN fillContextProviders(c, registrationsQuery(regs, <<en>>, attrL))
        ELSE c
  IN  search(search(cer, names), {})

\* Something of the response has to be forwarded.
forwardsPending(cerV) ==
  \E c \in Elements(cerV) :
    c.apps # <<>> \/ \E i \in DOMAIN c.attrs : c.attrs[i].app # ""

(***************************************************************************)
(* Queries: the CERs of the local entities are completed with the          *)
(* providers, and the empty ones pruned.                                   *)
(***************************************************************************)
CerOf(en, attrs, apps, prune) ==
  [en |-> en, attrs |-> attrs, apps |-> apps, status |-> "Ok", prune |-> prune]

cerIndex(cerV, en) ==
  {i \in DOMAIN cerV : cerV[i].en.id = en.id /\ cerV[i].en.type = en.type}

addContextProviderEntity(cerV, en, app) ==
  IF cerIndex(cerV, en) = {}
  THEN Append(cerV, CerOf(en, <<>>, <<app>>, FALSE))
  ELSE LET i == CHOOSE j \in cerIndex(cerV, en) : \A k \in cerIndex(cerV, en) : j <= k
       IN  [cerV EXCEPT ![i].apps = Append(@, app)]

addContextProviderAttribute(cerV, en, name, app, limitReached) ==
  LET new == [name |-> name, found |-> TRUE, app |-> app]
      i == CHOOSE j \in cerIndex(cerV, en) : \A k \in cerIndex(cerV, en) : j <= k
  IN  CASE cerIndex(cerV, en) = {} /\ limitReached -> cerV
        [] cerIndex(cerV, en) = {} /\ ~limitReached ->
             Append(cerV, CerOf(en, <<new>>, <<>>, FALSE))
        [] OTHER ->
             IF \E a \in Elements(cerV[i].attrs) : a.name = name
             THEN cerV
             ELSE [cerV EXCEPT ![i].attrs = Append(@, new)]

addContextProviders(cerV, crrV, limitReached) ==
  LET ofEntity(app, acc, en) ==
        IF limitReached THEN acc ELSE addContextProviderEntity(acc, en, app)
      ofAttribute(app, acc, p) ==
        addContextProviderAttribute(acc, p[1], p[2], app, limitReached)
      ofCrr(acc, c) ==
        IF c.attrs = {}
        THEN FoldLeft(LAMBDA a, en : ofEntity(c.app, a, en), acc, SetToSeq(c.entities))
        ELSE FoldLeft(LAMBDA a, p : ofAttribute(c.app, a, p), acc,
                      SetToSeq(c.entities \X c.attrs))
  IN  FoldLeft(ofCrr, cerV, crrV)

\* Only the entities without a type, or with a pattern, get more providers.
processGenericEntities(enV, cerV, crrV, limitReached) ==
  LET generic == SelectSeq(enV, LAMBDA en : en.type = "" \/ en.isPattern)
      step(acc, en) ==
        addContextProviders(acc,
          SelectSeq(crrV, LAMBDA c : \E re \in c.entities : matchEntity(re, en)), limitReached)
  IN  FoldLeft(step, cerV, generic)

pruneContextElements(cerV) ==
  LET pruned == [i \in DOMAIN cerV |->
                   [cerV[i] EXCEPT !.attrs = SelectSeq(@, LAMBDA a : a.found)]]
  IN  SelectSeq(pruned, LAMBDA c : ~(c.prune /\ c.attrs = <<>> /\ c.apps = <<>>))

someNotFound(cerV) == \E c \in Elements(cerV) : someContextElementNotFound(c)
fillAll(cerV, crrV) == [i \in DOMAIN cerV |-> fillContextProviders(cerV[i], crrV)]

\* The lookups of mongoQueryContext(), in their order, on the local CERs: of the
\* generic entities when nothing is local, of the attributes not found, again in
\* the registrations of whole entities, and of all when no attribute is named.
completeWithProviders(regs, enV, attrL, local, limitReached) ==
  LET generic(cerV, crrV) ==
        IF cerV = <<>> THEN processGenericEntities(enV, cerV, crrV, limitReached) ELSE cerV
      byAttribute(cerV, crrV) ==
        IF someNotFound(cerV) /\ crrV # <<>>
        THEN processGenericEntities(enV, fillAll(cerV, crrV), crrV, limitReached)
        ELSE cerV
      byEntity(cerV) == IF someNotFound(cerV) THEN fillAll(cerV, registrationsQuery(regs, enV, {})) ELSE cerV
      unnamed(cerV, crrV) == IF attrL = {} THEN addContextProviders(cerV, crrV, limitReached) ELSE cerV
      complete(crrV) == unnamed(byEntity(byAttribute(generic(local, crrV), crrV)), crrV)
  IN  pruneContextElements(complete(registrationsQuery(regs, enV, attrL)))

(***************************************************************************)
(* What an update forwards.  A part is one attribute of one entity of the  *)
(* response: [en, name, found, app, value].                                *)
(***************************************************************************)
founds(cer, yes) == SelectSeq(cer.attrs, LAMBDA a : a.found = yes)

\* The not found attributes get a response of their own.
foundAndNotFoundAttributeSeparation(cerV) ==
  LET mixed(c) == founds(c, TRUE) # <<>> /\ founds(c, FALSE) # <<>>
      fixed(c) ==
        CASE mixed(c) -> [c EXCEPT !.status = "Ok", !.attrs = founds(c, TRUE)]
          [] ~mixed(c) /\ founds(c, FALSE) # <<>> /\ c.status \in {"Ok", "None"} ->
               [c EXCEPT !.status = "ContextElementNotFound"]
          [] OTHER -> c
      mixedOnes == SelectSeq(cerV, mixed)
  IN  [i \in DOMAIN cerV |-> fixed(cerV[i])]
        \o [i \in DOMAIN mixedOnes |->
             [mixedOnes[i] EXCEPT !.status = "ContextElementNotFound",
                                  !.attrs = founds(mixedOnes[i], FALSE)]]

\* Mutant: the value is that of the first attribute of the entity.
LookupFirst(elements, en, name, none) ==
  LET of == SelectSeq(elements, LAMBDA e : e.id = en.id /\ e.type = en.type)
  IN  IF of = <<>> THEN none ELSE of[1].attrs[1].value

\* The value the request gives to an attribute of an entity of the response;
\* the attributes of the response have none of their own.
attributeLookup(elements, en, name, none) ==
  LET of == SelectSeq(elements,
              LAMBDA e : /\ e.id = en.id
                         /\ e.type = en.type
                         /\ \E a \in Elements(e.attrs) : a.name = name)
  IN  IF of = <<>>
      THEN none
      ELSE SelectSeq(of[1].attrs, LAMBDA a : a.name = name)[1].value

forwardParts(cerV, elements, none) ==
  LET parts(c) == [i \in DOMAIN c.attrs |->
                     [en    |-> c.en,
                      name  |-> c.attrs[i].name,
                      found |-> c.attrs[i].found,
                      app   |-> c.attrs[i].app,
                      value |-> attributeLookup(elements, c.en, c.attrs[i].name, none)]]
  IN  FlattenSeq([i \in DOMAIN cerV |-> parts(cerV[i])])

\* One request per provider, in the order of their first attribute.
providersOf(parts) ==
  FoldLeft(LAMBDA acc, p : IF p.app = "" \/ p.app \in Elements(acc) THEN acc ELSE Append(acc, p.app),
           <<>>, parts)

(***************************************************************************)
(* What a query forwards: a sequence of requests [app, en, attrs], attrs   *)
(* empty for all the attributes of the entity.                             *)
(***************************************************************************)
queryLookup(requestV, app, en) ==
  {i \in DOMAIN requestV :
     /\ requestV[i].app = app
     /\ requestV[i].en.id = en.id
     /\ en.type \in {"", requestV[i].en.type}}

queryRequests(cerV, attrL) ==
  LET ofEntity(acc, c) ==
        acc \o [i \in DOMAIN c.apps |-> [app |-> c.apps[i], en |-> c.en, attrs |-> attrL]]
      ofAttribute(en, acc, a) ==
        LET at == queryLookup(acc, a.app, en)
        IN  CASE a.app = "" -> acc
              [] a.app # "" /\ at = {} ->
                   Append(acc, [app |-> a.app, en |-> en, attrs |-> {a.name}])
              [] OTHER ->
                   [acc EXCEPT ![CHOOSE i \in at : \A j \in at : i <= j].attrs = @ \cup {a.name}]
      ofCer(acc, c) ==
        FoldLeft(LAMBDA r, a : ofAttribute(c.en, r, a), ofEntity(acc, c), c.attrs)
  IN  FoldLeft(ofCer, <<>>, cerV)
=============================================================================
