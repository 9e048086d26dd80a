---------------------------- MODULE RestServices ----------------------------
(***************************************************************************)
(* The services of the broker: the vector restServiceV of                  *)
(* contextBroker.cpp, the verbs that the badVerb routines announce, and    *)
(* the table of parsers of jsonRequest.cpp.  A URL is the sequence of its  *)
(* components, in one case: restService() compares them without regard to  *)
(* it.                                                                     *)
(***************************************************************************)
EXTENDS Sequences, Naturals

\* The services at one URL: pairs of a verb and the routine that treats it.
Service(request, compV, treats) ==
  [i \in DOMAIN treats |->
     [verb |-> treats[i][1], request |-> request, compV |-> compV, treat |-> treats[i][2]]]

Get(treat) == <<"GET", treat>>
Put(treat) == <<"PUT", treat>>
Post(treat) == <<"POST", treat>>
Delete(treat) == <<"DELETE", treat>>
Patch(treat) == <<"PATCH", treat>>
AnyVerb(treat) == <<"*", treat>>

GetOnly(treat) == <<Get(treat), AnyVerb("badVerbGetOnly")>>
PostOnly(treat) == <<Post(treat), AnyVerb("badVerbPostOnly")>>
GetPostOnly(get, post) == <<Get(get), Post(post), AnyVerb("badVerbGetPostOnly")>>

GetDeleteOnly(treat) == <<Get(treat), Delete(treat), AnyVerb("badVerbGetDeleteOnly")>>
PutDeleteOnly(put, delete) == <<Put(put), Delete(delete), AnyVerb("badVerbPutDeleteOnly")>>
AllFour(get, put, post, delete) == <<Get(get), Put(put), Post(post), Delete(delete), AnyVerb("badVerbAllFour")>>

Entity == <<"v2", "entities", "*">>
Attrs == Entity \o <<"attrs">>

API_V2 ==
  Service("EntryPointsRequest", <<"v2">>, GetOnly("entryPointsTreat"))
  \o Service("EntitiesRequest", <<"v2", "entities">>, GetPostOnly("getEntities", "postEntities"))
  \o Service("EntityRequest", Entity, <<Get("getEntity"), Delete("deleteEntity"), AnyVerb("badVerbGetDeleteOnly")>>)
  \o Service("EntityRequest", Attrs,
             <<Get("getEntity"), Post("postEntity"), Put("putEntity"), Patch("patchEntity"), AnyVerb("badVerbAllNotDelete")>>)
  \o Service("EntityAttributeValueRequest", Attrs \o <<"*", "value">>,
             <<Get("getEntityAttributeValue"), Put("putEntityAttributeValue"), AnyVerb("badVerbGetPutOnly")>>)
  \o Service("EntityAttributeRequest", Attrs \o <<"*">>,
             <<Get("getEntityAttribute"), Put("putEntityAttribute"), Delete("deleteEntity"),
               AnyVerb("badVerbGetPutDeleteOnly")>>)
  \o Service("EntityTypeRequest", <<"v2", "types", "*">>, GetOnly("getEntityType"))
  \o Service("EntityAllTypesRequest", <<"v2", "types">>, GetOnly("getEntityAllTypes"))
  \o Service("SubscriptionsRequest", <<"v2", "subscriptions">>, GetPostOnly("getAllSubscriptions", "postSubscriptions"))
  \o Service("IndividualSubscriptionRequest", <<"v2", "subscriptions", "*">>,
             <<Get("getSubscription"), Delete("deleteSubscription"), Patch("patchSubscription"),
               AnyVerb("badVerbGetDeletePatchOnly")>>)
  \o Service("BatchQueryRequest", <<"v2", "op", "query">>, PostOnly("postBatchQuery"))
  \o Service("BatchUpdateRequest", <<"v2", "op", "update">>, PostOnly("postBatchUpdate"))

\* REGISTRY_STANDARD_REQUESTS_V0 and _V1: below /ngsi9 and below /v1/registry
RegistryStandardRequests(prefix) ==
  Service("RegisterContext", prefix \o <<"registerContext">>, PostOnly("postRegisterContext"))
  \o Service("DiscoverContextAvailability", prefix \o <<"discoverContextAvailability">>,
             PostOnly("postDiscoverContextAvailability"))
  \o Service("SubscribeContextAvailability", prefix \o <<"subscribeContextAvailability">>,
             PostOnly("postSubscribeContextAvailability"))
  \o Service("UnsubscribeContextAvailability", prefix \o <<"unsubscribeContextAvailability">>,
             PostOnly("postUnsubscribeContextAvailability"))
  \o Service("UpdateContextAvailabilitySubscription", prefix \o <<"updateContextAvailabilitySubscription">>,
             PostOnly("postUpdateContextAvailabilitySubscription"))
  \o Service("NotifyContextAvailability", prefix \o <<"notifyContextAvailability">>,
             PostOnly("postNotifyContextAvailability"))

\* STANDARD_REQUESTS_V0 and _V1: below /ngsi10 and below /v1
StandardRequests(prefix) ==
  Service("UpdateContext", prefix \o <<"updateContext">>, PostOnly("postUpdateContext"))
  \o Service("QueryContext", prefix \o <<"queryContext">>, PostOnly("postQueryContext"))
  \o Service("SubscribeContext", prefix \o <<"subscribeContext">>, PostOnly("postSubscribeContext"))
  \o Service("UpdateContextSubscription", prefix \o <<"updateContextSubscription">>,
             PostOnly("postUpdateContextSubscription"))
  \o Service("UnsubscribeContext", prefix \o <<"unsubscribeContext">>, PostOnly("postUnsubscribeContext"))
  \o Service("NotifyContext", prefix \o <<"notifyContext">>, PostOnly("postNotifyContext"))

\* REGISTRY_CONVENIENCE_OPERATIONS_V0 and _V1, which differ in one routine
RegistryConvenienceOperations(prefix, subscribe) ==
  LET entity == prefix \o <<"contextEntities", "*">>
      type == prefix \o <<"contextEntityTypes", "*">>
      subscriptions == prefix \o <<"contextAvailabilitySubscriptions">>
  IN  Service("ContextEntitiesByEntityId", entity,
              GetPostOnly("getContextEntitiesByEntityId", "postContextEntitiesByEntityId"))
      \o Service("ContextEntityAttributes", entity \o <<"attributes">>,
                 GetPostOnly("getContextEntityAttributes", "postContextEntityAttributes"))
      \o Service("EntityByIdAttributeByName", entity \o <<"attributes", "*">>,
                 GetPostOnly("getEntityByIdAttributeByName", "postEntityByIdAttributeByName"))
      \o Service("ContextEntityTypes", type, GetPostOnly("getContextEntityTypes", "postContextEntityTypes"))
      \o Service("ContextEntityTypeAttributeContainer", type \o <<"attributes">>,
                 GetPostOnly("getContextEntityTypes", "postContextEntityTypes"))
      \o Service("ContextEntityTypeAttribute", type \o <<"attributes", "*">>,
                 GetPostOnly("getContextEntityTypeAttribute", "postContextEntityTypeAttribute"))
      \o Service("SubscribeContextAvailability", subscriptions, PostOnly(subscribe))
      \o Service("Ngsi9SubscriptionsConvOp", subscriptions \o <<"*">>,
                 PutDeleteOnly("putAvailabilitySubscriptionConvOp", "deleteAvailabilitySubscriptionConvOp"))

\* CONVENIENCE_OPERATIONS_V0, and the first part of CONVENIENCE_OPERATIONS_V1
ConvenienceOperations(prefix) ==
  LET entity == prefix \o <<"contextEntities", "*">>
      type == prefix \o <<"contextEntityTypes", "*">>
      subscriptions == prefix \o <<"contextSubscriptions">>
      individual == AllFour("getIndividualContextEntity", "putIndividualContextEntity",
                            "postIndividualContextEntity", "deleteIndividualContextEntity")
  IN  Service("IndividualContextEntity", entity, individual)
      \o Service("IndividualContextEntityAttributes", entity \o <<"attributes">>, individual)
      \o Service("IndividualContextEntityAttribute", entity \o <<"attributes", "*">>,
                 AllFour("getIndividualContextEntityAttribute", "putIndividualContextEntityAttribute",
                         "postIndividualContextEntityAttribute", "deleteIndividualContextEntityAttribute"))
      \o Service("AttributeValueInstance", entity \o <<"attributes", "*", "*">>,
                 <<Get("getAttributeValueInstance"), Put("putAttributeValueInstance"),
                   Delete("deleteAttributeValueInstance"), AnyVerb("badVerbGetPutDeleteOnly")>>)
      \o Service("Ngsi10ContextEntityTypes", type, GetOnly("getNgsi10ContextEntityTypes"))
      \o Service("Ngsi10ContextEntityTypesAttributeContainer", type \o <<"attributes">>,
                 GetOnly("getNgsi10ContextEntityTypes"))
      \o Service("Ngsi10ContextEntityTypesAttribute", type \o <<"attributes", "*">>,
                 GetOnly("getNgsi10ContextEntityTypesAttribute"))
      \o Service("SubscribeContext", subscriptions, PostOnly("postSubscribeContextConvOp"))
      \o Service("Ngsi10SubscriptionsConvOp", subscriptions \o <<"*">>,
                 PutDeleteOnly("putSubscriptionConvOp", "deleteSubscriptionConvOp"))

\* The rest of CONVENIENCE_OPERATIONS_V1: entity types, and entities with a type
TypedOperations ==
  LET typed == <<"v1", "contextEntities", "type", "*", "id", "*">>
      registered == <<"v1", "registry", "contextEntities", "type", "*", "id", "*">>
  IN  Service("EntityTypes", <<"v1", "contextTypes">>, GetOnly("getEntityTypes"))
      \o Service("AttributesForEntityType", <<"v1", "contextTypes", "*">>, GetOnly("getAttributesForEntityType"))
      \o Service("AllContextEntities", <<"v1", "contextEntities">>,
                 GetPostOnly("getAllContextEntities", "postIndividualContextEntity"))
      \o Service("AllEntitiesWithTypeAndId", typed,
                 AllFour("getAllEntitiesWithTypeAndId", "putAllEntitiesWithTypeAndId",
                         "postAllEntitiesWithTypeAndId", "deleteAllEntitiesWithTypeAndId"))
      \o Service("IndividualContextEntityAttributeWithTypeAndId", typed \o <<"attributes", "*">>,
                 AllFour("getIndividualContextEntityAttributeWithTypeAndId",
                         "putIndividualContextEntityAttributeWithTypeAndId",
                         "postIndividualContextEntityAttributeWithTypeAndId",
                         "deleteIndividualContextEntityAttributeWithTypeAndId"))
      \o Service("AttributeValueInstanceWithTypeAndId", typed \o <<"attributes", "*", "*">>,
                 AllFour("getAttributeValueInstanceWithTypeAndId", "putAttributeValueInstanceWithTypeAndId",
                         "postAttributeValueInstanceWithTypeAndId", "deleteAttributeValueInstanceWithTypeAndId"))
      \o Service("ContextEntitiesByEntityIdAndType", registered,
                 GetPostOnly("getContextEntitiesByEntityIdAndType", "postContextEntitiesByEntityIdAndType"))
      \o Service("EntityByIdAttributeByNameIdAndType", registered \o <<"attributes", "*">>,
                 GetPostOnly("getEntityByIdAttributeByNameWithTypeAndId", "postEntityByIdAttributeByNameWithTypeAndId"))

\* LOG_REQUESTS_V0 (no prefix) and _V1 (below /v1/admin); the next two likewise
LogRequests(prefix) ==
  LET trace(name) ==
        Service("LogTraceRequest", prefix \o <<"log", name>>, GetDeleteOnly("logTraceTreat"))
        \o Service("LogTraceRequest", prefix \o <<"log", name, "*">>, PutDeleteOnly("logTraceTreat", "logTraceTreat"))
  IN  trace("trace") \o trace("traceLevel")

StatRequests(prefix) == Service("StatisticsRequest", prefix \o <<"statistics">>, GetDeleteOnly("statisticsTreat"))

StatCacheRequests(prefix) ==
  Service("StatisticsRequest", prefix \o <<"cache", "statistics">>, GetDeleteOnly("statisticsCacheTreat"))

VERSION_REQUESTS == Service("VersionRequest", <<"version">>, GetOnly("versionTreat"))

LOGLEVEL_REQUESTS_V2 ==
  Service("LogLevelRequest", <<"admin", "log">>, <<Put("logLevelTreat"), AnyVerb("badVerbPutOnly")>>)

\* The last entry has no number of components: it stands for any URL of at
\* most six of them.
INVALID_REQUESTS ==
  Service("InvalidRequest", <<"ngsi9", "*">>, <<AnyVerb("badNgsi9Request")>>)
  \o Service("InvalidRequest", <<"ngsi10", "*">>, <<AnyVerb("badNgsi10Request")>>)
  \o Service("InvalidRequest", <<>>, <<AnyVerb("badRequest")>>)

\* Of a build without DEBUG: no exit and no leak requests.
restServiceV ==
  API_V2
  \o RegistryStandardRequests(<<"ngsi9">>)
  \o RegistryStandardRequests(<<"v1", "registry">>)
  \o StandardRequests(<<"ngsi10">>)
  \o StandardRequests(<<"v1">>)
  \o RegistryConvenienceOperations(<<"ngsi9">>, "postSubscribeContextAvailabilityConvOp")
  \o RegistryConvenienceOperations(<<"v1", "registry">>, "postSubscribeContextAvailability")
  \o ConvenienceOperations(<<"ngsi10">>)
  \o ConvenienceOperations(<<"v1">>)
  \o TypedOperations
  \o LogRequests(<<>>)
  \o LogRequests(<<"v1", "admin">>)
  \o StatRequests(<<>>)
  \o StatRequests(<<"v1", "admin">>)
  \o StatCacheRequests(<<>>)
  \o StatCacheRequests(<<"v1", "admin">>)
  \o VERSION_REQUESTS
  \o LOGLEVEL_REQUESTS_V2
  \o INVALID_REQUESTS

-----------------------------------------------------------------------------
\* The Allow header of a badVerb routine's answer.
Allow ==
  [badVerbAllFour |-> {"POST", "GET", "PUT", "DELETE"},
   badVerbAllNotDelete |-> {"GET", "PATCH", "POST", "PUT"},
   badVerbGetDeleteOnly |-> {"GET", "DELETE"},
   badVerbGetDeletePatchOnly |-> {"GET", "DELETE", "PATCH"},
   badVerbGetOnly |-> {"GET"},
   badVerbGetPostOnly |-> {"POST", "GET"},
   badVerbGetPutDeleteOnly |-> {"GET", "PUT", "DELETE"},
   badVerbGetPutOnly |-> {"GET", "PUT"},
   badVerbPostOnly |-> {"POST"},
   badVerbPutDeleteOnly |-> {"PUT", "DELETE"},
   badVerbPutOnly |-> {"PUT"}]

\* The table jsonRequest[]: the methods that a request type's NGSIv1 payload
\* can be parsed for.  An entry "*" stands for the method named "*": the
\* lookup compares the methods for equality.
jsonRequest ==
  {<<type, "POST">> :
     type \in {"RegisterContext", "DiscoverContextAvailability", "SubscribeContextAvailability",
               "UnsubscribeContextAvailability", "NotifyContextAvailability", "UpdateContextAvailabilitySubscription",
               "QueryContext", "UpdateContext", "SubscribeContext", "NotifyContext", "UnsubscribeContext",
               "UpdateContextSubscription", "AllContextEntities", "ContextEntitiesByEntityIdAndType",
               "EntityByIdAttributeByNameIdAndType"}}
  \cup {<<type, method>> :
          type \in {"ContextEntitiesByEntityId", "EntityByIdAttributeByName", "ContextEntityAttributes",
                    "ContextEntityTypeAttributeContainer", "ContextEntityTypeAttribute", "ContextEntityTypes"},
          method \in {"POST", "*"}}
  \cup {<<type, method>> :
          type \in {"IndividualContextEntity", "IndividualContextEntityAttribute", "IndividualContextEntityAttributes",
                    "AllEntitiesWithTypeAndId", "IndividualContextEntityAttributeWithTypeAndId",
                    "AttributeValueInstanceWithTypeAndId"},
          method \in {"PUT", "POST"}}
  \cup {<<type, "PUT">> :
          type \in {"Ngsi9SubscriptionsConvOp", "AttributeValueInstance", "Ngsi10SubscriptionsConvOp"}}
  \cup {<<"AllEntitiesWithTypeAndId", "*">>}

\* The request types that jsonRequestTreat() and textRequestTreat() parse, the
\* NGSIv2 payloads in JSON and the payloads in plain text.
JsonRequestTypes ==
  {"EntitiesRequest", "EntityRequest", "EntityAttributeRequest", "EntityAttributeValueRequest",
   "SubscriptionsRequest", "IndividualSubscriptionRequest", "BatchQueryRequest", "BatchUpdateRequest"}

TextRequestTypes == {"EntityAttributeValueRequest"}

=============================================================================
