# A TLA+ model of the Orion Context Broker

TLA+ modules that specify the broker, TLC configurations that check them on
small instances, and proofs that TLAPS checks for every instance.
`PROJECT.json` says which lines of the source each definition models, what each
run checks, and which hazards of the code each property is about.

Source paths below are relative to `src/src/` of the repository.

## 1. The system

The broker is one process. A thread of libmicrohttpd handles a request from
beginning to end: `connectionTreat()` gathers and checks it, `restService()`
finds the service routine in a vector, a parser reads the payload, the routine
calls a `mongo*()` function, and the response is rendered. Besides the request
threads there are the *refresher*, which synchronises the subscription cache
with the database every `-subCacheIval` seconds, the workers of the notification
queue or one sender thread per notification, and the log summary.

| shared state | where | guarded by |
|---|---|---|
| pool of MongoDB connections | `lib/mongoBackend/mongoConnectionPool.cpp` | `connectionSem` (counting), `connectionPoolSem` |
| subscription cache, a linked list | `lib/cache/subCache.cpp`, `lib/mongoBackend/mongoSubCache.cpp` | `cacheSem` |
| the `mongo*()` functions | `lib/common/sem.cpp` | `reqSem`, as `-reqMutexPolicy` says (none, read, write, all) |
| the database | MongoDB | operations on one document are atomic |
| notification queue | `lib/common/SyncQOverflow.h`, `lib/ngsiNotify/` | its mutex and condition variable |
| libcurl handles | `lib/common/sem.cpp` | a mutex for the map, one for each handle |
| alarms, counters, transaction number | `lib/alarmMgr`, `lib/ngsiNotify`, `lib/logSummary` | partly a semaphore, partly nothing |
| `static_buffer` | `lib/rest/rest.cpp` | nothing: one per thread |

## 2. Modules

`MC*` modules hold the instances for TLC, `*Proofs` the theorems.

| part | modules | state and actions |
|---|---|---|
| connection pool | `MongoConnectionPool` | slots and both semaphores; get (wait, wait, scan, mark), the operations of `connectionOperations.cpp`, release, and the two early returns that leave it out |
| subscription cache | `SubCacheList`, `SubCache` | documents and items; every request on subscriptions and every update, split at database operations and critical sections; the seven steps of `subCacheSync()`; clock, restarts |
| notifier, queue, alarms, log summary | `Notifications`, `AlarmManager`, `BoundedQueue` | both notification modes, workers, sender threads, counters, transaction number; `BoundedQueue` is the abstract queue |
| outgoing HTTP | `CurlContexts` | the map of handles, both kinds of mutexes, both notification modes |
| entities | `Entities`, `Geo`, `ContextOperations` | the documents; updates and queries, one step per database operation or forwarded request; locations and areas |
| registrations, providers | `Registrations`, `ContextProviders` | what a lookup finds; how a request is split over providers and the answers merged (operators used by the others) |
| service routines, entity types | `ServiceRoutines`, `EntityTypes` | the convenience operations of NGSIv1, the operations of NGSIv2, the queries of types: from a REST request to an operation, and from its response to a status |
| NGSI9 | `Availability`, `AvailabilityRoutines` | registrations and availability subscriptions, one step per database operation; the routines through which they are asked for |
| REST service | `Rest`, `RestServices` | gathering of bodies in pieces, the checks in their order, the vector of services, the replies, the end of a request |
| NGSIv1 payloads | `Json`, `NgsiRender`, `NgsiCheck`, `NgsiParse`, `Federation` | `render()`, `check()` and the parse vectors, token by token; a request on its way to other brokers and back |
| NGSIv2 payloads | `NgsiV2`, `V2Entities`, `Subscriptions` | parse and `toJson()`; an entity through the database and back; a subscription in a broker with a cache and in one without |
| filters | `StringFilter`, `FilterMeaning` | a `q`, its translation for MongoDB, its evaluation by the broker, and its meaning |

### Where steps begin and end

A step is what no other thread can interrupt *visibly*: a critical section, one
database operation, one message. The semaphore `reqSem` is taken with the first
step of an operation and given back with the last. What the code does after it
has left a critical section (`notify_one`, a counter, an alarm) is a step of its
own. Two steps of `mongoUpdateContextSubscription()` touch the cache without
`cacheSem`, as the code does; a pointer to an item that has been deleted
meanwhile hits nothing or any item made since.

`ServiceRoutines` and `AvailabilityRoutines` contribute no steps of their own:
a routine computes the operation before it and the status after it. In
`Subscriptions` and `V2Entities` a request is one step, since they are about
conversions; interleavings are the business of `SubCache` and
`ContextOperations`.

### How the modules abstract

* **Connection pool.** A pointer is the number of its slot, or `NULL` where
  `mongoConnect()` failed (the code stores whatever it returned). What an
  operation does with the data is a step of the modules that use it.
* **Cache.** One sequence of items per subscription id: every search goes by
  id and stops at the first hit. A document and an item keep `count`,
  `lnt` (last notification time), `throttling`, `status` and whether there is a
  filter; an absent field is -1, as the code reads it. `NewItem`, `RefreshedItem`
  and `UpdatedItem` are the three ways in which the code makes an item, and they
  differ. Which subscriptions an update matches is a free choice
  here, and computed in `Subscriptions`. A failing database operation
  changes nothing; a failing refresh leaves out any subset of the documents.
* **Notifications.** A notification is a number and a URL. `INT_MAX`, where the
  transaction number turns around, is a small constant.
* **Entities.** An attribute is keyed by name and ID. The update works on a copy of
  the document and accumulates `$set`, `$unset`, `$push` and `$pull`, which are
  applied to what is stored when the write happens. One subscription to
  everything observes the notifications.
* **Geo.** Points are on a small grid and shapes parallel to the axes; the
  distance is the larger of the differences. MongoDB's operators are external.
* **NGSI9.** One tenant; a registration keeps its service path. The clock moves by
  itself, so documents expire between any two steps.
* **REST.** A URL is the sequence of its components; a body is a sequence of
  units. The three parts that are only checked (URI parameters, service path,
  tenant) are "none", "good" or "bad". `restServiceV` is the vector of the code,
  entry by entry.
* **Payloads.** A text is a sequence of tokens, so a comma too many is a text and not
  an error of the model. boost's `read_json` and rapidjson are external. Strings are
  members of small sets that tell apart what the code tells apart (illegal
  characters, malformed numbers, too long). A number is its text;
  `GetDouble` and `SixDigits` are what rapidjson and `toString()` make of it. A
  string that needs an escape and is written without one is another
  string for the reader, or makes the text no JSON: `Unescaped` says which.
* **Patterns.** Three engines read regular expressions: POSIX (`regcomp()`, in the
  broker), JavaScript (`$where` queries) and PCRE (`$regex`). Which string
  each of them matches with a pattern is a constant, and the instances have
  patterns that they read differently.
* **Filters.** Strings are ranks in the order of `strcmp()`. Memory that the
  code reads without having written it is a free choice (`junk`).

## 3. Runs

Eleven passing runs, with 40 properties, and one that shows a violation.

| run | instance | distinct states |
|---|---|---|
| `pool` | 3 threads, 2 slots, each of which may hold `NULL`, exceptions in queries | 61 thousand |
| `cache_serial` | 2 subscriptions, 2 threads, 4 requests, 1 restart, database failures, policy "all", no refresher | 656 thousand |
| `cache_sync` | 1 subscription, 2 threads, 4 requests, policy "none", refresher | 63 thousand |
| `cache_concurrent` | 1 subscription, 2 threads, 3 requests with PATCHes, failures, policy "none", refresher | 1.3 million |
| `cache_twice` | 1 new subscription, refresher | violation |
| `notifications` | 2 request threads, 2 workers, queue of 2, 7 command lines and fault scenarios | 222 thousand |
| `curl` | 3 threads, 2 receivers, 2 handles, 4 calls | 75 thousand |
| `updates` | 2 threads, 17 scenarios (below) | 1.0 million |
| `subscriptions` | every filter of one or two statements; every entity of a set of payloads; subscriptions with up to 3 operations after the POST | 864 thousand |
| `availability` | 2 threads, 3 requests, 3 policies, clock up to 2 | 2.2 million |
| `rest` | every URL of the vector with every verb; every combination of defects; 3 bodies on 2 connections, on 1 or 2 threads | 105 thousand |
| `federation` | 2130 messages of clients, up to 3 providers | 67 thousand |

What they show:

* **`pool`** No connection is used by two threads (`ExclusiveConnection`). A
  permit is available, held by a thread inside an operation, or lost in one of the
  two places that return without a release, and nowhere else; if every connect
  succeeded, the permits lost are the slots that stay taken for nobody
  (`PermitsAccounted`). Waiting threads are served until every permit is lost
  (`WaitersServed`).
* **`cache_serial`** Cache and database agree whenever no request is between its two
  writes (`CacheMirrorsDb`); only stored and active subscriptions are notified
  (`SendsOnlyStoredActive`), and not before their period is over
  (`ThrottlingRespected`, until a restart).
* **`cache_sync`** Every notification is counted exactly once, in the document,
  in the item, in the vector that `subCacheSync()` saves or in the thread that sent
  it (`CountsConserved`); the counts reach the database (`CountReachesDb`).
* **`cache_concurrent`** No id is cached twice (`OneItemPerSub`) while no
  subscription is made, and what was unsubscribed stays out (`RemovedNotCached`).
* **`cache_twice`** `SyncTerminates` is violated. A refresh between the database
  insert and the cache insert of a new subscription gives two items with one
  id; the next `subCacheSync()` executes `continue` without advancing and
  spins with `cacheSem` taken (`lib/cache/subCache.cpp:1079`). A comment there
  wonders about the double item.
* **`notifications`** The queue implements a bounded FIFO (`ImplementsBoundedQueue`),
  its counters add up although they are changed outside the lock
  (`CountersAddUp`), the alarm of a receiver goes off with the next delivery
  (`AlarmsFollowDelivery`), and no wake-up is lost (`NotificationsProgress`).
* **`curl`** No handle is shared (`HandleExclusive`) or lost (`HandlesAccounted`), and
  every call ends (`SendsEnd`): the two mutexes are never waited for in a circle.
* **`updates`** The parts of a document agree (`DocumentsConsistent`); an
  update does what its action may do and its answer tells it
  (`UpdatesKeepTheirPromise`); whatever the interleaving, no request changes an
  attribute it does not name (`OnlyRequestedWritten`); location and notification
  follow the attributes, the location of an attribute that an UPDATE did not find
  excepted (`DerivedStaysCurrent`); providers are asked what was asked
  and nothing is lost between them (`ForwardedAndAnswered`); queries answer
  exactly what is stored, in an area too (`QueryAnswersStored`); and the status
  that a client sees tells what happened (`AnswersTellTheEffect`, with the refusals
  that three routes lose as exceptions) or what is stored (`GetsTellWhatIsStored`, with the pages of the entity types).
* **`subscriptions`** An entity is read as it was written in every format, its
  numbers rounded to six significant digits (`EntitiesReadBack`). A subscription is told as it was asked for, with its
  counters (`SubscriptionTold`). A broker with a cache and one without notify of
  the same updates (`TriggersAgree`), up to the first update about which the
  module says why they may differ; a pattern that POSIX and JavaScript read
  differently is one of the reasons. A filter means to MongoDB what the API
  reference says (`FiltersMeanWhatIsWritten`), and to the broker what it means to
  MongoDB (`CacheAndMongoAgree`), patterns excepted that POSIX and PCRE read
  differently.
* **`availability`** A subscriber has been told of every provider that a discovery
  would find (`SubscribersKnow`; exceptions are entities without types and patterns
  that JavaScript does not read as `regcomp()` does), the count is the number of notifications
  (`CountsItsNotifications`), and nothing is sent for a removed subscription
  (`NotifiedAreSubscribed`).
* **`rest`** A routine gets its own client's body (`PayloadIntact`), what all
  checks approve is served and nothing else (`ServedIfWellFormed`), and a refusal
  has a fitting status and `Allow` header (`RefusalsFit`).
* **`federation`** Every text is JSON unless a value or an escape is left out, in the
  places that the property names (`TextsAreJson`). Providers understand what was
  meant (`ForwardsAreUnderstood`), and so does the broker that reads their answers
  (`AnswersAreUnderstood`): values as strings, numbers rounded, and ids and types
  as they read without the escapes that `EntityId::render()` does not make. The
  order of members does not matter (`OrderDoesNotMatter`).

Many properties hold under conditions that are part of their definitions
(writers serialised, no database failure, typed entities). The conditions are
where the code promises less; section 6 lists what happens outside them.

### Bounds

`MaxRequests`, `MaxSends`, `MaxOperations`, `MaxTime`, `MaxRestarts` and the
field `maxRequests` of the scenarios bound the workload. Two or three threads
and three or four requests suffice for what happens between two requests, or two
requests and the refresher: they interact only through one document, one item,
one slot or one handle, and the refresher treats subscriptions one by one.
There are always more threads than slots or handles, more notifications than
places in the queue, bodies that fit the static buffer, need the heap and are
too large, and more providers than `cprForwardLimit`. The clock runs long
enough for a throttling period or a registration to expire or not. Threads are
symmetric where no liveness is checked and no thread is special.

The 17 scenarios of `updates`: attributes with IDs, locations, the NGSIv2
flavours, several entities at once, a failing database, no semaphore, areas of
NGSIv1, context providers with and without the semaphore; and for the
REST routines an empty database, one entity, IDs, two entities of one id, a
failing database, a provider, entity types without a semaphore, and geographical
queries of NGSIv2.

### Fairness

* Pool, curl, notifications: weak fairness of every step of a thread that is
  inside an operation. POSIX mutexes and semaphores promise no order among
  waiters, so `WaitersServed` says that *some* waiter is served, and `SendsEnd` rests on
  the calls that overtake a waiter being finitely many. curl is given a
  timeout, hence an outgoing request ends. No fairness for clients, for the
  timer of the summary, or for spurious wake-ups.
* Cache: weak fairness of the steps that need only the processor and of the
  refresher, strong fairness of the steps that wait for `cacheSem`. The refresher
  sleeps between two synchronisations and no other holder keeps the
  semaphore, so a waiter finds it free again and again.
* The other specifications state no fairness, and no liveness is checked of them.
  Deadlock is checked in the cache runs, where an idle broker has the step `Rest`;
  elsewhere the bounded workload ends and the system may stop.

## 4. Proofs

Eight modules prove, for every value of the constants, 19 of the 40 properties
that the runs check, and in addition the type correctness of the pool and of the
cache, and two more invariants. Each proof has the same shape: an inductive
invariant, one lemma per action (or per conjunct that the action can disturb) that
it is kept, and a last step that combines them.

**`MongoConnectionPoolProofs`** (any finite number of threads, any pool size).
`PoolTypeCorrect`, `PoolExclusive`, `PoolPermitsAccounted`, `PoolGetFindsFreeSlot`.
`PoolInv` adds to the properties that at most one thread scans the vector and that
a slot to be marked is still free while one in use is not; without the first,
two threads could choose the same slot. `PermitsBalanced` counts
permits: available, held and lost ones add up to the size of the pool. `AccountInv`
adds, where every connect succeeded, that there are as many free slots as available
permits plus threads that have a permit and no slot yet. That is why a scan finds one, and why the slots that
nobody uses and nobody gives back are as many as the lost permits.

**`SubCacheProofs`** (any subscriptions, threads, requests, policies, failures and
restarts). `SubCacheTypeCorrect` becomes inductive with what the variables of a
handler hold at each place; in particular `cacheSem` is 0 exactly while
`subCacheSync()` works. `SubCacheOneItem` is proved while no subscription is made
(`Stored = Subs`) or without a refresher; `cache_twice` shows that the condition
cannot be dropped. `OneItemInv` adds that ids are given out once, that a
thread going to insert has found no item, and that a refresh starts from an
empty list. `SubCacheRemovedStaysOut`, while no subscription is made: the
document goes before the item and does not come back, so nothing that is read
later has it; that one removal suffices needs `OneItemPerSub`.

**`SubCacheSerialProofs`** (any subscriptions, threads and requests, with failures and
restarts; `ReqSemUsed`, that is policy write or all, and no refresher).
`SubCacheMirrorsDb`, `SubCacheSendsOnlyStoredActive`, `SubCacheThrottlingRespected`.
`SerialInv` says that the request under way has the semaphore (`Serial`);
that each subscription is mirrored unless its request is between its
two writes, and its item knows the last notification unless it is just being
sent or noted (`SubInv`); and, place by place, what the thread's copies have in
common with database and cache (`ThreadInv`). That a step of one request leaves
the others' facts alone follows from `Serial`: there are no others.
The two conditions are needed. Without the semaphore two updates reach the cache in
the other order than the database; with the refresher the item gets an older
time than the last notification.

**`SubCacheCountProofs`** (any subscriptions, any finite set of threads, every policy,
with the refresher). `SubCacheCountsConserved`, while no subscription is made or
rewritten, no database operation fails and nothing restarts. `CountInv` counts a
notification in four places: document, item, saved vector, and threads that have sent
and not noted. It adds that a stored subscription has exactly one item except
between the destruction and the refresh of the list, and that the loop of the
refresher leaves no count behind. Each condition is needed, as the comment at
`Undisturbed` explains: each of the excluded events loses counts, or counts twice.

**`CurlContextsProofs`** (any threads, receivers, handles, calls).
`HandlesAreExclusive`, `HandlesAreAccounted`. The invariant says what a call has
in its hands by how far it has come, that the mutex of a listed handle is held by
its user, that a private handle is in no other hands, and that the map has every
handle once.

**`NotificationsProofs`** (any finite sets of request threads and workers, any queue
size, any receivers and command line). `NotificationsImplementBoundedQueue` is the
refinement: every step is a step of `BoundedQueue` or leaves its
variables alone. `NotificationsCountersAddUp`: `QueueInv` counts what was
pushed, popped and tried, whether it has been counted already or not, and `TurnInv`
relates the transaction number to the one the summary has read, across its
turn at `INT_MAX`. `NotificationsAlarmsBalance`: raised minus released is the
number of alarms that are on, always. `NotificationsAlarmsFollowDelivery` needs
`~UseRush` and `Ipv6 = {}`: with either, one receiver has alarms under two names,
and one of them stays.

**`AvailabilityProofs`** (any finite set of threads, any requests, policies, durations).
`AvailabilityCounts` and `AvailabilityNotifiesSubscribed` rest on `Inv`: the
thread at work has the semaphore and what it read is still stored, and what is
counted plus what is still to be counted is at most (in the serialised case without
failures, exactly) what was sent. `AvailabilitySubscribersKnow` rests on
`KnowInv`: for every subscription that `addTriggeredSubscriptions()` can find
(`Findable`: types given, patterns that mean to JavaScript at least what they mean
to `regcomp()`) and every registration, the subscriber knows all that a discovery
would find of typed entities, or a thread is still going to tell and its query
covers the registration; and the subscriptions that the parts looked at so far
concern have been gathered. Which ids a pattern matches is arbitrary, for each of
the engines.

**`RestProofs`** (any connections, threads, URLs, headers, bodies and sizes of the
buffers). `RestPayloadIntact`, `RestServedIfWellFormed`, `RestRefusalsFit`. The
invariant `ConnInv` is one of a connection, its heap buffer and its thread's
buffer: how much is gathered and where, that the buffer holds that much of the
body, and what the reply says once there is one. The checks are argued in
their order, each from which fields of the `ConnectionInfo` it may set. About the
service vector the proof uses only `EntriesAssumption` and `OrderAssumption`: the
entries for every verb are the refusals, a refusal hides no later service unless an
earlier one has its verb, and the verbs that it announces are those of the earlier
services. Both are closed statements about the vector as written in
`RestServices`, and TLC evaluates them in the run `rest`.

The other assumptions are the types of the constants, finiteness of the sets of
threads where threads are counted, and (`SubCacheAssumption`) that no throttling
period is longer than the time since 1970. TLC evaluates each of them in the
runs of its module.

### Only model-checked

* `WaitersServed`, `CountReachesDb`, `SyncTerminates`, `NotificationsProgress`,
  `SendsEnd`: liveness under fairness is out of the prover's reach.
* The properties of `subscriptions` and `federation`: their modules define
  parsers, renderers and filters by recursion over the payload, and what a recursive
  definition computes for every input needs induction over data, which the
  installed provers cannot instantiate. (SMT is not available in modules
  with recursive operators at all.)
* The properties of `updates`: `ServiceRoutines`, `EntityTypes` and
  `ContextOperations` are not recursive, but the fold over the attributes of a request
  (`processContextAttributeVector()`) is the heart of each of these properties, and a
  statement about it for request vectors of any length is again induction over
  data.

## 5. Mutants

Definitions marked "Mutant" are deliberately wrong versions of the definition
that follows them: a dropped guard, a missing reset, a swapped order. With one in
the place of the other TLC finds a property violated; `PROJECT.json` lists which.
No specification uses them.

## 6. Where the code promises less

What was met while modelling, and is in the models: the conditions in the
properties exclude these cases, and each is a behaviour of the modelled code.

Subscriptions and cache:

* An operation that gets a `NULL` connection keeps its permit
  (`connectionOperations.cpp:320`), and `entitiesQuery()` keeps connection and permit
  after an exception while it reads the results (`MongoGlobal.cpp:1236`). After as
  many of these as there are permits every request waits for ever.
* `subCacheSync()` does not put a newer time back into the item (step 3.1 of its
  comment, `subCache.cpp:1043`): an update before the next synchronisation is not throttled.
  A crash loses the counts and times that are only in the cache.
* The initial notification is counted twice, in the document and in the item
  (`mongoSubscribeContext.cpp:203`, `241`). A PATCH that sends none forgets the
  notifications that only the item has counted, when the document has no count
  (`mongoUpdateContextSubscription.cpp:421`, `457`), and resets the format. A POST
  that cannot be stored has sent its notification already.
* The cached filter is lost by a refresh, and by a PATCH without `q`; a PATCH keeps the
  item's old service path. A throttling of 1 is ignored without the cache
  (`MongoCommonUpdate.cpp:1467`).
* Without the cache, the id and the type of an update may match different
  elements of a subscription; with it, an update without type matches any type.
* A pattern is a POSIX basic expression for the cache (`subCache.cpp:83`) and a
  JavaScript one without it (`MongoCommonUpdate.cpp:1183`): `a+` and `[[:alpha:]]` are
  two things.

Filters: `>=` and `<=` are "not less" and "not greater", so incompatible types match;
a number is compared that was never set (`ContextAttribute.cpp:255`); the evaluation
stops at the first pattern (`StringFilter.cpp:1299`); `~=` is POSIX for the broker
(`StringFilter.cpp:142`) and PCRE for MongoDB, and a pattern that only PCRE allows is
refused.

Entities and routines:

* `PATCH` of existing and new attributes answers 204 after a part was done
  (`patchEntity.cpp:88`); a refused `append` may answer 204; `POST /v2/entities` may
  answer 200 to an internal error; `GET /v2/entities` answers 200 and an empty list
  when the database fails. So does `/v2/types`; a type whose query fails is 404.
* An update of stored attributes and of others that are not, refused because of bad
  coordinates, gets an `Ok` for the stored ones all the same: the `PUT`s of NGSIv1 and
  `PATCH` of NGSIv2 answer a success and nothing was written.
* An UPDATE that finds one attribute and not another writes the location of the one
  it did not find (`MongoCommonUpdate.cpp:1787`).
* Untyped entities are always counted 0 in the lists of types
  (`mongoQueryTypes.cpp:131`), and the empty type comes last on its page.
* Two typed GET paths use the type of the URI parameter, not that of the path.
* `geometry` and `coords` without `georel` are accepted and ignored.
  `georel=equals` with a box never finds a stored box of the same corners: the two places
  write the corners in different orders. A location attribute that is appended
  again keeps its old coordinates. Scopes after the first area are ignored.

NGSI9: untyped subscriptions are never triggered, nor are those with a pattern that
only `regcomp()` matches; a registered entity without a type is found by a discovery
for any type, but triggers no typed subscription; a notification has all the
entities of the registration; the POSTs by entity id register entities
without types, and `contextEntityTypes` one with an empty id; the scope that
`exist` adds to a subscription is never read; without the semaphore counts are lost, a
notification may follow an unsubscription, and a subscription made between
lookup and store is never told.

REST: with `-reqPoolSize`, connections share a thread's `static_buffer`
(`rest.cpp:1056`); `PUT /v1/admin/log/trace/x` is never served; an entity type named
"attributes" is hidden by another service; a subscription that only
`SubscribeContextRequest::check()` refuses is answered 200.

Payloads: an update response with an attribute without value is not JSON;
`attributeFormat=object` makes forwarded requests unreadable; metadata that are
numbers, some `isPattern` and compound values are lost between brokers; the error of one
provider stays in the `ConnectionInfo` when the next answer is read; attributes
beyond `cprForwardLimit` vanish; numbers are written with six significant digits
(`common/string.h:169`: 1234567.8 becomes 1.23457e+06); `EntityId::render()` does not
escape a backslash, so an id with one makes the text no JSON, or is another
id for the reader; neither are keys escaped; NGSIv2 does not escape strings, splits names at "__"
and turns "=" into "."; a subscription as rendered, with `id` and `idPattern`, is refused
when posted again.

## 7. What is not modelled

* Logging, argument parsing, tracing, daemonising, the start of libmicrohttpd, the
  root URL, the requests of debug builds: pure I/O or support.
* The GET routines of NGSI9 (discovery itself is an operator of `Availability`),
  the NGSIv2 entry points and registrations.
* Sort orders of queries; GeoJSON locations (`geo:json`); real distances.
* The composition of pool and cache: the refresher waits for a connection while it has
  `cacheSem`, and no thread keeps a connection while it waits for `cacheSem`.
* Subscriptions whose pattern `regcomp()` or JavaScript refuses as malformed, and the
  answer `text/plain` of a value (which prints numbers with `%f`).
* What a write through a deleted cache item does to the heap.
* Several brokers on one database.

## 8. Running

    tlc -config MCSubCacheSerial.cfg MCSubCache
    tlc -config MCServiceRoutines.cfg MCServiceRoutines
    tlapm RestProofs.tla

The configuration of each run is in `PROJECT.json`; all take less than five
minutes. The longest proof takes about ten. The line
`USE ZenonT(6), SMTT(15)` of each proof module sets the provers and the time that a step gets.
