# A TLA+ model of the chat service

The program is a NestJS service: applications contain numbered chats, chats
contain numbered messages. A POST takes a number from Redis, publishes an event
to RabbitMQ and answers at once; consumers write the row to MySQL and count it
in Redis; cron jobs copy the counters to MySQL columns. This directory holds the
TLA+ modules that model it, the TLC configurations that check them, and the
theorems that TLAPS proves. Paths below are relative to the repository
(`src/chat/...` is the TypeScript code).

## 1. Inventory

### Components

| Component | State | Operations |
|---|---|---|
| Application registry: `services/app.service.ts`, `app.repository.ts` | MySQL `apps` (token unique, name, chat_count) | create (up to ten tokens), find, PATCH, `bulkUpdateChatCounts` |
| Chat creation API: `services/chat.service.ts` | none of its own: a request is a chain of awaits | `create`: find app, INCR, HSETNX, publish, answer |
| Message creation API: `services/message.service.ts` | none of its own | `create`: find app, find chat, INCR, publish, answer |
| Chat and message consumers: `events/handlers/*-replication.handler.ts` | none of its own: up to `prefetchCount` = 10 handlers per process | Phase 1 (inbox row and chat/message row in one transaction), Phase 2 (lock and count in Redis), ack or nack |
| Inbox: `inbox.repository.ts` | MySQL `inbox` (event_id unique), never purged | `validateEvent` |
| Chat and message storage: `chat.repository.ts`, `message.repository.ts` | MySQL `chats` (app_id, chat_number unique), `messages` (chat_id, message_number unique) | create, find, `bulkUpdateMessageCounts` |
| Redis repository: `redis.repository.ts`, `redis.connection.ts` | number generators, hash `chats`, counters, locks of counted events (24 h) | INCR, HSETNX, the Lua script, KEYS + MGET |
| RabbitMQ wiring: `messaging.module.ts`, `common/utils.helper.ts` | quorum queues, dead-letter exchange and queues (external) | publish with confirm, deliver, ack, requeue after 2 s, dead-letter |
| Cron: `services/cron.service.ts` | a run: keys and values read, not yet written | two sync jobs in every instance |
| HTTP shell: `main.ts`, `http.exception.filter.ts`, the interceptor | none | exceptions to answers, validation messages |
| Outbox: `outbox-transformer.processor.handler.ts`, `outbox.repository.ts` | MySQL `outbox` | disabled (`handlers/index.ts:8`); nothing writes the table |
| Load-test client: `load-test.js` | its own list of chats and messages | workflow with `retryWithConsistency` |

### How they interact

```
 client --POST--> ChatService.create --INCR, HSETNX--> Redis
                        |                                ^  ^
                     publish                     Phase 2 |  | KEYS, MGET
                        v                                |  |
                    RabbitMQ --deliver--> handler -------+  CronService
                        ^                    | Phase 1         |
                        +---- ack, nack -----+----> MySQL <----+ UPDATE
```

No component calls another one: they meet in Redis, MySQL and the queue. Each
await is a point where other requests, handlers and cron runs, in this process
or another instance, get in between.

### What is hard, and what makes it right

- The three stores share no transaction. A handler can stop between
  the commit in MySQL and the count in Redis; a request can stop between INCR
  and publish. Right means: a chat whose number the client got is stored in the
  end or its event is kept; each chat is counted once, and a count is lost only
  to a fault, if at all.
- Events come more than once: a lost confirm makes the publisher send again, a
  nack or a lost channel makes the broker deliver again, possibly while
  the first handler is still at work. Right means: one inbox row, one chat row
  and one count per event.
- Event ids are random and inbox rows stay for ever, so two events may share
  an id. Right means: the second one is not acknowledged away.
- Redis holds the generators, and by `docker-compose.yaml` it has no volume. Right
  means: no number is stored twice even if one is handed out twice.
- Retries have to end, and must not end too early.
- A cron run reads and writes in three calls; runs of several instances overlap.
  Right means: a column shows a count of its own row, and settles on
  the newest one.

`PROJECT.json` lists these hazards one by one at the line where they bite, with the
properties that cover them.

## 2. Modules

| Module | Models | Code |
|---|---|---|
| `QuorumQueue` | one queue of the broker: publish, deliver, ack, return with a delivery limit (external) | how the subscribers declare and use their queues |
| `ChatCreation` | a POST of a chat from the request to the counted row, with `QuorumQueue` as an instance | `chat.service.ts`, `chat-replication.handler.ts`, `inbox.repository.ts`, `redis.repository.ts`, `utils.helper.ts` |
| `MCChatCreation` | symmetry for TLC | |
| `ChatSystem` | chats and messages together: two instances of `ChatCreation`, what a message does differently, and what the two share | `message.service.ts`, `message-replication.handler.ts`, `message.repository.ts`, the inbox's index |
| `MCChatSystem` | symmetry for TLC | |
| `AppRegistry` | POST and PATCH of applications, with the cron job's write | `app.service.ts`, `app.repository.ts`, `app.model.ts` |
| `MCAppRegistry` | the module TLC runs | |
| `CountSync` | the two cron jobs, over an abstract set of owners | `cron.service.ts`, `getAllActual*Counts`, `bulkUpdate*Counts` |
| `MCCountSync` | the module TLC runs | |
| `EventStore` | what a client is promised of an event, without queue, handler, lock or transaction (abstract) | |
| `ConsumerProcess`, `MCConsumerProcess` | one process as a consumer of both queues: prefetch, channel, the error handler's timer, death and restart | `utils.helper.ts`, `messaging.module.ts`, `docker-compose.yaml` |
| `HttpShell` | validation, interceptor, exception filter and error handler around any handler | `http.exception.filter.ts`, `utils.helper.ts`, `common/standards/*`, `main.ts`, the DTOs |
| `LoadTest`, `MCLoadTest` | the load-test client against two instances of `EventStore` | `load-test.js`, the reads of `chat.service.ts` and `message.service.ts` |
| `ChatCreationProofs`, `ChatCountProofs` | theorems about `ChatCreation`: types, Phase 1, numbers and the refinement of `EventStore`; the counter | |
| `ChatSystemProofs` | theorems about `ChatSystem`, from the lemmas about its two sides | |
| `AppRegistryProofs`, `CountSyncProofs`, `ConsumerProcessProofs`, `HttpShellProofs`, `LoadTestProofs` | theorems about the module each is named after | |

### ChatCreation: state and actions

`req[r]` is a request: `pc` names the await it stands before, `app`, `num` and
`eid` are the local variables `app.id`, `chat_number` and `eventId` of
`ChatService.create`. They are also the payload of its event, so a message in the
queue is just a copy `<<r, k>>`: the k-th time the event of `r` was sent.

`gen`, `hash`, `cnt` and `lock` are the Redis keys, `rdb` the snapshot a restart
reads; `inbox` and `chats` are the committed rows. A row's field `by` is the
request that made it; it stands for the row's own id and no guard reads it.
`worker[w]` is one handler slot of one consumer: where it is, which
copy it holds, and whether the channel it came on is still open (`live`).

| Action | Code |
|---|---|
| `FindApp`, `GetNextChatNumber`, `InitializeChat`, `PublishEvent`, `ConfirmPublish` | the awaits of `ChatService.create`, in order |
| `RequestFails` | any of them throws, or the API process dies |
| `NumberReplyLost`, `Republish` | ioredis and amqp-connection-manager send again after a reconnect |
| `TakeDelivery` | the subscriber gets a message |
| `ValidateEvent` | the insert into `inbox`; `validateEvent` decides between new, duplicate and error |
| `CreateChat` | the insert into `chats` under the unique index |
| `Commit` | both rows become visible |
| `CountChat` | the Lua script: lock and INCR as one step |
| `AckDelivery`, `NackDelivery` | the handler returned / threw |
| `HandlerError`, `CommitReplyLost`, `CountReplyLost` | a call of the handler fails, before or after it took effect |
| `ConsumerCrash`, `ChannelLost` | the process dies / only the channel does and the handler goes on |
| `RedisSave`, `RedisRestart`, `LockExpires` | snapshot, restart (from the snapshot or from nothing), end of the 24 h |

Two transactions that insert the same key of a unique index wait for each other
in MySQL. `InboxLocked` and `ChatKeyLocked` say so: an insert is disabled while
another open transaction holds the key, and afterwards finds the committed row or
finds none.

`DriverCode` is `error.parent.code` of a unique violation. `main.connection.ts:10` fixes
the dialect `mysql`, whose driver says `ER_DUP_ENTRY`; the code compares it with
`23505`. Every run uses `ER_DUP_ENTRY`.

### ChatSystem: what it adds

The message service and handler are the chat's program with other names: chat for
application, message for chat. (A diff of the two handlers shows nothing but names.) So
`Message` is `ChatCreation` again, `WITH Apps <- ChatIds` and variables of
its own, and `ChatSystem` has only the differences:

- `FindChat` looks the chat up in MySQL. A chat whose number was answered but whose row
  is not committed yet is a 404.
- `GetNextMessageNumber` goes straight on to the publish: there is no hash.
- `inbox` and `lock` are the same variables in both instances. `InboxFree` makes an insert
  wait for open transactions of the other kind; within one kind `InboxLocked` does that.
- `LockExpires` ends a lock for both sides in one step.

The id of a chat is the request that made its row, so a message's owner names a row of
`chats` by its `by`. Redis stays up in this module (`rdb` and `restarts` are constants).

### AppRegistry: state and actions

`apps[i]` is the row under id `i`, where an id is the POST and the attempt that inserted it;
`create[c]` and `patch[p]` are the requests. `CreateApp` is one turn of the token loop,
`CreateFails` an error that is no unique violation, before or after the row was
inserted; `FindApp`, `UpdateApp`, `FindUpdated` are the awaits of `AppService.update`, and
`found` is the row object the first of them returned, of which the code uses the id and
token only. `SyncCount` is the cron job's UPDATE for one row. A name is the request that brings
it, so `wrote`, the order in which names were written, tells older from newer ones.

### CountSync: state and actions

`cnt[o]` is the Redis counter of an owner (an app, or a chat), `column[o]` the
MySQL column, `job[j]` one run of the job. `GetKeys`, `GetValues` and `BulkUpdate`
are its three calls; `SyncFails` is any of them failing, or the
process dying; `Count` is Phase 2 of a consumer; `RedisRestart` lowers counters.
`peak` is a history variable. A key that vanished since KEYS comes back from MGET
as null, and the job skips it like a zero (`getAllActualChatCounts`,
`count === 0`), which is what `Merge` says.

### EventStore, and how the others meet in it

`EventStore` has one variable that matters, `place`: an event is queued, stored or parked, and
moves only between these. It is the joint between the two ends of the system.
`ChatCreation!ImplementsEventStore` maps its copies and rows to places (`PlaceOf`) and the
accepted requests to `answered`, and the run `chat_restart` checks that every step is a step of
`EventStore` or none. `ChatSystem!BothAreEventStores` says the same of chats and of messages in the system in which
both consumers share one inbox (`system_safety`). `LoadTest` takes `EventStore`, once for chats and once for messages, as its
server: these two are the two sides of `ChatSystem`. So what is checked of the client holds against the server as it is modelled.

### ConsumerProcess: state and actions

`handler[<<m, c>>]` is the handler of event `m` that came on channel `c`: running, or waiting in the 2 s
timer. `channel` counts the channels lost, so a handler with `c # channel` is a stale one.
`HandlerReturns`, `HandlerThrows` and `HandlerRejects` are the three outcomes of
a handler; `TimerFires` is the nack. On a stale channel each attempt to settle throws: an ack's error
is caught by the library and given to the error handler, which sets a timer; the nack of a timer, and
the nack without requeue of a malformed event, are caught by nobody and the process `Dies`. `ChannelLost` and `Dies` give all
unacknowledged events back to the broker. What a handler does to the stores is left to `ChatCreation`.

### HttpShell: state and actions

One call, from Nest's pipe to its answer: `Validate` (`ValidationPipe` with
`exceptionFactory`), `Handle`, then `Intercept` (`StandardInterceptor`) or `Filter`
(`HttpExceptionFilter`, and for events what `createRabbitErrorHandler` decides). The inputs are
payload errors, flat ones for a POST or PATCH and up to three levels, the depth of the event DTOs, for an event; and all outcomes of
a handler. A dotted path is
the sequence of its names. For an event the filter returns undefined, and Nest throws the exception on
to the subscriber, which is why the error handler sees its status (external).

The two classifiers ask different questions: the filter, whether the exception is an `HttpException`
(`http.exception.filter.ts:56`); the error handler, whether `err.status` is missing, 0 or at least 500
(`utils.helper.ts:92`). So an exception has a class and a status, and an error of another class may have any status (`OtherStatuses`),
as those of `http-errors` do. See disagreement 8.

### LoadTest: state and actions

`user[u]` is one `simulateUser`: its operation, its place in `Workflow`, the poll it is at, and
whether the server has already done its part of a POST (`posted`). One action per call, `NotFound`
for a poll that found nothing, `CallFails` for a failed or lost call, `MalformedAnswer` for an
answer without token or number. `stats` are the counters of the report. `main` is `runLoadTest` with the health check and
SIGINT. The waits are left out, so a row may come before the first poll or after the last.

## 3. What the runs show

| Run | Question | Bounds |
|---|---|---|
| `chat_safety` | Phase 1 is atomic, accepted numbers are unique, nothing promised is lost, the counter is never ahead of the table, covers every acknowledged event and trails by at most one chat per fault | 2 apps, requests, ids and handlers; 2 sends, 1 redelivery, 2 faults |
| `chat_restart` | what of this survives a restart of Redis: unique stored numbers, counter never ahead, and a client sees an `EventStore`, in which no event vanishes and no stored chat is taken back | 1 app, 2 requests, ids and handlers; 2 sends, 1 redelivery, 1 fault, 1 restart |
| `chat_liveness` | every event settles; every promised chat is stored in the end | 1 app, 2 requests, ids and handlers; 2 sends, 1 redelivery, 1 fault |
| `chat_count_lost` | violated: a chat stays uncounted for ever, its event dead-lettered | 1 request, 1 fault |
| `chat_number_reuse` | violated: two clients hold one number after a Redis restart | 1 restart, no other fault |
| `system_safety` | with both consumers on one inbox and one space of lock keys: each event id makes one row of one table, nothing promised is lost, what is acknowledged is counted, a fault costs the counters of the two kinds one count and not one each, and the clients of each kind see an `EventStore` | 2 chats, 1 message, 2 ids, one handler each, 2 sends, 1 redelivery, 1 fault |
| `system_liveness` | promised chats and messages are stored, although the consumers wait for each other | 2 chats, 1 message, 1 send, 1 redelivery, 1 fault |
| `registry` | a token leads to its app, a POST stores one app at most, PATCH answers with its own name or a later one and leaves counts alone, the token loop ends | 2 POSTs, 2 PATCHes, 2 tokens, 2 attempts, 1 fault |
| `sync` | columns show counts of their own row, are never wiped, and converge | 2 owners, 2 overlapping runs, counters to 2, 1 failure, 1 restart |
| `process` | each delivery in flight has a handler and the reverse, the process dies at most once per lost channel, an event that did not fail is not parked for its neighbours' deaths beyond two deliveries per lost channel, every event settles unless the process stays dead | 2 chats (one malformed), 1 message, prefetch 1, delivery limit 3, 1 error per event, 2 lost channels |
| `http` | every violated constraint is named once under its path; no event is retried for what an HTTP client is told to be its own fault, and only an error that is no HttpException but has a status is parked for a failure of the service | 2 names, 2 texts, 3 levels; statuses 400, 404, 409, 503, and for other errors none, 0, 413, 499, 500, 503 and a text |
| `loadtest` | in both modes: a reading user gives up only after its polls, and only at the first look at a row; the report adds up and covers every user | 2 users, 1 operation, 2 messages, 2 polls, 1 failed call, 1 malformed answer |

`ConsumerProcess` has a prefetch of one per queue for the code's ten, so that a leaked slot would stop a consumer at
once, two queues, so that one event's timer can kill a handler of the other queue, and two lost channels, so that a handler can be two channels
old. The delivery limit of 3 lies between the deliveries one loss costs (two: the channel and the death) and those of two losses
with an error: both outcomes occur. `LoadTest` has two polls for the code's ten (a last one and one before it) and one
operation for the code's five: users share the statistics only, and a second operation starts with a new app.

`ChatSystem` needs two chats for the consumers to race: a message can only be posted to a chat
that is stored, so with one chat its event is never under way beside a message's. `AppRegistry` has two
attempts for the code's ten (the last attempt and one before it) and two tokens for two POSTs, so that
collisions, a 409 and an app left behind by a lost reply all happen.

`CountNeverAhead` is asked both with two faults and with
a restart; a counter that restarts from an older image is another way to
miscount than a redelivery.

**Why these bounds are enough to be interesting.** Two requests are the least that
can collide, on a number, on an event id (both may draw the same one) or
on neither. Two handlers are the least that can race for one event or one key.
Two sends and one redelivery let three handlers see one event one
after another and two at once. One fault already reaches each of the
violations; two let a fault hit the repair of another one. The delivery limit of 1
stands for the broker's 20: what matters is that it can be reached by the faults
and that, for liveness, it is no smaller than their number. `CountCoversAcked`,
`CountNeverAhead` and `DriftBoundedByFaults` are stated for any bound. With two requests
`DriftBoundedByFaults` says something as long as fewer than two faults happened; the theorem says it of any number.
The liveness runs have no restart of Redis, so no number repeats and no insert waits for a chat key in them (`ChatKeyLocked`); in
`chat_restart`, which checks safety, it does. The holder of such a key is about to commit and waits for nobody.

**Fairness.** `FairSpec` asks for weak fairness of two things: the broker delivers
to an idle slot, and a handler that runs goes on (node's event loop runs every
continuation; MySQL and Redis answer, or the call fails, which is a fault). Nothing is
asked of clients, of faults, or of restarts. A handler that waits for a lock of another
transaction is not enabled, so that fairness alone does not get it on: the
other one has to finish first. `ChatSystem` asks the same of both
consumers. For `AppRegistry`, a POST that has begun goes on with its loop; clients need not PATCH.
For `CountSync`, each run's steps are fair: every
tick comes (`@Cron`), and a run goes on to its end or fails. `ConsumerProcess` asks for
delivery and for handlers and timers that come to their end, but not for the restart of a dead process: the
repository's compose file has nobody for it (disagreement 5). So its `EveryEventSettles` speaks of behaviours in which the process
is up again and again. The liveness runs of `ChatCreation` and `ChatSystem` rest on the same condition: their handlers
are always there again after a crash. `LoadTest` asks
that users and main program go on (axios' timeout ends every call) and nothing of the server: `TestEnds`
holds also if it never stores a row.

**Deadlock.** The configurations of `ChatCreation` turn the deadlock check off: a
finite set of requests really ends, with every event settled; the same goes for `ChatSystem` and
`AppRegistry`, for `ConsumerProcess` (nothing left to publish), `HttpShell` (one call) and `LoadTest` (the program exits). That nothing gets stuck
before is what `EveryEventSettles` says. `sync` keeps the check on.

### Disagreements between the code and what it says

1. `inbox.repository.ts:28` recognises a duplicate by a PostgreSQL code. Under MySQL the
   branch "Duplicate message ... Skipping database write" (`chat-replication.handler.ts:91`)
   is dead, and a redelivered event whose chat is stored is retried until it is
   dead-lettered. The counterexample of `chat_count_lost` ends that way.
2. As the retry fails in Phase 1, it never makes up a count that was lost between
   the phases (`chat_count_lost`), against the comments at
   `chat-replication.handler.ts:96` and `:122`.
3. `redis.repository.ts:24` promises unique numbers, but the generator lives in a Redis
   without a volume (`docker-compose.yaml:72-74`) and nothing seeds it from MySQL
   (`chat_number_reuse`).

Five more, read in the code and visible in the models, without a run of their own:

4. `LOAD_TEST_README.md:9-12` says that the script handles eventual consistency by retrying; `createMessage` does not
   retry, and in `CREATE_ONLY` mode nothing waits for the chat before it. `RetriedBeforeGivingUp` has to leave that mode out.
5. `utils.helper.ts:93` says that a failed event is requeued after two seconds. If its channel is closed by
   then, the nack throws in the timer and the process ends (`Dies`), and `docker-compose.yaml` restarts every service but
   `chat`: the event is then not tried again. `process` shows that a restart policy would be enough.
6. `standard.response.ts:81` leaves out data without keys, and an empty array has none: "List of all messages"
   (`message.controller.ts:39`) of an empty chat has no list (`SuccessResponse`). The list of chats is
   wrapped in an object and does not have the problem.
7. `load-test.js:269` records a success before the answer is looked at, and the failure twice (`MalformedAnswer`), so
   "Total operations performed" (`LOAD_TEST_README.md:86`) can exceed the calls made. `ReportAddsUp` allows for it.
8. `utils.helper.ts:93` and `:107` divide errors into unhandled ones, which are requeued, and handled ones. An error that is no
   `HttpException` and carries a status below 500 is unhandled to the filter, which answers 500, and handled to the error handler, which parks the
   event. `VerdictsCompatible` says that this is the only way for an event to be parked for a failure of the service. Nothing the consumers call
   throws such an error as far as this repository shows; Express' body parser does (413), but only over HTTP.

Seen on the way and of no consequence for a model: the POSTs answer 201 where the
README says 202 (no `@HttpCode`); `'*/40 * * * *'` fires at :00 and :40, neither
"every 40 minutes" (`cron.service.ts:65`) nor every 30 (README). The model says
"accepted" for the answer that carries the number, whatever its status.

## 4. What is proved

The eight proof modules prove the theorems below for every set of apps, requests, event ids, handlers, owners,
runs, users and queues and for all bounds, from the named assumptions of the modules they are about:
`BoundsAssumption`, `DriverAssumption`, `NoneAssumption` and `WorkersAssumption` (finitely many handlers) of
`ChatCreation`, `SystemAssumption` (the same of both sides), `RegistryBounds`, `RequestsAssumption` and `NoneAssumption` of
`AppRegistry`, `SyncBounds`, `ProcessAssumption`, `ShellAssumption`, and `ConfigAssumption` of `LoadTest`. They say that bounds are
numbers, that the sets that get counted are finite, that `None` is no value, and that HttpExceptions have a status
from 400 to 599 and other errors a number, a text or nothing.

| Theorem | States | Extra assumption |
|---|---|---|
| `ChatCreationProofs` `TypeCorrect` | `Spec => []TypeOK` | |
| `NothingLostSilently` | `Spec => []NoSilentLoss` | `DriverCode # UniqueViolation`, as with MySQL |
| `Phase1Atomic` | `Spec => []InboxMatchesRows` | |
| `OneChatPerNumber` | `Spec => []StoredNumbersUnique` | |
| `NumbersNeverShared` | `Spec => []AcceptedNumbersUnique` | `MaxRestarts = 0` |
| `ChatsAreAnEventStore` | `Spec => ImplementsEventStore` | `DriverCode # UniqueViolation` |
| `ChatCountProofs` `NeverAhead` | `Spec => []CountNeverAhead` | `DriverCode # UniqueViolation` |
| `AckedIsCounted` | `Spec => []CountCoversAcked` | the same, and `MaxRestarts = 0` |
| `DriftTakesFaults` | `Spec => []DriftBoundedByFaults` | the same, and `MaxRestarts = 0` |
| `ChatSystemProofs` `TypeCorrect` | `Spec => []TypeOK` | `MySQL`: the driver's code is not `23505` |
| `OneRowEach` | `Spec => []OneRowPerEvent` | `MySQL` |
| `NothingLostTogether` | `Spec => []NothingLost` | `MySQL` |
| `AckedAreCountedTogether` | `Spec => []AckedAreCounted` | `MySQL` |
| `BothSidesAreEventStores` | `Spec => BothAreEventStores` | `MySQL` |
| `KeysUniqueTogether` | `StoredNumbersUnique` of both sides | `MySQL` |
| `NumbersNeverSharedTogether` | `AcceptedNumbersUnique` of both sides | `MySQL` |
| `NeverAheadTogether` | `CountNeverAhead` of both sides | `MySQL` |
| `DriftTakesFaultsTogether` | `Spec => []DriftSharesFaults` | `MySQL` |
| `AppRegistryProofs` `TypeCorrect` | `Spec => []TypeOK` | |
| `TokensLeadHome` | `Spec => []TokenFindsItsApp` | |
| `OneRowPerPost` | `Spec => []OneAppPerPost` | |
| `AnswersAreFresh` | `Spec => []PatchReadsItsWrite` | |
| `CountsKept` | `Spec => []CountsSurvivePatches` | |
| `CountSyncProofs` `TypeCorrect` | `Spec => []TypeOK` | |
| `ColumnsTrue` | `Spec => []ColumnWithinPeak` | |
| `CountsNeverWiped` | `Spec => NeverZeroed` | |
| `ConsumerProcessProofs` `TypeCorrect` | `Spec => []TypeOK` | |
| `NoSlotLeaks` | `Spec => []UnackedIsHandled` | |
| `DeathsBounded` | `Spec => []DeathsBoundedByLosses` | |
| `InnocentsKept` | `Spec => []InnocentNotParked` | |
| `HttpShellProofs` `VerdictsAlwaysCompatible` | `Spec => []VerdictsCompatible` | |
| `LoadTestProofs` `TypeCorrect` | `Spec => []TypeOK` | |
| `GivesUpLate` | `Spec => []RetriedBeforeGivingUp` | |
| `FindsAgain` | `Spec => []FoundStaysFound` | |
| `ReportTrue` | `Spec => []ReportAddsUp` | |

The two extra assumptions are true of the deployed configuration (MySQL) and of a Redis that keeps its data;
`ChatSystem` has no restart of Redis, so all its theorems speak of the latter.
The runs check the same properties under the same conditions, and each assumption has its reason below.

- **TypeInv.** `TypeOK` alone is not inductive: `Commit` writes a row made from
  the request's fields, so one needs that a published event has an app and an
  id (`PayloadInv`), that a busy handler holds a published copy (`WorkerInv`), and that
  the delivery count stays in range as long as a message is not dead
  (`QueueInv`).
- **KeepInv**, for `NothingLostSilently`: the event of an acknowledged copy has its chat
  stored, a handler past Phase 1 works for a stored chat, and the event of an accepted
  request was published. The assumption on the driver is needed:
  were duplicates recognised, an event whose id another event drew before would be
  acknowledged with no chat. With MySQL's code it ends in the
  dead-letter queue instead, and that is what the property allows.
- **AtomInv**, for `Phase1Atomic` and `OneChatPerNumber`: two open
  transactions never hold the same event id or the same chat key, and none holds
  one that is stored (`EventKeyInv`, `ChatKeyInv`). Handlers are described by what
  they do to these keys (`HandlerKeys`: take one, write, let go) rather than action by
  action, so each invariant is proved once per kind of step. `SentInv` and `RowInv` say
  that a published event, and hence a row, belongs to a request whose fields no longer change.
- **NumberInv**, for `NumbersNeverShared`: the generator is at or above every number in
  use. `RedisRestart` is the only step that breaks it, and is excluded by the
  assumption; `chat_number_reuse` is the counterexample without it.
- **The counter.** `CountNeverAhead` compares a number with the size of a table, and a handler between
  the phases has a row that is not counted yet. So `AheadInv` adds the handlers that are about to
  count (`Uncounted`) to the counter, and says the same of the snapshot and of an empty Redis, from which a restart goes on.
  It rests on `CountKeyInv`: a lock is only ever taken for a stored event, and no two handlers
  past Phase 1 work for one event. That is where MySQL's code comes in: a recognised duplicate
  would be a second such handler. `CoverInv` and `DriftInv` go the other way: the rows whose
  event is acknowledged, or about to be, are at most the counter; and all rows at most the counter, the
  handlers on their way and the faults. `DriftInv` is stated by a measure, `Lost(a)`: the rows less the counter and the handlers
  still on their way. No step raises it by more than it raises `faults` (`LostStep`). A restart loses counts with no handler left to repeat them, hence `MaxRestarts = 0`.
- **The refinement.** The copies and rows of `ChatCreation` are mapped to one place for each request.
  A step of the publisher, the broker or a handler moves one event (`PlaceMoves`) or none (`PlacesStand`);
  which of the two, and between which places, is one lemma for each kind of step. It needs that an acknowledged event is
  stored (`KeepInv`) and that a stored row is its own request's (`AtomInv`).
- **In company**, for `ChatSystem`. Each side is an instance of the proof modules, so its own steps keep
  its invariants. A step of the other side is `Company`: it leaves all variables alone but `inbox`, `lock` and
  `faults`, takes no id from the inbox that a transaction here holds, and no lock that a handler here is about to take.
  `CompanyKeeps` says that this breaks nothing. `SysInv` says that the two sides' rows have no event id in
  common, nor have their open transactions, and that the inbox is made of both sides' events: this is what makes every step of one side
  company for the other, in both directions, and with each side's `AtomInv` it gives `OneRowPerEvent`. `Commit` of one side and `InboxFree` of the other are the
  heart of it: an insert waits for the other side's transaction, and then finds its row.
- **What each side keeps in company.** `SideInv` is all that `ChatCreation` has beyond its types and Phase 1: `CoverInv`, `AheadInv`,
  `DriftInv` and `NumberInv`. A fault of the other side only raises the bound of `DriftInv`, so each of the four holds
  in company; hence the numbers, keys and counters of both kinds are right together, for any number of messages as well as of chats
  (`KeysUniqueTogether` and the three after it). `LostInv` adds the measures of both sides up: a step costs at most one side a
  count, so the two kinds share one budget of faults, where `DriftBoundedByFaults` of each side would allow both the whole of it.
  `system_safety` checks `DriftSharesFaults` for two chats and a message.
- **The refinement in company.** A side's own steps refine its `EventStore` by the lemmas of `ChatCreationProofs` (`OwnStepRefines`); a step of
  the other side leaves this side's copies and rows alone and so moves no event (`SysRefines`).

- **IInv** of `AppRegistry`, one invariant for its five theorems. A row stands under the last attempt of its
  POST and only once that has ended (`CreateInv`); tokens are unique (`TokenInv`); a PATCH between its calls holds a row by id *and* by token,
  and after its write the row's name is its own or a newer one (`PatchInv`), which needs that a name is new until it is written and the
  last one written is the highest (`WroteInv`).
- **ThrownInv**, for `VerdictsAlwaysCompatible`: what is thrown at any stage is an HttpException with a status of 400 to 599, or another
  error with any status or none. On the first kind class and status say the same (`VerdictsMeet`); on the second the
  filter's answer is a 500, so the event is never retried in vain, and it is parked only if the error has a status. The errors the exception
  carries, however deep, have no part in it.
- **PeakInv**, for `ColumnsTrue`: not only the columns but also the counters and what every run
  has read and not yet written stay within the peak, which never comes down: that is why
  a stale value is harmless.
- **IInv** of `ConsumerProcess`, one invariant for its four theorems. `UnackedIsHandled` needs that no
  handler is on a channel not yet opened or outlives its process (`FreshInv`). `DeathsBoundedByLosses`
  needs `DeathInv`: a handler left on an old channel means that one more death is still due, and the
  death that comes ends every such handler at once. `InnocentNotParked` needs `CauseInv`: every delivery
  of an event beyond its first is paid for by an error of its own, a lost channel or a death, where an error
  whose timer still runs has not cost its delivery yet. With deaths bounded by lost channels, two
  deliveries for each lost channel remain.

- **IInv** of `LoadTest`. `FoundInv`: a user past its first look at a chat has found it, and no event leaves "stored" again
  (`EventStore`), so `FoundStaysFound` holds. `EndInv` ties errors to users that stopped. `CountInv`: the total is the number of calls that are over.
  These are a set of (user, operation, call), so the sum over all users is a cardinality, and a step adds one element; in a
  report without failures the set is all of `ChatKeys \X (1 .. Len(Workflow))`, whose size is a product.

**Only proved**: `TypeOK` of `ChatSystem` (that of `ChatCreation`, twice) and the theorems that state `ChatCreation`'s properties of both
sides (`KeysUniqueTogether` and the two after it); the runs check these properties of `ChatCreation` alone.

**Only model-checked**: the liveness properties (`EveryEventSettles` of `ChatCreation` and `ConsumerProcess`,
`AcceptedEventuallyStored`, `PromisesKept`, `CreateEnds`, `ColumnsConverge`, `TestEnds`), which need fairness and `ENABLED`,
out of the prover's reach; and `ErrorsComplete` of `HttpShell`. There `flattenValidationErrors` recurs over
a tree of errors: that it lists each violation once is an induction over data, which cannot be done here. The run checks it
for all trees of up to three levels, the depth of the program's own DTOs.

## 5. What is abstracted, and what is not modelled

- A process crash takes all handlers of the process along. Here it is one
  `ConsumerCrash`, and one fault, per handler; a crash of n handlers is n
  such steps in a row.
- The 2 s of the error handler are not counted: a nack comes at any later moment. In `ChatCreation` a handler that
  is not `live` settles nothing and a crash comes at any time; that its nack is what kills the process is the subject
  of `ConsumerProcess`. A channel is lost there only while the process runs, and a channel lost is counted as one whether the
  broker or the network closed it.
- A driver whose code is recognised (`DriverCode = UniqueViolation`) is what the inbox was written for. The module keeps
  the branch, which no run takes, since the proofs hold for both codes where they can.
- Two messages that take numbers at once: the same `INCR` as for chats (`AcceptedNumbersUnique`), on a generator per chat.
  `ChatSystem` is run with one message; `NumbersNeverSharedTogether` proves it for any number.
- Response times, progress output and the wording of reports are left out of `LoadTest`; so is the server's
  answer to `findAllChats`, of which the client uses nothing.
- `HttpShell` keeps one text for what `HttpException.getResponse()` returns, and 200 for every 2xx.
- The queue has no order. With ten handlers at once, none of the properties may depend on it.
- A lock does not expire while a handler is in Phase 2 for its event: 24 hours against
  seconds. `LockExpires` says so in its guard.
- The fields of the hash `chats` are written and never read by the code; the hash is
  kept because it is part of the handler's state change.
- Event ids: any value of a small set, equal ones included.
- Applications and chats are never deleted (no code does), so a request that looks up two rows in turn
  does so in one step, and the foreign keys always hold.
- Not modelled: the outbox and the legacy
  chat controller (unreachable), logging, Swagger, migration running,
  helpers of the Redis repository without a caller (`initializeApp`, `incrementChatCount`,
  `incrementMessageCount` and their readers).

## 6. Plan

Done, in this order: `QuorumQueue`, `ChatCreation` and its proofs, `CountSync` and its proofs,
`ChatSystem`, `AppRegistry`, `EventStore` with the refinement, `LoadTest`, `ConsumerProcess` and its proofs,
`HttpShell`; then the proofs of the counter, the refinement, `ChatSystem`, `AppRegistry`, `LoadTest`, and of `HttpShell`'s
`VerdictsCompatible`; last the refinement and the counters of both sides of `ChatSystem` in company. Every safety
property and every action property that a run checks is now a theorem, but for `ErrorsComplete`. What could follow:

1. `ErrorsComplete` for trees of any depth, with a prover that has induction.
2. Restarts of Redis in `ChatSystem`, which are left to `ChatCreation`: the snapshot would be one for both sides.
