# Verification of HorizonMessenger

HorizonMessenger is a chat server in Go: a REST API (Gin) over PostgreSQL and
Redis, a WebSocket hub that fans messages out to connected users, and a page
(`app/static/app.js`) that talks to both. This directory holds TLA+ models of its
stateful parts, the TLC configurations that check them on small instances, and
proofs for any size. Paths below are relative to the repository.

## 1. Inventory

| Component | State | Operations | Interacts with | What is hard | What makes it correct |
|---|---|---|---|---|---|
| **Hub and pumps** `internal/websocet/hub.go`, `internal/handlers/websocket.go` | `Clients` (user to connection), `ChatRooms`, per connection `Send` (256 items), `ChatIDs`, the socket | `Run` (Register, Unregister, Broadcast), `ReadPump`, `WritePump`, `BroadcastToUser`, `HandleWebSocket` | unbuffered channels from every handler and ReadPump; `BroadcastToUser` is called by requests; ReadPump calls ChatService | one goroutine per pump and request, writes under a read lock, channels closed in three places, full buffers, reconnection, panics that end the process | rooms and registrations agree, messages arrive in order and without gaps, nobody waits for ever, one slow connection harms no other |
| **Rate limiter** `app/rate_limiter.go` | a slice of timestamps per key | `Allow`, `getClientIP`, the middleware | in front of every `/api` route | lazy pruning, boundary of the window, choice of the key | no window of a key, at any position, holds more than the limit, no request is refused without need |
| **Chat service** `internal/services/chat_service.go`, `internal/handlers/chat_handler.go` | none of its own | CreateChat, SendMessage, DeleteChat, notifications, reads | repositories, hub | every statement interleaves with other calls; failures between statements; lost answers; crashes | tables stay consistent, notices are true and complete, only stored messages of those whom the list of members names are published |
| **Repositories and schema** `internal/repositories/` | tables users, chats, chat_participants, messages | SQL statements, one transaction in CreateChat | PostgreSQL | constraints and cascades carry the consistency | see chat service |
| **Authentication** `internal/services/auth_service.go`, `internal/handlers/auth_handler.go`, `internal/adapters/redis_token_repository.go` | users' verification, JWTs, revoked tokens in Redis | Register, VerifyEmail, Login, ValidateToken, RevokeToken, Logout | user repository, e-mail, Redis, hub | concurrent registrations, tokens used twice, expiry, revocation that nobody calls | one account per name, only verified users log in, no failure and no second use of a link locks an account out |
| **Browser client** `app/static/app.js` (54-92, 748-951, 1199-1226, 1526-1560) | token, socket, reconnect counter, timers, list of chats | login, logout, clearAllData, loadUserChats, connect, scheduleReconnect, joinAllChats, disconnect | hub, REST | timers that nobody cancels, `onclose` after `disconnect`, answers that come late | connections do not multiply, a logout leaves no socket for the next user, the connection comes back, and the chats are joined on it |
| **Member list** `internal/repositories/chat_repository.go` (116-127, 163-168) | none | text of a PostgreSQL array to a list | chat service | commas, quotes and braces in names, blanks, `null` | whom the list names is decided by the names, not by their order; a plain name comes back as itself |
| **Lifecycle** `app/main.go`, `app/container.go`, `internal/repositories/repository_adapter.go`, `app/config/config.go` | what is open, the hub, the listener, signals, `isShuttingDown` | `LoadConfig`, `NewContainer`, main, `Close`, `Server.Shutdown` | all | a signal at any moment, requests in every stage, order of closing, early return of `Close` | no request misses what it needs, a signal ends the process |
| **Encryption** `internal/services/keying` | none | Encrypt, Decrypt | ReadPump, hub | failure of Decrypt ends the process | Decrypt inverts Encrypt |
| Middleware, metrics, health, e-mail, documentation, styles | | | | no state that other parts read | not modelled (see 8) |

How a message travels: `ReadPump` reads a frame, calls `SendMessage` (one query for
the chat and its members, one INSERT), then sends to `Hub.Broadcast`; the hub looks
up the room of the chat, then the connection of each member, and offers the item to
its `Send` buffer; `WritePump` takes it and writes it to the socket. A chat that is
created or deleted is announced by the request's goroutine with `BroadcastToUser`.

## 2. Modules

| Module | Models | Used with |
|---|---|---|
| `Hub` | hub, pumps, sockets, lock, panics | `MCHub` (instances), `Hub_proof`, `Hub_delivery_proof` (theorems) |
| `Delivery` | what the hub promises the registered connection of a user: one sequence per chat, taken message by message from its registration or the join (abstract) | refined by `Hub` |
| `SlidingWindow` | what a sliding-window limiter promises (abstract) | refined by `RateLimiter` |
| `RateLimiter` | `rate_limiter.go` | `MCRateLimiter`, `RateLimiter_proof` |
| `ChatLog` | what the chat service promises: chats with fixed members, posts and deletions by those whom the list of members names (abstract) | refined by `ChatService` |
| `ChatService` | CreateChat, SendMessage, DeleteChat, statement by statement | `MCChatService`, `ChatService_proof` |
| `Auth` | Register, VerifyEmail, Login, access by access | `MCAuth`, `Auth_proof` |
| `MemberList` | the text of an array that PostgreSQL writes and the repository takes apart | `ChatReads`, and `MCChatService` for `Pieces` |
| `ChatReads` | GetUserChats and GetChatMessages beside what changes their tables | `MCChatReads`, `ChatReads_proof` |
| `Lifecycle` | start, service, signals, shutdown | `MCLifecycle`, `Lifecycle_proof` |
| `Browser` | session, list of chats and connections of one page | `MCBrowser`, `Browser_proof` |

A definition named "Variant for the checks" is a plausible bug in the definition
that follows it; nothing uses it except the mutation checks listed in
`PROJECT.json`, which substitute it and expect the named property to fail.

### Hub

A step is what a goroutine does between two accesses to shared state. The hub's
channels are unbuffered, so a receive of the hub and the end of the send that was
blocked on it are one action (`RegisterRecv`, `UnregisterRecv`, `BroadcastRecv`);
the body of each `case` follows (`RegisterApply`, `UnregisterApply`, `JoinChat`,
`NextMember` and the loop body). The two write-locked bodies are single steps that
wait until no request holds the read lock (`NoReaders`). The read-locked code shared by
`Run` and `BroadcastToUser` is split into `LookUp`, `TrySend`, `CloseSend`, `DropClient`,
because several goroutines run it at once: that is where the map `Clients` is
written under a read lock (`MapRace`).

| Model | Code |
|---|---|
| `clients`, `chatRooms` | `Hub.Clients`, `Hub.ChatRooms`; an absent key is `None`, `{}` |
| `chatIDs`, `send`, `closed`, `conn` | `Client.ChatIDs`, `Client.Send` and whether it is closed, `Client.Conn` |
| `reader`, `out`, `writer`, `hub`, `cur`, `curMsg`, `todo`, `push...` | program counters and locals of the goroutines |
| `panicked` | the process is gone: an unrecovered panic in a pump or in `Run`, or Go's fatal error for concurrent map access. A panic in a request is recovered by Gin |
| `overflowed`, `posted`, `seen`, `doubled` | history; no action reads it but `ItemOf`, which numbers messages, and those that start `seen` at what is posted |

Texts, keys and encryption are opaque. A frame that the code ignores (bad JSON, an
unknown type) changes nothing and has no action. `SendMessage` is one step here, with
either result; `ChatService` has its statements.

Nobody is kept from connecting while an older connection of his still exists (a second
tab, or a reconnection before the server has noticed the loss of the first). `doubled` is the
set of users who have done so. What the hub delivers does not depend on it: a connection
that is registered has everything, in order, until the hub unregisters any connection of its user,
registers another one or closes it (`Delivery`). The rooms do: a user who had two connections
at once may be left in a room, or lose the entry of the connection he still has, which is what the violation
run `hub_reconnect` shows; whoever never had two is safe from that whatever
the others do (`RoomsMatchChatIDs`, `NoGhostMembers`).

A connection follows the rooms of its user from the moment it is registered, also those that
an older connection had joined. `Delivery` has this in `Register`: the new connection
enters each of the user's chats at its end and takes what is posted from then on.

### RateLimiter

`Allow` holds the mutex, so a call is one step. `Expired(s, n)` is what `sort.Search`
returns on a sorted slice; that slices are sorted is part of the invariant, not an
assumption. `Request` takes any connection and any `X-Forwarded-For`, for nothing in the code or
its deployment sets the header but the client: what the limiter promises, it promises per key. The clock is
a counter that advances at any time, several requests may share a tick.

### ChatService

One action per SQL statement outside the transaction; within the transaction of
`CreateChat` one per inserted participant, and a COMMIT that makes the rows visible.
A statement may fail (`Fail`), may fail after the server executed it
(`FailAfterwards`: the answer was lost), and the process may be killed at any point
(`Crash`). PostgreSQL is modelled by what the schema says: serial ids that are never
reused, the reference from `messages` to `chats`, the cascade. `asked`, `gone`,
`published`, `notices`, `finished`, `interrupted` are history. `BroadcastToUser` is a call that
succeeds or, when the channel it sends on has been closed, panics and is recovered
(`Fail` in a notification loop); its inside is `Hub`'s subject.

The members of a chat are two things in the code. `CreateChat` inserts and notifies the names of the
request. `SendMessage` and `DeleteChat` use the list that `GetChatByID` reads from the text of
`ARRAY_AGG`, where a name with a comma, quote, brace, backslash or blank, or one that reads `null`, comes back as other names,
and `Register` refuses no name. The constant `Pieces` gives what each name is read as, and
`Named(participants[k])` is the list of a chat; that the text goes name by name, in whatever
order, is what `MemberList` is checked for (`ListsComeBackNameByName`, `MembersAreThoseNamed`).
`MCChatService` has a user whose name holds the other two between commas, and an assumption
that compares its `Pieces` with `MemberList`.

### Auth

One action per access to PostgreSQL or the mail server; `pc` names
the access a goroutine does next, `call` holds its arguments and what it has read so
far. The entry actions `CallRegister`, `CallVerify`, `CallLogin` are
the handlers; a call for which the code returns before its first
access (an empty field) changes nothing and has no action. Failures and crashes are as
in `ChatService`.

| Model | Code |
|---|---|
| `accounts` | table `users`; `None` for no row, `link` is `verify_token`, `None` its NULL |
| `lastLink`, `NewLink` | `generateVerificationToken`: 32 random bytes, never the same twice |
| `mailed`, `Known` | where links come from: a mail, or `/auth/verification-token` |
| `linkFor`, `presented`, `registered`, `logins`, `dead` | history: `dead` are the links for which `VerifyEmail` found nobody, and panicked on the nil user |

Nothing in the code calls `RevokeToken`, and the handler of `/auth/logout` has an empty
body: no session ever ends before its token expires, and neither has an action. `ValidateToken`
reads Redis and a JWT that nothing changes; what it does to a request, also when Redis is out of reach, is
`Authenticate` of `Lifecycle`. Signatures and password hashes are taken to be sound.

### MemberList and ChatReads

A name is a sequence of characters here, because the two sides of `ARRAY_AGG` disagree
about some: PostgreSQL quotes an element that contains a comma, a brace, a quote, a
backslash or a blank, the repository trims braces and splits at commas and knows
nothing of quotes. `Lists` has every order, for the query has no ORDER BY. The transactions of
`CreateChat` overlap (`txs`); `Groups` bounds the sets of members they insert.

A timestamp is `CURRENT_TIMESTAMP`, the time at which its transaction began. All rows
of one `CreateChat` therefore share `joined_at`, which is why `GROUP BY joined_at` splits
no chat, and a message may become visible (`EndInsert`) after one with a later
timestamp. `Pages` is every result that ORDER BY created_at DESC with LIMIT and OFFSET
may give: ties are the database's choice in every query anew. `reader` is a client that
pages by the number of messages it has received and takes a page that is not full for
the last; it stands for the documented parameters (`chat_handler.go:122`), the page of
the repository asks for the first page only.

### Lifecycle

`main` is the stage of the main goroutine, one stage per step that can fail or that
others can observe. Beside it run the goroutine of `ListenAndServe` (`Listen`), the
operating system (`Signal`) and one goroutine per request (`Accept` to `TellMembers`, or
`Upgrade` for a WebSocket, which `Server.Shutdown` no longer counts). `missing` is history:
which request did not find what. `Authenticate` may refuse a request at any time, for
any error of Redis refuses a good token, and lets one pass only while Redis is open. `OpenRepository` may give a nil adapter without an
error, as the code does (section 4).

### Browser

One callback is one step. `sock[s] = "closing"` is a socket whose `onclose` has still to
run, whoever closed it. `reconnects`, `connectTimers` and `joinTimer` are the timers that
have been set and not fired; the code cancels none. `loginLoads` are the requests that
`login` awaits before it sets its own timer. `asked` are the logins that have been sent and not
answered: the form stays until one is answered, so another may be sent meanwhile, for the same or another
user, and its answer replaces the token without a disconnect. `left` is history: the socket in place
was opened before a token went without a disconnect. A reload of the page is a new page: it has
no timers and is `Init` with one `Login` (`checkExistingSession`). What a server does with
a connection is open (`Breaks` at any time), so no composition with `Hub` can add a
behaviour that the page does not already survive here.

## 3. Runs and what they show

All runs use `CHECK_DEADLOCK FALSE`: an instance stops when its bounds are used up,
every connection has ended, or the process has panicked.

| Run | Instance | Result |
|---|---|---|
| `hub_safety` | 2 users, 3 connections (2 of one user, also at once), 1 chat, buffer 1, 3 frames | holds: `RoomsMatchChatIDs`, `NoGhostMembers`, `NoGapInJoinedChat`, refinement of `Delivery` |
| `hub_liveness` | 2 connections of one user, also at once, buffer 1, 2 frames, 1 notification, fairness | holds: `CrashOnlyAfterOverflow`, `SendersAreServed`, `LostConnectionIsReleased` |
| `hub_crash` | 2 connections | **violated**: a full buffer ends the process |
| `hub_reconnect` | 2 connections of one user | **violated**: a late Unregister removes the new session |
| `hub_leak` | 1 connection, fairness | **violated**: a reader can be stuck for ever |
| `limiter` | 2 connections, clients that may send the address of one as X-Forwarded-For, limit 2, window 3, ticks 0 to 8 | holds: `WindowBound`, refinement of `SlidingWindow` |
| `chat_service` | 3 users (the name of one reads as the two others), 2 calls at a time, 1 chat, 1 message, 1 fault | holds: `ChatsAreComplete`, `MessagesBelong`, `NoticesAreTrue`, `EveryMemberIsToldOfDeletion`, `AllButOneAreToldOfCreation`, `PublishedWasStored`, `NothingLeftToDelete`, refinement of `ChatLog` |
| `chat_strangers` | the same users, 1 call at a time | **violated**: a chat is deleted by somebody who is not in it |
| `auth` | 2 names, 2 addresses, 2 passwords, 2 calls at a time, 3 links, 2 faults | holds: `RegisteredIsKept`, `VerifiedByOwnLink`, `DeadLinksHaveVerified`, `TokensAreEarned` |
| `chat_reads` | 3 users (one has another's name between commas in his), 2 chats, 3 messages, 3 seconds, limits 1 and 2 | holds: `EachChatIsListedOnce`, `MembersAreThoseNamed`, `OldMessagesAreRead`, `RepeatsHaveAReason` |
| `lifecycle` | 3 requests, 2 signals | holds: `RequestsFindTheHub`, `RequestsFindTheDatabase`, `SignalEndsProcess` |
| `browser` | 2 users, 2 logins answered, 1 of each user under way, 3 sockets, 1 chat, 2 attempts | holds: `SocketIsOfTheUser`, `OneConnectionPerLogin`, `GetsConnected`, `ListedChatsAreJoined` |

Why the bounds are enough. Hub: a buffer of 1 is full after one item, so the overflow
that takes 256 unread items in the code takes one here, and no guard looks at more of
the capacity than "full or not"; three frames are a join, a message and one more
(an overflow, a bad frame or a second message), three connections give one user an
old and a new one, one after the other or at once, and a second user in the same room. The notifications of
requests are left to `hub_liveness`, where they race with the hub for the buffer and for the map: with
both, the instance has too many states, and the theorems cover it. Rate limiter: nine ticks are
three windows, so an admission is pruned, another one expires unpruned and a third
window begins; two requests fill the limit. Chat service: two calls at a time give
every pair of operations and every interleaving of their statements; three users
are needed so that a member is neither the caller nor the one taken for the creator, and the one whose name
reads as the others makes each of them a stranger who passes and himself a member who does not; one fault
is a failure, a lost answer or a crash beside another call. Auth: two
names and two addresses are what a conflict of UNIQUE columns needs, two calls race
for them; the third link lets a registration be tried again after one that lost its answer. Chat reads: two chats are what a list could confuse or repeat; three messages and limits
of 1 and 2 are at least two pages with ties, and one message that arrives between them;
limits are asked below, at and above the greatest. The chats of `chat_reads` have two groups of members, one
with plain names, one with a name that reads as a stranger's. `ListsComeBackNameByName` is evaluated
over every list of up to three of ten names. Lifecycle: three requests can be in three different
stages when the signal comes; two signals find the channel full. Browser: two logins, which may both be under way,
leave timers and a socket of the first beside the second; three sockets are one more than
`OneConnectionPerLogin` allows to be live; the third attempt is refused as the sixth is in
the code, and nothing else looks at the number.

Symmetry (the two connections of one user in `hub_safety`, plain users and goroutines of `ChatService`, passwords and
goroutines of `Auth`) is used where it is sound: no
operator chooses an element, and the properties are invariants or about single steps.

## 4. Findings

1. **A full buffer ends the process** (`hub_crash`). `hub.go:126` and `hub.go:261`
   close `Send`; the Unregister of that connection closes it again (`hub.go:87`) in the
   goroutine of `Run`.
2. **A late Unregister removes the new session** (`hub_reconnect`). `hub.go:78` deletes
   the entry of the user without looking whether it is this connection's.
3. **A reader can be stuck for ever** (`hub_leak`). `hub.go:185` and `hub.go:218` block
   on a buffer that nobody drains once the writer has returned.
4. **Strangers pass for members** (`chat_strangers`). `chat_repository.go:163-168` splits the text of an
   array at commas, and no name is refused for its characters: if a participant is called `x,a,b,y`, the users `a` and
   `b` may post in the chat and delete it, and are told of its deletion, while the participant himself may not and
   is not. `README.md:122` and `chat_handler.go:181` say members only. `MessagesBelong`, `PublishedWasStored`,
   `EveryMemberIsToldOfDeletion`, `NoticesAreTrue` and `ChatLog` are therefore about the names that are read (`Named`);
   where all names are plain these are the participants (`PlainChatsAreClosed`).

What the models show of the service, the page and paging, without a run of its own:

- The wrong member may miss `chat_created`: the creator is taken from the first position of a list in map
  order (`chat_service.go:108`), and `README.md:90` says "Real-time notifications for chat events".
  `AllButOneAreToldOfCreation` is what holds: never more than one is left out.
- After a logout and a login within the delay of a reconnection there are two live
  connections, and the page may hold the one that is not open
  (`OneConnectionPerLogin` bounds them by the number of logins; `GetsConnected` counts
  either). The counter of attempts is not reset by a login, only by a connection that
  opens (`app.js:778`).
- `clearAllData` leaves the socket of the session open (`app.js:1526`), and so does the answer of a second
  login that was sent before the first was answered (`app.js:1211`): the page then sends on a socket of
  another user, until it logs out or connects again. `SocketIsOfTheUser` excepts just that.
- The answer of `loadUserChats` is stored whoever is logged in when it comes, and of two
  answers the older may come last (`app.js:889`).
- `deleteChat` is called with a text (`app.js:1109`) and compares it with a number
  (`app.js:1146`): a deleted chat leaves the list only with the notice of the hub.
- With ORDER BY `created_at` alone, messages with equal timestamps may change places
  between two pages, so that one is missed (`OldMessagesAreRead` excepts ties).
- A message is published in a later step than it is stored, and may be fanned out after
  a later one, or after the notice that its chat was deleted; a room of the hub keeps its
  members when the chat is deleted (`hub.go:98`, `hub.go:233`).
- The map of keys of the rate limiter only grows (`rate_limiter.go:54`).

Disagreements that need no interleaving to see and have no run of their own:

- A client chooses its key of the rate limiter: `X-Forwarded-For` is taken as it comes
  (`rate_limiter.go:75`), and without it the key is address and port (`rate_limiter.go:78`), so that the limit is per
  TCP connection. `README.md:175` says "IP-based and user-based limiting". `WindowBound` is about keys.
- A second click on a verification link panics: `GetUserByVerifyToken` returns nil and no
  error for a link that is used up (`user_repository.go:68`), and `auth_service.go:110` reads
  through it. The router's recovery answers 500; nothing is changed, which is how
  `FindByLink` of `Auth` takes it (`dead`), and `DeadLinksHaveVerified` shows that the account is verified by then.
- Logout ends nothing: the handler is empty (`auth_handler.go:79`), and `README.md:111` says
  "Token revocation", `auth_handler.go:74` "Terminates the user session". Nothing calls `RevokeToken`.
- A Redis that is out of reach refuses every good token with 401 (`auth_service.go:200`), while `/ready`
  answers "ready" (`container.go:215`).
- `NewRepositoryAdapter` returns nil and no error when a table cannot be created
  (`repository_adapter.go:43`, `:50`, `:54` return `e`, the error of `sql.Open`), and `initCore`
  panics at `container.go:101` instead of reporting it.
- A configuration that disables tracing cannot start: `initTracing` returns nil
  (`container.go:158`), and `container.go:90` takes the missing tracer for a failure.
- `Close` returns at `container.go:305` whenever there is a Redis client: the database and the
  tracer are never closed. Redis is closed before `Server.Shutdown`, so good tokens are
  refused while requests are still accepted.
- `isShuttingDown` is written by main and read by `/ready` without synchronisation
  (`container.go:302`, `:215`).
- The security headers and request ids are added with `Use` after the routes
  (`container.go:129`), and Gin gives them to the routes registered later, of which there are
  none; `README.md:45` shows them in front of the chain.
- `Dockerfile:37` probes `/api/health`, which is no route: the page of `NoRoute` answers 200
  whatever `/health` would say.
- The 404 of `GetChatMessages` (`chat_handler.go:166`) is never answered: the service does not
  look whether the chat exists.

## 5. Fairness

Weak fairness of each goroutine that can run: the Go scheduler is preemptive and
serves every runnable goroutine. Strong fairness of the hub's receive from each
connection: `select` chooses at random among ready channels and every channel keeps its
senders in a queue. Strong fairness of the hub's body: `Mutex.Lock` is enabled only
when no reader holds the lock, and a waiting `Lock` blocks new readers, so it is
granted. **No** fairness of the network, of clients, or of the end of a write: the
code sets no deadlines (`WriteDone` may never happen). A write to a peer that is gone ends, with an error or without, and so
does a read: `conn = "lost"` is a loss that the socket has noticed.

`Lifecycle`: weak fairness of the main goroutine, which the scheduler serves, and of
`Deadline`, which is the clock of `context.WithTimeout`. None of handlers, of
`ListenAndServe` or of requests: a handler may never return.

`Browser`: weak fairness of timers, of `onclose` and of the answers to requests, which
the event loop delivers one after another, and of each connection attempt, which opens
or fails. None of the user or of the server: a connection may break again each time.

## 6. Proofs

Hub (`Hub_proof`, any users, connections, chats, requests, capacity and bounds):

- `HubInvariant`: `Spec => []HubInv`. `CrashOnlyAfterOverflow` alone is not inductive: a
  state in which the hub is about to close a channel that is closed already satisfies
  it, and panics in the next step. `HubInv` adds `ProgramCounters` (which locals are set
  at which program counter, and that the entry of a user is one of his connections) and
  `ClosedForGood`: as long as no buffer has overflowed, a closed channel belongs to a
  connection whose reader has ended, that is not registered, that nobody is about to
  send to, register or close. The proof has three lemmas (`TypeStep`,
  `ProgramCountersStep`, `ClosedStep`), each with one step per action.
- `TypeCorrect` and `NoCrashBeforeOverflow` follow.

Hub, delivery and rooms (`Hub_delivery_proof`, any users, connections, chats, requests, capacity and
bounds; connections may overlap, buffers may overflow):

- `ServiceInvariant`: `Spec => []ServiceInv`, about connections. `ServiceInv` says that a connection which is not
  registered yet has joined nothing and is not closed, and that the sender of a `join_chat` still has a
  connection (`Handshakes`); that the map holds connections in service, and that one in service
  is closed by an overflow only (`Entries`); that what a goroutine has looked up is still in service
  when it sends, and the entry of its user still the same or gone, for Register and Unregister wait for
  the read lock (`LookedUp`). `ServiceStep` reduces the actions to the four effects they have on who is
  live and who is registered, `RoomChanges` to those on the maps.
- `DeliveryInvariant`: `NoGapInJoinedChat` is not inductive: it needs that the loop over the room visits
  members only and each once (`FanOut`), that nothing of a chat waits in the buffer of a connection that does
  not follow it (`OnlyFollowed`), and `ServiceInv`. With overlapping connections the entry of a user may
  change or go between two messages; it does not change during a fan-out, because Register and
  Unregister are bodies of the same goroutine, and each change starts or ends what the connection
  follows. What appending and taking do to a buffer without a gap are lemmas about
  sequences (`GaplessNext`, `GaplessOther`, `GaplessTake`); `DeliveredChanges` says
  that a member is left by the loop in one step only, and `VisitDelivers` that this step puts the
  message into the buffer of his connection, unless the connection overflows.
- `NoGapInDelivery` follows.
- `HubImplementsDelivery`: the mapping (end of `Hub`) takes the rooms for the chats of a user and lets a
  registered connection that has not overflowed be in service. `RegisterApply` is `Register`,
  `JoinChat` is `Join`, `BroadcastRecv` of a message is `Post`, `WriteTake` of a message of a followed chat
  is `Take`, `UnregisterApply` and the `CloseSend` of an overflow are `Part`, everything else is a stutter; so are
  `WriteTake` of what an unregistered connection still finds in its buffer and `join_chat` sent
  twice. `TakeStep` takes from `NoGap` that what is taken next is the next message of the chat.
- `RoomsInvariant`: `Spec => []RoomsInv`, about users who never had two connections at once.
  `RoomsMatchChatIDs` relates three maps that different steps change, and says nothing of the steps
  to come. `RoomsInv` adds `OneAtATime` (of their connections one is live), `OpenIsRegistered` (it is the one in the
  map until it is closed) and `MembersServed` (whoever is in a room has a connection in service).
- `RoomsMatch`, `NoGhosts` and `SerialSessionsAreRegistered` follow. The last one states for these users what
  `hub_reconnect` refutes for the others: overlapping connections of the same user are the only reason.

Rate limiter (`RateLimiter_proof`, any keys, limit, window and length of time):

- `LimiterInvariant`: `WindowBound` speaks of the log of all admissions, `Allow` sees only
  the slice. `SuffixOfLog` connects them: the slice is the end of the log, and what is
  missing had expired. It is inductive because the clock never goes back.
- `LimitHoldsInEveryWindow` (`WindowBound`, per key); `LimiterRefinesSlidingWindow` (the number of timestamps `Allow`
  counts is the number of log entries in the window, lemma `CountIsInWindow`).

Chat service (`ChatService_proof`, any users, whatever their names are read as, goroutines, ids and faults):

- `ServiceInvariant`: `Spec => []ServiceInv`. None of the properties is inductive by itself,
  because a call uses what it read in an earlier statement. `ServiceInv` adds `SerialIds`
  (an id is used once, and a chat that is gone does not come back), `Transactions` (an open
  transaction has an id that nobody sees, and has inserted or will insert every
  member) and `CallsKnow` (what each call has learnt, by statement: it stays true because
  the members of a chat never change). The proof first shows that a step does one of four
  things to the tables (`TableEffects`), so that statements about tables and histories
  need four cases instead of twenty actions; `KnowledgeStays` is the argument that no
  other call can make the knowledge of a call false.
- `CompleteChats`, `BelongingMessages`, `TrueNotices`, `StoredBeforePublished`, `DeletionIsTold`, `CreationIsTold`,
  `NoMessagesLeft` follow, and `PlainChatsAreClosed`: where names are plain, only participants have posted.
- `ServiceImplementsChatLog`: COMMIT is `Create`, INSERT INTO messages is `Post`, DELETE FROM
  chats is `Delete`, or a stutter when another call has deleted the chat; everything
  else is a stutter.

Auth (`Auth_proof`, any users, calls and faults):

- `AuthInvariant`: `Spec => []AuthInv`. `AuthInv` adds to the properties that addresses are
  distinct (`EmailsUnique`), what each call knows at each access (`CallKnows`: a
  registration that is about to be confirmed is in the table, a login that is about to
  sign may still log in) and where links are: the link of an account goes only when it is verified
  (`UsedLinksGo`), and every link that somebody can know was stored (`LinksWereStored`).
  `AccountEffects` reduces the steps to three effects on the
  table; `AccountsStay` is why knowledge of an account stays true.
- `RegistrationsAreKept`, `LinksVerify`, `LinksAreUsedUp`, `EarnedTokens`, `AuthTypes` follow.

Lifecycle (`Lifecycle_proof`, any requests and number of signals):

- `LifecycleInvariant`: `Spec => []LifecycleInv`. What a request finds was set up stages
  before it arrived, so `LifecycleInv` adds `Stages` (what each stage of the main goroutine
  has set up, and that nothing is served before the last of them) and `Served` (a request that is
  served has found all). One lemma, `LifecycleStep`, has one step per
  action.
- `HubIsThere`, `DatabaseIsThere`, `LifecycleTypes` follow.

Chat reads (`ChatReads_proof`, any users, chats, limits and bounds):

- `ReadsInvariant`: `Spec => []ReadsInv`. For the list of chats it adds `OneTime` (all participants
  of a chat, and those of a transaction that is still open, have one `joined_at`). For the
  pages, `OldMessagesAreAhead`: an unseen message of the first moment has at least as
  many newer messages as the reader has received, so that the next OFFSET cannot pass it; it is
  inductive because messages only arrive and a page is never longer than asked for
  (`LimitIsClamped`). `SeenIsNewest` says the opposite for a chat that does not change: what the
  reader has seen are the newest messages, each once. `PageIsBetween` and `PageMovesOn`
  are what LIMIT and OFFSET do, whatever the order of ties; `FirstStays` and `MessagesHaveChats` take
  the deletion of the chat into account.
- `ListedOnce`, `NothingOldIsMissed`, `NothingIsRepeated`, `ReadsTypes` follow.

Browser (`Browser_proof`, any users, chats, sockets, logins and attempts):

- `BrowserInvariant`: `Spec => []BrowserInv`. `SocketIsOfTheUser` is inductive together with
  `NoSocketWithoutUser` (the end of a session leaves no socket for the next user, unless it ended without disconnect,
  which `left` records and the property excepts, until the next disconnect or connection). `OneConnectionPerLogin` counts live sockets and
  timers: each step moves at most one from a timer to a socket, and only the answer of a login adds one, however many
  logins are under way; the count needs that the live sockets are finitely many.
- `NoForeignSocket`, `ConnectionsDoNotMultiply`, `BrowserTypes` follow.

The inductive invariants are in no configuration: they conjoin properties that the runs
check with what the theorems need, and the theorems establish them for every instance.

The assumptions are the named ASSUMEs of the modules on their constants
(`ConstantsAssumption`, `LimiterAssumption`, `ServiceAssumption`, `AuthAssumption`,
`LifecycleAssumption`); TLC evaluates them in every run.

## 7. Only model-checked

Liveness (`SendersAreServed`, `LostConnectionIsReleased`, `SignalEndsProcess`, `GetsConnected`,
`ListedChatsAreJoined`): fairness and ENABLED are beyond the prover. What the text of an array
is (`MemberList`) is a fold over data: induction over it is beyond the prover too, so
`MembersAreThoseNamed` stays with TLC. `OnlyMembersDelete` and the properties of the other violation runs are false. Every other property of a passing run is a theorem.

## 8. Not modelled

Metrics are registered and never incremented; tracing (but that it must be there), logs
and the SMTP dialogue are output only; security and request-id middleware set headers;
the values of the configuration are constants; e-mail errors are ignored by the only caller;
documentation, styles and what `app.js` draws carry no state that the modelled parts read.
Encryption is a pure function around AES. `UpdateMessage`, `DeleteMessage`,
`getChatMembers`, `getUsernameByID` have no caller. The composition of `ChatService` with
`Hub` is left out: nothing in the code relates a room to the participants of its chat, nor
the order of insertion to the order of publication, so there is nothing to check that the
two modules do not show by themselves.
