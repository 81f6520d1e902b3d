# SyncSlate in TLA+

TLA+ models of the SyncSlate backend (a chat server: Go, SQLite, WebSockets), the
TLC configurations that check them, and TLAPS proofs. Every definition is
translated from the Go source; `PROJECT.json` names the lines.

Contents: [parts](#1-the-system), [modules](#2-modules-and-code),
[runs](#3-runs), [findings](#4-where-the-code-disagrees-with-what-it-says),
[bounds and fairness](#5-bounds-and-fairness), [proofs](#6-proofs),
[limits](#7-what-is-not-modelled), [plan](#8-plan).

## 1. The system

One process serves HTTP requests (one goroutine each) and WebSockets (two
goroutines each) over one SQLite file. Nothing but the hub, the send queues and the
rate limiters lives in memory. Handlers share tables, not locks: almost every
handler reads with one statement, decides, and writes with another, and any other
handler may run in between. This is where most of the hard behaviour is.

| Part | State | Operations | Talks to | What makes it correct |
|:--|:--|:--|:--|:--|
| Messages (`message/`, `ws/router.go`) | `messages`, `chats.updated_at` | create, edit, delete, over HTTP and WebSocket | hub (broadcast), `chat_members` | a deleted message keeps its text; the 48 hour window; members' feeds agree with the table |
| Requests (`request/`) | `message_requests`, `blocks` | create, accept, decline with or without a block | `chats`, `chat_members` | a chat per accepted pending request; no request across a block |
| Groups (`group/`) | `chats`, `chat_members` | create, add, remove, leave | same tables | only owners and admins manage; direct chats stay closed |
| WebSocket client (`ws/client.go`, `ws/handler.go`) | a queue of 256 events, `closed` | SendJSON, ReadPump, WritePump | hub, router | in order, once; nobody waits for a slow peer; both goroutines end |
| Hub (`ws/hub.go`) | connections per user | Register, Unregister, SendToUser, presence goroutines | clients, `users` | knows who is connected; presence converges; ghosts are silent |
| Sessions (`auth/`) | `users`, `sessions`, tokens | register, login, refresh, logout, validate | | one account per name; refreshing replaces; logging out revokes |
| Database pool (`database/`) | DB_MAX_READERS + 1 connections | every query | all services | every call returns, as long as lists do not hold all connections |
| History (`chat/`) | reads `messages` | pages, chat list with unread count | messages | no message twice, no gaps |
| Rate limiter (`middleware/ratelimit.go`) | a bucket per address | Load, Store, Allow | every HTTP route | one bucket per address |
| Life cycle (`cmd/syncslate/main.go`, `database/`) | `schema_migrations`, the schema, where the process is | migrate, listen, signal, shut down, be killed | everything | nobody serves an older schema; migrations in order, once; a shutdown ends |
| Media (`media/`) | `media`, a file for each | upload; download reads | its store | what can be looked up can be served |
| Pins and mutes (`chat/`) | `chat_pins`, `chat_mutes`, `chats.pinned_message_id` | pin and unpin a chat, a message; mute | hub (broadcast) | one place each; members see what is pinned |
| Folders (`folder/`) | `chat_folders`, `chat_folder_chats` | create, update, delete | | one place each; no chats without their folder |
| Contacts (`contact/`) | `contacts` | add, remove | `users` | an answered id is an id of a row |
| Profiles (`user/`) | columns of `users` | get, search, update | | a row written by its owner with one statement |

Hard behaviours: interleavings of handlers between two statements (all services);
two connections of one user; goroutines that outlive what they report (presence);
a blocking receive inside a send loop (WritePump); a data race (SendToUser);
ignored errors (blocks, saved chat, refresh, cursor); nested queries on a bounded
pool; timestamps of one millisecond; a place read by one statement and taken by the
next; a script and its record, a file and its row, a pin and its check. `PROJECT.json` lists them under
"hazards", each
at its line, with the properties that watch it.

## 2. Modules and code

The style is the same throughout. A **worker** is a goroutine that runs one call at a
time; `call[w]` holds where it is and what it has read. An action is what happens
up to and including one database access (or one broadcast): its guard is the code's
condition, and a call that fails a check is simply not begun, because it changes
nothing. Ids are fresh, so that an id is used once. Each deliberately wrong variant
of a definition (`Count_OffByOne` before `Count`) is there to show that a property
notices; no specification uses it.

| Module | Models | State in the code |
|:--|:--|:--|
| `Messages` | `message/service.go` behind `ws/router.go` and `message/handler.go` | `stored` = table messages, `member` = chat_members, `view` = what the events that one observer received say |
| `ChatTables` | tables chats and chat_members, calls in progress | `kind`, `role`, `call` |
| `Requests` EXTENDS `ChatTables` | `request/service.go` | `status` = message_requests, `blocks`; `missed` is history |
| `Groups` EXTENDS `ChatTables` | `group/service.go` | |
| `Membership` EXTENDS `Requests`, `Groups` | the two services over the same tables | |
| `Outbox` | abstract: what a client promises to senders | `accepted`, `delivered`, `open` |
| `Client` | `ws/client.go` and `ServeHTTP`; implements `Outbox` | `queue` = chan send, `frame` = what WritePump has written and not closed, `closed`, `open` = the connection |
| `Hub` | `ws/hub.go`, handleChatRead, handleChatTyping | `clients` = h.clients, `mu` = h.mu, a *job* is a run of handlePresenceChange or of one of the handlers, `left` is where its range over the map is |
| `Sessions` | `auth/service.go` | `accounts`, `sessions`, `access` = the JWTs handed out; `root`, `disturbed` and `ended` are history |
| `ConnPool` | the pool of `database/sql`, and GetUserChats and GetFolders as its users | `outer`, `inner` = the connections a handler holds |
| `History` | GetChatMessages | `at` = created_at, `bound` = beforeTimeMs, `times` = how often each message was returned; `cut` is history |
| `RateLimiter` | `middleware/ratelimit.go` | `ips`, `tokens` |
| `InOrder` | abstract: what the migration runner promises of the schema | `effect` |
| `Migrations` | `RunMigrations` and the tables it leaves | `pc` = where main is, `at` = the file, `effect` = the schema, `record` = schema_migrations; `lost`, `raced` are history |
| `Media` | `media/service.go`, `media/store.go` | `request`, `file`, `row` = table media |
| `Server` EXTENDS `Migrations`, `Media` | `main.go`: several processes over one file and one port; implements `InOrder` | `on` = the process an upload runs in |
| `Handlers` | a call of `Pins`, `Folders`, `Contacts`, and how the end of a list is found | `call` |
| `Pins` | PinChat, UnpinChat, MuteChat, UnmuteChat, PinMessage, UnpinMessage with their broadcasts | `pins`, `muted`, `pinned`; `shown` = the pin as an observer's events have it; `doubled`, `strayed`, `refused` are history; `Listed` = what GetUserChats shows as pinned |
| `Folders` | `folder/service.go` | `owner`, `placeOf`, `chatsIn`; `arranged` is history |
| `Contacts` | `contact/service.go` | `contact`; `answered`, `void` are history |
| `Settings` EXTENDS `Pins`, `Folders`, `Contacts` | the handlers by which users arrange what they see | |
| `MC_*` | small instances for TLC | |
| `CountingProof` | theorems about `ConnPool`, `RateLimiter` and `History`, which for this have names of their own (`PoolInit`, `LimiterSpec`, ...) | |
| other `*Proof` | theorems about the module of that name, see section 6 | |

Composition: `Membership` composes requests and groups (they interfere through the
tables, and the property that direct chats are closed depends on both). `Client`
contains the hub's side of one connection (registered, sent to); `Hub` contains many
connections and treats the send of an event to one as a step that cannot wait, which
is what `Client` shows of SendJSON. `Messages` lets members come and go, as `Groups`
does. `Server` composes the life of a process with the migrations that come before it
serves and the uploads that a shutdown or a crash may cut short. `Settings` composes
three services that share goroutines and no table.

Points where the model is more than a transcription:

- `Hub`: SendToUser ranges over a Go map while Register and Unregister write it. The
  outcome is undefined; the model lets the process stop (`crashed`), and lets every walk
  that overlaps the write see it or not.
- `Messages`: StatementFails and Crash stop a call between two statements. Tables survive.
  A broadcast begins with a query for the members of the chat, and when that fails nobody is told
  (ws/hub.go:89): StatementFails covers the broadcasts too, here and in `Pins`.
  `strayed` remembers the messages whose last write was not, or not in order, followed by its event.
  A row has its deletion time, because a deleted message may be deleted again and gets a new one.
- `Migrations`: a script and the insert of its record are one transaction of SQLite, so
  they are one step; the insert may still fail and be ignored within it. A script that only
  says IF NOT EXISTS may run again; one that adds a column fails the second time.
- `Server`: a killed process may be started again, and a second one may run next to it.
- `Client`: a frame reaches the peer when its writer is closed without error; a
  broadcast may still hold a client that has left the map.
- `Sessions`: a refresh token stands for the row that holds its hash; an access token
  is accepted until it expires, whatever was done to the sessions. A logout whose DELETE fails
  answers "ok" like any other (auth/handler.go:91): it is a step of Logout that ends nothing.
- `ConnPool`: nothing in the code bounds how many lists are read at once, so there may be as many
  handlers that nest as connections, and more.
- `History`: rows appear in another order than that of their timestamps, because
  the timestamp is taken before the INSERT. An iteration that ends with an error returns what had
  been read so far (FetchCut): rows.Err() is never called (chat/service.go:183).
- `Media`: a file is "spoiled" when an error that is ignored, of Seek (media/service.go:65) or of
  Close (media/store.go:46), left less in it than was sent.

## 3. Runs

"Pass" runs check that the listed properties hold. In the other two TLC finds the code in
disagreement with what the repository says.

| Run | Expect | Shows |
|:--|:--|:--|
| `messages` | pass | Two WebSockets of one user and HTTP of another, crashes, failing statements: `ToldIsStored`, `FeedConverges` (when all is quiet the observer's feed equals the table), `DeletedIsFinal` (but for the deletion time), `FrozenAfterWindow`, `DeleteAnnouncedOrStrayed` |
| `messages_http_delete` | violation | `DeleteAnnounced` over HTTP |
| `membership` | pass | Overlapping calls, ignored errors: `DirectChatClosed`, `OwnerlessIsFinal`, `BlockStopsRequests`, `BlockedHasBlock`, `AnsweredIsFinal` |
| `membership_double_accept` | violation | `AcceptsPending` with two calls of one user |
| `client` | pass | `ImplementsOutbox` (refinement), `CloseEndsClient`, `AcceptedArrives` |
| `hub` | pass | Connections that come and go, ghost mode, failing statements: `NoLostConn`, `PresenceConverges`, `GhostBounded` |
| `sessions` | pass | Overlapping handlers, failing statements, expiry: `OneAccountPerName`, `Rotation`, `LogoutRevokes`, `LoginContinues` |
| `pool` | pass | As many handlers that nest as connections: `NeverStuck` and `EveryCallReturns`, each but for a pool that is exhausted |
| `history` | pass | Rows stored between pages, lookups that fail, pages that break off: `NoRepeat`, `NoGaps` |
| `ratelimit` | pass | `BucketPerRacer` |
| `server` | pass | Two processes that migrate, serve, are stopped, fail and die: `ServesMigrated`, `RerunExplained`, `MediaIsWhole`, `ImplementsInOrder` (refinement), `ShutdownEnds` |
| `settings` | pass | Overlapping handlers, failing statements, crashes: `PlacesDistinct`, `PinConverges`, `ForeignPinsRefused` (the chat list shows a message of another chat only while the call that pinned it has yet to find out, or after it got an error), `AnsweredIdHolds` |

`TypeOK` is an invariant of the runs `messages`, `membership`, `client`, `hub`, `sessions`
and `server`, and a theorem for these, `Settings` and the three small modules. Several properties carry an exception
that says how far the code goes: calls that were checked before a block
(`BlockStopsRequests`, `AnsweredIsFinal`), statements whose error is ignored (`missed`; `blind` of `Hub`),
writes of one message or one pin that overlap until both are announced, or are never announced
because the process dies, a statement fails or the member query of the broadcast does (`strayed`),
refreshes that overlap (`disturbed` of `Sessions`), logins that a logout did not end (`ended` says which it did),
a refresh whose account lookup or insert fails (`LoginContinues`),
an exhausted pool (`Exhausted`), a page that broke off (`cut`), pins that were answered with an error or
not at all (`refused`), files that an ignored error spoiled (`MediaIsWhole`), presence goroutines that
overlap or fail (`disturbed` of `Hub`), places that were read by two calls, or chosen
(`doubled`, `arranged`), ids that a repeated add made up (`void`), migrations without a record
or run by two processes (`lost`, `raced`),
equal timestamps (`NoGaps`), requests that race for a bucket (`early`).
Section 4 says what happens inside the exceptions.

Deadlock is checked in the message, membership, `server` and `settings` runs. It is
switched off where the system really stops: all connections of the pool wait for one another (section 4,
item 10; `NeverStuck` says that there is no other way), connections and tokens are used up, the process has been
stopped, the reader has reached the end, requests have all been answered.

## 4. Where the code stops short

The first two are counterexamples of runs; the quotations are in `PROJECT.json`.

1. Deleting over HTTP tells nobody (README.md:75 "Soft-delete & broadcast").
2. A request accepted twice at once gives two direct chats (request/service.go:87).

The others show when an exception of a property or an assumption of a theorem is dropped,
or are read off an action:

3. An edit that was checked before the deletion rewrites the deleted message, from a second
   connection of its sender: `DeletedIsFinal` holds from the moment no edit of the
   message is under way (message/service.go:93). A second delete of a deleted message is not
   refused either: it rewrites the deletion time and is announced again (message/service.go:126-140).
4. A request can become pending across a block that was made while it was checked
   (request/service.go:156), or when the lookup of the block fails (147).
5. A decline with a block may say "blocked" without a block, when the insert fails (211).
6. What was read before ghost mode was switched on is sent after it (ws/router.go:131,
   ws/hub.go:113); a lookup of ghost mode that fails counts as "no ghost", and the event is
   sent (ws/router.go:122 and 147, ws/hub.go:110); last_seen of a ghost is updated (ws/hub.go:107).
7. One refresh token, used twice at once, gives two sessions, and a refresh that overlaps a logout
   leaves a session behind it (auth/service.go:205-225).
8. Logout ends every session of the user (auth/service.go:228); README.md:60 says
   "Revoke current session".
9. "Saved Messages" is never created: the schema refuses the type and the error is ignored
   (auth/service.go:80).
10. As many chat lists at once as there are connections stop each other for good
    (chat/service.go:76, folder/service.go:40): the server answers nothing that
    needs the database any more. `ExhaustionIsForGood` proves that it never recovers.
11. A message that shares its millisecond with the last one of a page is on no page
    (chat/service.go:166).
12. Unread counts compare random ids (chat/service.go:138).
13. The first requests of an address can each make a full bucket (middleware/ratelimit.go:28).
14. Two writes of one message, or of one pin, may be announced in the other order: the members
    see the older one until the next write (message/service.go:93 and chat/service.go:256, whose
    broadcasts come later, in ws/router.go and chat/handler.go).
15. A pin of a message of another chat is refused with an error after it was written: the
    pin stays, and nobody is told (chat/service.go:256). The chat list then shows its id and its content to
    the members of a chat it is not of (chat/service.go:53-60).
16. Two chats, or two folders, can get one place: two calls read the same maximum, or the lookup
    fails and its error is ignored (chat/service.go:231, folder/service.go:76).
17. Adding a contact again answers with an id that no row has (contact/service.go:73).
18. A migration whose record could not be inserted is committed all the same; on the next start
    it runs again, and if it adds a column the server cannot start any more
    (database.go:97). Two processes that start at once can meet the same end, once.
19. An upload that fails or is cut short leaves a file that no row names, and nothing removes it
    (media/service.go:82). One whose Seek or Close failed is answered, and its file is not what was
    sent (media/service.go:65, media/store.go:46).
20. A broadcast whose query for the members fails tells nobody, and its handler goes on as if it had
    (ws/hub.go:89): what was written, edited, deleted or pinned is then stored and not announced.
21. A logout whose DELETE fails answers "ok" and ends nothing (auth/handler.go:91).
22. A refresh whose account lookup or insert fails has deleted its token: the login is lost
    (auth/service.go:205-214, 157).
23. A page of the history may break off and look like the last one (chat/service.go:183).

## 5. Bounds and fairness

Every bound is a constant in the `.cfg`. They are small because the interesting cases are:

- *Messages*: one message, because handlers only touch the row of their own message; two
  texts, so that an edit can be lost or overwritten; a user with two connections and one who uses
  HTTP. `Window = 0`, `MaxTime` two: before, at and after the end of the window. One user leaves and returns
  (`Leaver`): membership is only read when a message is created. The `messages_http_delete` run needs two workers.
- *Membership*: a pair in both directions, two workers for one side (overlap with oneself)
  and one for the other, a third user who can only intrude. One chat, direct or group, is
  enough for what is said of each chat; the second accept needs two.
- *Client*: `Cap = 2` and seven events (nine with those of Register): the queue fills,
  is drained partly and filled again while a frame is being written.
- *Hub*: a user with two connections and a peer, two ghost changes (on, off), any statement of a
  job failing. `MCBounds` limits how much of this happens together, and `MCView` leaves
  what no guard and no property reads out of the fingerprint.
- *Sessions*: two workers, three tokens (a login and two that follow it, or two logins),
  two registrations of one name; time passes both expiries.
- *ConnPool*: three handlers that nest, one that does not, three connections: the least with which the
  pool can be exhausted, and can also be one connection short of it. The argument is one of counting, and
  section 6 proves it for every number.
- *History*: five messages and pages of two, so that pages are full, partly full and empty, and
  four timestamps, so that two messages must share one.
- *RateLimiter*: five requests of one address and one of another, a burst of two and one
  token that time brings.

- *Server*: two processes, any number of starts and failures; three migrations, of which the last adds
  a column (the first fails harmlessly, the middle one has both neighbours); two uploads, so
  that one can be cut while another is answered.
- *Settings*: two goroutines of one user, one of another; two chats with a message each, two
  folders, three ids, places up to two. `MCOnePart` lets one part be in use at a time: the parts
  share goroutines only, and a goroutine that is busy in one is to the others one that is absent.

Symmetry is used in `history` only, for the messages.

Fairness, in four specifications: `Messages` (a goroutine that has begun a call goes on: no step of
it waits for anything), `Client` (both goroutines are scheduled; the handshake has a
deadline of 5 seconds and the ping a ticker of 60), and `ConnPool` (a handler that does
not wait goes on; one that waits is served infinitely often when the pool is
infinitely often free: `database/sql` hands a returned connection to one of those that
wait, chosen at random), and `Server` (the ten
seconds of Shutdown pass; that uploads make progress is not assumed). Nothing is assumed about peers, users
or the network.

## 6. Proofs

TLAPS checks the following for every value of the constants. TLC checks the same
properties in the runs, but for the type invariants of `ConnPool`, `RateLimiter`, `History` and
`Settings`, `StaysExhausted` and the properties that are put in words below.

| Module | Theorem | Property | Assuming |
|:--|:--|:--|:--|
| `MessagesProof` | `TypeCorrect`, `NeverAheadOfTheTable`, `WindowIsFinal` | `TypeOK`, `ToldIsStored`, `FrozenAfterWindow` | |
| | `DeletionIsFinal` | `DeletedIsFinal` | |
| | `FeedsConverge` | `FeedConverges` | |
| | `DeletionIsOwed` | a deletion that has not strayed is announced, or about to be | |
| | `SequentialDeletion` | nothing of a deleted message but its deletion time is ever written again, not even by an edit that was checked before | one call at a time per user |
| `MembershipProof` | `TypeCorrect`, `DirectChatsAreClosed`, `OwnerlessGroupsAreFinal`, `BlocksStopRequests`, `BlockedRequestsHaveBlocks`, `AnswersAreFinal` | `TypeOK`, `DirectChatClosed`, `OwnerlessIsFinal`, `BlockStopsRequests`, `BlockedHasBlock`, `AnsweredIsFinal` | |
| | `ChatsComeFromPending` | `AcceptsPending` | one call at a time per user |
| `ClientProof` | `TypeCorrect`, `DrainIsImmediate`, `ClientIsOutbox` | `TypeOK`, `DrainNeverWaits`, `ImplementsOutbox` | |
| | `NothingIsDropped` | accepted = delivered, frame, channel while the connection lives | |
| `HubProof` | `TypeCorrect`, `RegistryIsRight`, `GhostsAreSilent`, `PresenceIsTrue` | `TypeOK`, `NoLostConn`, `GhostBounded`, `PresenceConverges` | |
| `SessionsProof` | `TypeCorrect`, `NamesAreUnique`, `LogoutIsFinal`, `RefreshRotates`, `LoginsContinue` | `TypeOK`, `OneAccountPerName`, `LogoutRevokes`, `Rotation`, `LoginContinues` | |
| `CountingProof` | `PoolTypeCorrect`, `LimiterTypeCorrect`, `HistoryTypeCorrect` | `PoolTypeOK`, `LimiterTypeOK`, `HistoryTypeOK` | |
| | `PoolIsNeverStuck`, `ExhaustionIsForGood` | `NeverStuck`, `StaysExhausted` (an exhausted pool serves nobody any more) | |
| | `RateIsBounded` | `BucketPerRacer` | |
| | `PagesAreDisjoint`, `HistoryHasNoGaps` | `NoRepeat`, `NoGaps` | |
| `ServerProof` | `TypeCorrect`, `SchemaIsComplete`, `RerunsAreExplained`, `RowsHaveFiles`, `MigrationsAreInOrder` | `TypeOK`, `ServesMigrated`, `RerunExplained`, `MediaIsWhole`, `ImplementsInOrder` | |
| `SettingsProof` | `TypeCorrect`, `PlacesAreDistinct`, `PinsConverge`, `ForeignPinsAreRefused`, `FoldersLeaveNothing`, `AnsweredIdsHold` | `TypeOK`, `PlacesDistinct`, `PinConverges`, `ForeignPinsRefused`, `NoOrphans` (a folder that is gone keeps nothing), `AnsweredIdHolds` | |

The assumptions are the ones without which TLC finds a violation (`membership_double_accept`;
section 4, items 2 and 3).

Why the invariants are what they are:

- **Messages.** `TypeOK` alone does not say that a call between two statements names a
  message that exists and belongs to its worker (`CallSound`); that is what makes
  "broadcast after the write" imply `ToldIsStored`. `DeletionIsFinal` needs no more: an edit
  begins on a live message only, and the text of a deleted row changes by an edit that has begun (a second
  delete writes the deletion
  time only). For
  `SequentialDeletion` the invariant says besides that the message of an edit that is about to
  be written is live (`EditsLive`): its sender is the only one who could delete it, and
  is busy editing. `FeedSound` is the invariant behind `FeedConverges`: a message that has not
  strayed is owed at most one event, by a WebSocket worker, and that event brings the observer's copy
  up to the row (`Announces` says what this means at each place of a call); if it is owed
  none, copy and row agree. It has to speak of parts of the copy: an edit leaves the state
  alone and a deletion the text, so that each must find the other part right already.
- **Membership.** `CallSound` says what each call carries; `RolesSound` that a direct
  chat has plain members only and an absent chat none. AddMember needs a manager, so
  `DirectChatClosed` follows. `AcceptsSound` says that the request of an accept
  in progress is pending while only its recipient could process it.
- **Client.** `Pumping` relates the goroutines' positions (there is one writer, and the
  counted events are still queued); `Flow` is the heart: what was accepted is what was
  delivered, then the frame, then the queue, as long as the connection is open;
  `Numbered` and `Started` tie the events to their numbers and the writer to its
  birth. The refinement maps a frame's flush to `Deliver`, SendJSON to `Accept`, any close
  to `End`, and everything else to stuttering.
- **Hub.** `LockSound`: who holds `mu` is between load and store, and what it loaded is
  still true. `WalkSound`: only a job that sends has somebody left to send to.
  `SpawnSound`: presence jobs exist for connections that came, and end for those that left.
  `PresenceIsTrue` takes two more. `AimSound`: a job has only connections of other users left,
  which have come, so that nobody who connects later is told what is no longer true. `PresenceSound`, for
  a user whose jobs did not overlap: at most one job is under way and what it says is what the
  registry says; who has heard of the user and will not hear from that job has heard
  the truth. A second job that overlaps breaks the first half at once, which is why
  `disturbed` is in the property; a walk that misses a write of the map does not, because who
  comes meanwhile has heard nothing, and who goes does not listen.
  `GhostsAreSilent` rests on two facts about a step: only Check lets a job past the check
  of ghost mode (`PassedByCheck`), and a failed lookup is forgotten when its job is over
  only (`BlindUntilFinish`).
- **Sessions.** `CallSound` and `TokensSound` say what calls carry and that tokens descend
  from tokens that were made. `KnownUsers`, that a handler goes on for a stored account only, is what
  `TypeOK` asks beyond the
  types. `RevokeInv` adds that a login being refreshed has not been ended (Logout leaves those out),
  and that no access token outlives AccessTTL. `RefreshAlone` says
  what a refresh knows of its login while no other refresh of it is under way: the token
  it holds is the only one, so that after the delete there is none. `LineSound` is for
  `LoginsContinue`: a token is of the user of the login it descends from, a call carries the user of
  its token, and a token that was found expired stays expired; hence the only calls that end
  a login are those the property names. It is proved in two steps: `CarriedStep` for a login that is between
  its tokens, whose refresh can only create the next token or fail, and `HeldStep` for one that has a token.
- **ConnPool.** `Holding` says what a handler holds at each place. If all wait and no
  connection is free, every connection is the outer one of a handler that nests: this is what `Exhausted`
  says. From there no step gives a connection back,
  because those who hold them all wait.
- **RateLimiter.** `BucketsSound`: every bucket in the map or in use was made by a request that
  found none (`early`), for the same address. `BucketsGive`: what a bucket has served and still has
  is at most a burst and a token per tick. The requests served of an address map to its buckets, with at
  most that many on each; the lemma `BoundedFibres` counts them.
- **History.** `PagesDescend`: what the reader has is at or above the next page's bound (or its
  cursor's timestamp, before the lookup), and so on no later page, however late rows with
  old timestamps appear. `PagesCover`: what was there at the start and is not below
  the bound has been seen, or shares its timestamp with a message that has; whatever is neither is older than
  all that has been seen, at all times. A page that breaks off keeps this, because what it has is the newest part
  of what it should have.
- **Server.** `AtSound`: the scripts before the one a process is at have taken effect, because
  it read their records or ran them, and no script is ever undone. With `PrefixSound` (the effect is 1 to k)
  the script that is run is one of the first k or the next: this is the refinement of
  `InOrder`. `LostSound`: an effect without a record is lost; hence a process that finds no
  record and an effect either meets a lost one, or read before another committed.
  `UploadSound`: an upload that reached its insert has a file that was copied to its end.
- **Settings.** `NextPlace` is a CHOOSE; that there is such a place rests on the well-foundedness of
  the naturals. `PinsBehind` and `FoldersBehind`: what a call has read is behind all places in
  use until another call of the user takes one. `PinSound`: of a chat whose pin does not stray, at
  most one event is under way, it is that of the pin in the table, and when there is none the members
  see the pin. `ForeignSound`: a foreign pin in the table is one that a call is about to look at, or
  has been refused; and only a message of the chat is ever broadcast. `Kept` says that the parts leave each
  other's calls alone, so that each
  invariant is proved against the steps of its own part.

Each of these invariants was first checked by TLC on the instance of its run.

Only model-checked: the properties under fairness (`DeleteAnnouncedOrStrayed`, `CloseEndsClient`,
`AcceptedArrives`, `EveryCallReturns`, `ShutdownEnds`), because liveness and ENABLED are out of the
prover's reach. Of three of them the safety half is proved, that is, that the step which
remains is there to be taken: `DeletionIsOwed`, `NothingIsDropped`, `PoolIsNeverStuck`. All
other properties of the passing runs are theorems.

## 7. What is not modelled

- Contents, profiles, avatars, MIME types, JSON, HTTP status codes, routing, configuration, health
  and logging, the declarations of models and events: data without control, or pure I/O.
- Passwords, hashes and token signatures: a credential is right or it is not.
- How the address of a request is found, CORS, ping timing.
- GetRequests, Search, GetByID, contact and folder lists: they read and change nothing. Update of a
  profile is one statement on the caller's own row.
- Go's memory model beyond the race in SendToUser.
- The columns of the chat list, the unread count among them (section 4, item 12), and
  the saved chat (item 9): no value of the code ever is what they promise.
- The initial message of a request: its insert into the new chat may fail and is ignored.
- The answer to a refresh that is lost on its way: the client has to log in again.

## 8. Plan

Modelled in this order: messages (the core promise), membership, client and outbox, hub,
sessions, pool, history, limiter, then the life cycle with migrations and media, and the settings.
What comes next:

1. Proofs: the assumptions of the conditional theorems as invariants of a composition (a user with one
   WebSocket runs one call at a time, because ReadPump is sequential: `Client` and `Messages`).
2. `ChatList`: last message and unread count against the receipts.
3. Composition of `Membership` and `Messages`: the initial message of an accepted request,
   removal from a chat during a send; and of `Hub` with several `Outbox` instances.
