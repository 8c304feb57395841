# A TLA+ model of the forum server and its chat

This directory holds TLA+ specifications of the real-time forum: a Go server
(`server.go`, `websocket/`, `database/`) over one SQLite file, and a React
client (`webapp/src/`) that talks to it over HTTP and one websocket a page. The
specifications follow the source, not its documentation; where the two disagree,
a run shows it (see *Findings*). Paths below are relative to the repository root.

    tlc -workers 2 -config sessions_churn.cfg MCSessions.tla   # check one run
    tlapm SessionsProofs.tla                                   # check the proofs

`PROJECT.json` lists the runs, the theorems, the lines of source each definition
stands for, and for every checked property a plausible bug that breaks it (the
"faulty variants" at the head of each module, which no `Next` uses).

## 1. Inventory

What the system is made of, the state each part keeps, what changes it, and what
would make it wrong. *Modelled* names the module.

| Component | State | Operations | What makes it correct | Modelled |
|---|---|---|---|---|
| Session manager (`websocket/ws-manager.go`, `handlers.go`, `ws-client.go`, `otp.go`) | `m.clients` and the index by session id; per client: user, `loggedIn`, `lastSeen`, connection; one-time passwords; `LoggedInList` | login, logout, checkLogin, authenticated requests, upgrade, sweep, kick, ban, password change; the two goroutines of a connection | index and set agree; one login per account; a superseded connection is told so and touches nothing of its successor; a key admits one connection of its own session; old sessions end, sessions in use do not | `Sessions`, `SessionLife` |
| Conversations (`websocket/conversations.go`, `ws-manager.go`) | tables `conversation`, `conversation_member`, `message`, `message_read` | open, create, leave, add, remove, send, mark-read; broadcasts of members | one direct chat per pair, always whole; an emptied group goes with all it had; watermarks advance and belong to their row; senders are members | `Conversations` |
| Chat windows (`webapp/src/contexts/ChatContext.tsx`) | `openWindows`, `pendingHistoryRef`, send timers | open, close, scroll, send; pages, acks, errors, messages, timeouts | a page lands in its own window; an ack settles its own echo; nothing looks sent for ever; no gaps | `ChatClient` |
| Posts, comments, reactions, bookmarks, images (`websocket/handlers.go`, `images.go`, `database/sqlFuncs.go`) | their tables, `notification`, `./uploads/posts` | add, edit, delete, upload, comment, react, bookmark, mark read | one reaction and bookmark per user and post; rows refer to rows; notifications to the right comment; shown images exist, unshown ones go | `Posts` |
| Event delivery (`websocket/ws-client.go`, `ws-manager.go`) | per client: unbuffered `egress`, `connDone`; who holds `m.Lock()` | `send` with a 2 s limit, read and write loops, broadcasts | a sender's events arrive in order and once; a superseded writer keeps almost nothing from its successor; every broadcast ends, and with it the lock; the loops of a dead connection end | `Delivery`, `Mailbox` |
| Websocket of the web client (`WebSocketContext.tsx`, `AuthContext.tsx`, `api/auth.ts`) | the user shown, `socketRef`, `expectedCloseRef`, attempts, timer, `reconnectCancelledRef` | load, log in and out, the connect effect and its cleanup, reconnects | one websocket a page, of the user it shows, none after a logout; a page that says it reconnects does | `WebClient` |
| Presence, typing (`ws-manager.go`) | `LoggedInList` | users-online and typing broadcasts | the list is sent after it changes | the set in `Sessions`, the sending in `Delivery` |
| Reactions and notifications in the web client (`useReaction.ts`, `useBookmark.ts`, `NotificationsContext.tsx`) | optimistic copies | clicks, answers, roll-backs, pushes | a page shows its own reaction; counts settle | reactions: `Viewer` |
| Categories, accounts (`handlers.go`) | tables `category`, `user` | look, then insert or update | names are distinct but for case | `Directory` |
| Schema and migrations (`database/`, `main.go`) | the schema, the old message table | `migrate()`, step by step, at every start | no start fails but over an old message to oneself, old messages are kept, the server serves on the whole schema | `Startup` |
| Rate limiters (`utility/ratelimit.go`) | map of token buckets | allow, forget | a bucket is not refilled by forgetting it | not modelled |
| Log rotation, queries and search, validation, HTTP routing, UI components, tests | - | - | sequential, read-only or configuration | not modelled |

**How they interact.** An HTTP login gives the browser a cookie (session id) and a
key; the upgrade redeems the key and binds the websocket to the session's client.
Its read loop handles the client's events one at a time, in the goroutine that
read them; handlers of different connections run at once and meet in the
manager's lock, in the database, and in the `egress` channels of the receivers.
Go's HTTP server runs each request in a goroutine of its own. The web client keeps
windows and optimistic entries and matches replies to requests by order or token.

Every start runs `migrate()` before it listens.

**What is hard.** (a) The manager's lock covers statements, not requests: most
handlers look something up, let go, and act later. (b) Database checks and changes
are separate statements except in a few transactions, and SQLite gives the id of
a deleted last row out again (no `AUTOINCREMENT`), so an id kept in a local can
come to mean something else. (c) A connection has two goroutines that both clean
up, while a newer connection of the same client may exist. (d) Replies and pushes
can be lost (rate limit, 2 s send limit, closed socket), and the client's
queue of requests does not know. (e) The clock: expiry, send timers, key lifetimes.
(f) A page runs effects some time after the state they depend on, and answers to requests it made before a
logout arrive after it. (g) The server may stop between any two statements, of a handler or of the migration.
`hazards` in `PROJECT.json` has the lines where each of these bites.

## 2. Modules

| Module | What it is |
|---|---|
| `SessionsState` | variables, types, initial state and locked helpers of the session manager |
| `Sessions` | its actions, properties, and the mapping to `SessionLife` |
| `SessionLife` | abstract: what a session id is promised, independent of clients, locks and connections |
| `Conversations` | conversation rows and the event handlers that change them |
| `ChatClient` | the chat windows, the connection, and the server's side of their requests |
| `Posts` | posts and what hangs on them |
| `Delivery` | how an event gets from a sender to a client |
| `Mailbox` | abstract: what sending promises |
| `WebClient` | who a page shows, its websocket and its reconnects, in the tabs of a browser |
| `Viewer` | a post's reactions as the pages that show it see them |
| `Directory` | the names of categories and the addresses of users |
| `Startup` | composes `Conversations` and `Directory` with the migration before them and the stops between |
| `MC*` | the symmetry sets of the runs |
| `SessionsProofs`, `ConversationsProofs`, `ChatClientProofs`, `PostsProofs`, `DeliveryProofs`, `WebClientProofs`, `ViewerProofs`, `StartupProofs` | theorems |

### Sessions

One critical section of `m.Lock()` is one action; a handler that releases the lock
or decides on something read before it is several, its locals in `req[h]`:

- `serveLogin`: `LoginRead` (row read, bcrypt), `LoginCommit` (replace the account's
  clients, register the new one, mint a key).
- `serveLogout`: `LogoutLookup`, `LogoutClear` (`loggedIn` and presence, without the
  lock), `LogoutDrop` (`removeClient`).
- `checkLogin`: `CheckLogin`; `CheckLoginDuringLogout` is the data race of its
  write of `loggedIn` with the logout's.
- `authenticatedClientFromRequest`: `AuthLookup`, then `AuthTouch` or `AuthEvict`.
- `serveWS`: `WsVerify` (the key is spent whether or not the cookie matches), then
  `WsRebind` or `WsRegister`.
- `readMessages` and `writeMesssage`: `LoopExit` (`closeConnectionIfCurrent`),
  `LoopCleanup` (the rest of the deferred cleanup), `UserConnect`.
- `kickUser` after `Ban` or `ChangePassword`: `KickCollect`, `KickName`, `KickDrop`.
- `sweepOnce`: `Sweep`; the passage of time: `Expire`, `OtpExpire`.

`lastSeen` is reduced to whether 24 hours have passed (`expired`); `epoch` counts bans
and password changes of an account, and `cl[c].read` and `.made` record the epoch at
which a session's password was compared and at which it was registered.
`SessionLife` knows nothing of all this: a session id is unused, an account's, or
ended; opening one ends the account's others; none comes back. `KeepsPromise` says
`Sessions` implements it under the mapping at the end of `Sessions`.

### Conversations

One SQL statement, or one transaction (`removeConversationMember`), is one action; the
locals are `loop[a]`. The three membership changes share `ChangeStart`, `CheckRequester`,
`CheckTarget`, `Add`/`Part`, `Reread`; messages go `SendStart`, `SendInsert`, `MarkRead`,
`Receivers`; mark-read `ReadStart`, `ReadExists`, `MarkRead`, `Receivers`; opening
`OpenInsert`, `OpenLookup`, `Enrol`, `Opened`; creating `CreateInsert`, `Enrol`, `Opened`.
`NextRow` is SQLite's choice of a row id. `Crash` forgets the handlers and keeps the rows.
What the clients are sent is not followed: `Reread`, `Receivers` and `Opened` query the members and are
done. Handlers of any number of connections interleave, so that an event may find its conversation deleted and
the id given out again. Histories note this: a handler is `stale` once its conversation has been deleted under it
(`GotoReread`), a message `stray` if a stale handler stored it, and `strays` are the watermarks stale handlers
set. `was` is who has been a member of a conversation.

### ChatClient

`up` and `down` are the two directions of the socket, `hand[k]` what the server's
read loop of connection k has in hand: a reply it is about to send, or a request for a page between
its two statements. `Count` is the `COUNT(*)` and the limit it shortens (`Limited`), `ReadPage` the
`SELECT`; others store messages in between. `skipped` notes the messages that a page left out at its older
end because its limit had been cut before more were stored. An entry of a window is a message
with an id, or an echo (id 0) with the token of a message sent. Losses are actions
of their own (`DropRequest`, the second disjunct of `Deliver`, `Disconnect`), and `lost`
records which kinds were lost so that a property can say what it depends on.
`paged` and `over` are history fields of a window: what its pages brought, and whether it was opened while a page for it
was still to come. Entries are a set: order within a window is not modelled. Unread badges, read
receipts and typing are not either.

### Posts

One statement or transaction is one action, the locals `req[h]`. `by` in a row is a
history field, the user whose text it holds; `issued` counts how often an id was given out, and a handler
notes the count of what it looked up (`postAt`, `idAt`), so that a row written after the id was given out
again (`PostReissued`, `CommentReissued`) can be told apart: it is `stray`.
`Files` are the random image names: two are never equal. `Find`, `Insert`,
`Reread`, `Apply` are the reaction's insert-or-reconcile loop, `Save` and `Unsave` the
bookmark's toggle, `Swap` and `Current` the upload's compare-and-swap. A post's categories
and the broadcasts are left out. The initial database has one post.

### Delivery

Each connection has a `reader` and a `writer`, each request handler a `task`; the
sends one of them waits for are `out[s]`, and it goes on once that is empty, which is
what `broadcastTo`'s `WaitGroup` does. `Take` is the rendezvous on `egress`: the writer of
*any* connection of the client that is in its `select` may be the one, so also one whose `connDone`
is closed and that has not noticed (`late`). `TimeOut` is `sendTimeout`. A loop that
fails closes its connection if it is current and broadcasts the list of users
(`WriterTells`, `ReaderTells`), then ends. `Remove` and `Farewell` are the logout and the kick, which tell
the others after they released the lock; `Expel` is `checkLogin`'s removal of an
expired session, which tells them while it holds it; all that needs the lock waits for `Unlocked`.
Broadcasts go to all members: a broadcast that leaves some out is one whose sends to
them time out at once. `silent` are connections whose peer is gone without a word. `last` and `sent`
are history variables, and the state of `Mailbox`: a sender's events are numbered, a
client receives only later ones than it has. `KeepsOrder` says `Delivery` implements it.

### WebClient

One callback of a page is one action, with what React's microtasks do after it. `page[t].user` is
AuthContext's user and `seen` the one WebSocketContext's effect last ran for: between
the two, `Effect` is due. `calls` are requests in flight, `socks` websockets with both their
ends: `OnOpen` and `OnClose` happen some time after the server accepted or closed. `AttemptReconnect`
sets a timer that may replace one still running (`strays`), `Fire` starts its `refresh`, `Reconnect` is what
follows. `Cleanup` and `Setup` are the two halves of the effect. The server is reduced to
whose session the cookie is for, and to the one connection a session has (`Accept`, from `ServeWS`).
`muddled` notes a page that used an answer from before a cleanup after it, or took the close
of one socket for that of another, `elsewhere` the pages that were there when another tab logged in; all of
this happens (section 6), and properties excuse such pages.

### Viewer

`row` is `user_post_reaction` for one post, `page[u]` what `useReaction` shows user `u`: the state,
`previous` to roll back to, `pending`. `React` shows a click at once; `Write`, `ReadCounts` and `Broadcast`
are the handler's steps (the insert race within `Write` is in `Posts`); `Answered` and `Receive` are the two
ways counts come back. A request fails before or after the write (`FailsBefore`, `FailsAfter`), or
its connection breaks while the handler goes on (`Broken`). `behind` and `undone` note pages that
lost a broadcast, showed older counts after newer ones, or took back a click that may land.

### Directory

A word with and without capitals stands for a name or an address. `CreateCheck`/`CreateInsert`,
`RenameCheck`/`RenameUpdate`, `RegisterCheck`/`RegisterInsert` and `ProfileCheck`/`ProfileUpdate` are the two
statements of each handler, and `index` says what the unique index of categories compares, if
there is one. Deleting is one transaction.

### Startup

`boot` is the step of `migrate()` that is next. `StartupInit` is any database an earlier
version may have left: a prefix of the parts, names alike or not, an index or none, old
messages some of whose users are gone. `MigrateConversations` is the one large transaction:
`Replay` gives the n-th known old message the n-th id, and a pair's conversation the number of its first message.
It fails, and ends the start, if a known user wrote to themselves (`SelfWritten`): the second member row of
that conversation is refused, on this start and on every later one.
`Restart` stops the server anywhere and begins again. The handlers of `Conversations` and
`Directory` run when `boot` is "serving"; they share no row, so a behaviour follows one or the other
(`subject`). The thirteen `CREATE INDEX IF NOT EXISTS` are one step.

## 3. Runs

Runs that pass:

| Run | Distinct states | Question |
|---|---|---|
| `sessions_churn` | 0.7 million | One account logs in, out, is checked and reconnects, two requests in flight. Registry and index agree (`IndexInSync`), one login (`SingleLogin`), superseded connections are told (`SupersededAreClosed`), one key per connection (`OtpBinding`), no goroutine closes its successor's connection (`NewerConnectionSurvives`), and `SessionLife` is implemented (`KeepsPromise`). |
| `sessions_age` | 1.9 million | All kinds of request with expiry, a ban or a password change. A session in use is not evicted (`FreshSessionsStay`); one from before the change is gone after its kick (`OldSessionsDie`). |
| `chat_reuse` | 2.9 million | Two events at once, of any kind, ids given out again, the server stopping in the middle of any: watermarks only advance (`MarksNeverRegress`), emptied groups go (`EmptiedGroupsGo`), and only a handler already at work when its conversation was deleted writes into the next of the id (`SendersWereMembers`, `MarksAreMessages`, `MessagesArriveUnread`). |
| `startup` | 0.3 million | Databases of every earlier shape, migrated and served, with stops anywhere: a start fails over an old message to oneself only (`OnlySelfMessagesFail`), old messages are there once and in order (`LegacyIsKept`), the server serves on the whole schema only (`StartsWhole`), names stay distinct under two handlers (`NamesStayDistinct`), and two users who open their conversation at once get one, whole (`OneChatPerPair`, `OpenedIsWhole`). |
| `chat_windows` | 9.3 million | Two windows over a lossy connection: `AcksSettle` and `EchoesAreTimed` whatever is lost; `AnsweredBelongs` and `NoGaps` (no gap from the oldest message its pages brought to the newest, but for those a cut limit skipped) when nothing that matters to them was. |
| `posts_races` | 1.0 million | Any two requests at once on posts, comments and images, with ids given out again: `OncePerPost`, `NothingDangles`, `ImagesExist`, `NoOrphans`; edits are by the authors and notifications point right, unless the very id a handler looked up was given out again before it wrote (`LookupsHold`). |
| `delivery` | 0.4 million | Two clients, connections that close, go silent or are replaced: events in order and once (`KeepsOrder`), one taken late at most (`OneLate`), every broadcast and every hold of the lock ends (`SendersEnd`), the loops of a connection that is over end (`LoopsEnd`). |
| `web_client` | 2.8 million | A page over two logins, with checks, timers and socket events that are late or fail, and sessions that end by themselves: `OneSocket`, `SocketIsMine`, `NoSocketAfterLogout`, and `StuckOnlyByFailure`. |
| `viewer` | 0.8 million | Two users click on one post three times, with a failure: each page shows its own reaction (`MineIsMine`) and, when all is quiet, the stored counts (`CountsSettle`). |

The second kind of run ends in a counterexample; see *Findings*.

### Bounds

Every bound is a constant: the sets of ids, addresses and names; `Ops`, the kinds of
request that arrive in a run; and the `Max...` constants.

- *Sessions.* Two handlers in flight show every race of two requests; each property
  relates at most two clients, two connections or two keys, and a third client
  (`sessions_churn`) lets both be replaced. One user is enough where the property
  is about one account's clients: the code never relates two accounts except by
  the index, whose ids are distinct. `MaxEpoch = 1` is one ban or change with
  logins before, during and after.
- *Conversations.* Two events in hand, over one conversation id and two message ids: the conversation is deleted under
  one of them and the id given out again, as a group or a direct conversation, with new messages of the old ids.
  A second conversation id would add conversations that have nothing to do with each other, and
  with two events more states than can be run. `MaxOthers` stands for `maxGroupMembers` (50). `startup` has
  two conversation ids and two openings at once, of which none takes a member out. The theorems have no such bound.
- *ChatClient.* `PageSize = 3` (10 in the code), `Old = 2` and `MaxMessages = 4` are the fewest with which a limit is cut
  over two messages, two are stored before the page is read, and the next page begins below the one that was left out: without its exception
  for `skipped`, `NoGaps` fails in this run. `MaxOffset = 3` allows that next page. Two sends allow acks, errors and timeouts to be mismatched; two connections a
  reply that outlives its own; `MaxLost = 2` of the three kinds of thing lost at a time. Three requests are two pages and a message,
  or two messages and a page. `history_mixup` begins without messages. The theorems have none of these bounds.
- *Posts.* Two ids and five requests: add, delete, reuse, and a handler left in flight across
  all of it. `MaxTries = 3` (5 for reactions, 20 for images in the code) lets a handler go round
  its loop, lose again and give up.
- *Delivery.* Two clients are a slow one and one that waits for it; one of them may reconnect, so one
  writer is superseded; one silent peer; one request on top of what the loops send as they end. The
  theorems have no such bound.
- *WebClient.* Two sessions show what one leaves to the next; two requests in flight and two websockets of the
  page each have an old and a new; two faults; `MaxReconnectAttempts = 2` (3 in the code) lets the last attempt be
  reached with those faults. One tab: two with all of this are too many states. What other tabs do
  to a page is covered by the theorems, which are of any number of them.
  `two_tabs` has the code's 3 attempts and no faults.
- *Viewer.* Two users have a page each, so an own answer and another's broadcast race; the third request lets
  one of them click again over what is on the way.
- *Startup.* Two old messages make two conversations or one with two messages, one of them by a user who is gone.
  Two rows of each table and two words make every relation of names. Stops are not bounded.
- `MaxQueue`, `MaxOffset`, `MaxCalls` and the other `MaxRequests` only cut how long behaviours get.

Deadlock is not checked where the supplies of ids, keys and requests are finite, so that
a model stops once they are used up; `startup`, which can always restart, checks it.

### Fairness

`Delivery!Spec` assumes `WF_vars(Progress)`. `Progress` is what goes on by itself: timers run out
(`TimeOut`), the loops and the handlers that can take a step take one, the lock is given on. It is one weak
fairness on the disjunction and not one per goroutine: what peers and browsers ask for is
bounded, so that only finitely many steps of `Progress` can happen, and assuming that some goroutine
goes on as long as any can is then as good as assuming it of each. That is what Go's scheduler gives. Nothing is assumed
of a peer: it may read nothing, ask nothing, never close. No send has to find a writer, no write to a silent peer
has to fail (`PeerGone`): that `LoopsEnd` holds for a silent peer rests on the reader's deadline alone.

`WebClient!Spec` assumes `WF_vars(Browser)`: what the browser and the server owe (effects, timers,
answers, socket events) goes on; nobody has to click and nothing has to fail. It makes the behaviour
of `two_tabs` one in which every party does its part. The other specifications assume no fairness.

### Findings

Each of these runs ends in a counterexample; `PROJECT.json` quotes the comment it contradicts.

| Run | What the code does |
|---|---|
| `old_password` | A login that compared the old password registers its session after the change's kick (`handlers.go:622`). |
| `history_mixup` | A request for history that gets no answer shifts every later page to another window (`ChatContext.tsx:431`). |
| `two_tabs` | Two tabs of one session close each other's connection for ever: each reconnect makes `ServeWS` close the other's (`handlers.go:886`). |

## 4. Proofs

TLAPS proves these for every number of users, ids, clients, connections, handlers and messages. Where a
theorem has a hypothesis on the constants it comes first. There is one: `Undisturbed` says that one event is in hand at a
time (`OneAtATime`), or that no event takes a member out of a conversation (`NoneLeaves`).

| Theorem | Says |
|---|---|
| `SessionsProofs!TypeCorrect` | `Spec => []TypeOK` |
| `SessionsProofs!IndexNeverDrifts` | `Spec => []IndexInSync` |
| `SessionsProofs!OneLoginPerAccount` | `Spec => []SingleLogin` |
| `SessionsProofs!SupersededAlwaysClosed` | `Spec => []SupersededAreClosed` |
| `SessionsProofs!NewerConnectionStays` | `Spec => NewerConnectionSurvives` |
| `SessionsProofs!FreshSessionsAlwaysStay` | `Spec => FreshSessionsStay` |
| `SessionsProofs!OldSessionsAlwaysDie` | `Spec => []OldSessionsDie` |
| `SessionsProofs!KeysAdmitOnce` | `Spec => []OtpBinding` |
| `SessionsProofs!PromiseKept` | `Spec => KeepsPromise`, the refinement of `SessionLife` |
| `ConversationsProofs!TypeCorrect` | `Spec => []TypeOK` |
| `ConversationsProofs!DirectsAreUnique` | `Spec => []OneChatPerPair` |
| `ConversationsProofs!NoneLeftBehind` | `Spec => []EmptiedGroupsGo` |
| `ConversationsProofs!MarksOnlyAdvance` | `Spec => MarksNeverRegress` |
| `ConversationsProofs!OpenedAlwaysWhole` | `Undisturbed`: `Spec => []OpenedIsWhole` |
| `ConversationsProofs!SendersAreKnown` | `Spec => []SendersWereMembers` |
| `ConversationsProofs!MarksStayMessages` | `Spec => []MarksAreMessages` |
| `ConversationsProofs!NothingArrivesRead` | `Spec => MessagesArriveUnread` |
| `ChatClientProofs!TypeCorrect` | `Spec => []TypeOK` |
| `ChatClientProofs!AcksAlwaysSettle` | `Spec => []AcksSettle` |
| `ChatClientProofs!EchoesAlwaysTimed` | `Spec => []EchoesAreTimed` |
| `ChatClientProofs!AnswersAlwaysBelong` | `Spec => []AnsweredBelongs` |
| `ChatClientProofs!NothingIsSkipped` | `Spec => []NoGaps` |
| `PostsProofs!TypeCorrect` | `Spec => []TypeOK` |
| `PostsProofs!OneOfEach` | `Spec => []OncePerPost` |
| `PostsProofs!NothingEverDangles` | `Spec => []NothingDangles` |
| `PostsProofs!LookupsStayTrue` | `Spec => []LookupsHold` |
| `PostsProofs!ShownImagesExist` | `Spec => []ImagesExist` |
| `PostsProofs!NoFileForgotten` | `Spec => []NoOrphans` |
| `DeliveryProofs!TypeCorrect` | `Spec => []TypeOK` |
| `DeliveryProofs!AtMostOneLate` | `Spec => []OneLate` |
| `DeliveryProofs!ImplementsMailbox` | `Spec => KeepsOrder`, the refinement of `Mailbox` |
| `WebClientProofs!TypeCorrect` | `Spec => []TypeOK` |
| `WebClientProofs!LoggedOutStaysOut` | `Spec => NoSocketAfterLogout` |
| `WebClientProofs!OneSocketAtATime` | `Spec => []OneSocket` |
| `WebClientProofs!SocketStaysMine` | `Spec => []SocketIsMine` |
| `WebClientProofs!ReconnectsGoOn` | `Spec => []StuckOnlyByFailure` |
| `ViewerProofs!TypeCorrect` | `Spec => []TypeOK` |
| `ViewerProofs!MineStaysMine` | `Spec => []MineIsMine` |
| `ViewerProofs!CountsAlwaysSettle` | `Spec => []CountsSettle` |
| `StartupProofs!StartsFailOnlyOnSelfMessages` | `StartupSpec => []OnlySelfMessagesFail` |
| `StartupProofs!NamesAreKeptApart` | `StartupSpec => []NamesStayDistinct` |
| `StartupProofs!ServesOnlyWhenWhole` | `StartupSpec => StartsWhole` |
| `StartupProofs!OneChatAcrossStarts` | `StartupSpec => []OneChatPerPair` |
| `StartupProofs!WholeAcrossStarts` | `Undisturbed`: `StartupSpec => []OpenedIsWhole` |
| `StartupProofs!LegacyStays` | `Undisturbed`: `StartupSpec => []LegacyIsKept` |

*Sessions.* `TypeOK` is not inductive: a handler may set `cl[req[h].client]` only because the
client it holds exists. `TypeInv` adds `Allocated`: what the index, a connection or a handler
holds was allocated, with a user. Given `TypeInv`, lemma `AddsOrShrinks` sorts the steps:
`LoginCommit` and `WsRegister` add one fresh client, and every other step only removes clients and
their index entries, or leaves both. `IndexInSync` is inductive along that split.
`SingleLogin` needs `IndexInSync` and `TypeInv` and the same split: the login removes every other
logged-in client of its account in the critical section that adds the new one.
`SupersededAreClosed` needs only `TypeInv`: each assignment of `conn` closes what it replaces.
`NewerConnectionSurvives` adds `ConnOwned` (a client's current connection is its own), which says of the three kinds of step
that change `conn` which client they change. `FreshSessionsStay` needs `IndexInSync`, as an
eviction goes by the session id and the property by the client. `OldSessionsDie` looks both ways: `KicksGoOn` says no step loses a kick of a client
that it leaves registered, `NoneAges` that only a ban or a password change makes a client old, and
that it collects it for a kick in the same critical section (`TodoInv`: only a kicking handler has such a list).
`OtpBinding` is inductive once it also covers an upgrade between its two steps: `UpgradesHoldKeys` says
that the key it has redeemed is spent, is in no other handler's hands and admitted nobody, `KeysMinted` and
`ConnsSpent` that no later key can be the same. `PromiseKept` maps a session id never used to
`Unused` and one of a client without an account to an ended one; `UpgradesOpened`
says that an upgrade, whose client may be gone by the second of its steps, never brings an unused id in.

*Conversations.* `TypeInv` adds `HandlersKnow`: a handler past its first step holds a user and,
where it acts on one, a conversation id. `OneChatPerPair` is
inductive with `DirectsAreKeyed` (a direct conversation has a key), because `KeySteps`
shows a key is only set when no row has it. `EmptiedGroupsGo` is inductive with
`RowlessAreEmpty` (an id with no row has no members): without it, a row could
be created over leftovers. `MarksOnlyAdvance` is an action property: `MarkSteps`
looks at the one action that sets a watermark and the one that deletes the row.

`SendersWereMembers`, `MarksAreMessages` and `MessagesArriveUnread` rest on `HoldInv`. `RowsHold` is what they say of the rows
and that nothing is left of an id without a row. `Holds` is what a handler that is not stale still knows: its
conversation is there, whoever is about to send has been a member, and the message it is about to mark is in it.
It stays so over the steps of any number of others, because each step leaves a conversation, those who
have been its members and its messages where they are (`AllGoOn`, `HoldsOn`), or deletes it and with that makes all its
handlers stale (`PartHolds`). A watermark that is not of `strays` is then a message there is, so that the id of the next is
larger, which is `MessagesArriveUnread`.

`OpenedIsWhole` has no such mark: a leave-group that found a group takes a member out of the direct
conversation of its id (section 6). `Undisturbed` excludes it: with one event in hand what a handler read stays as it is, and where nobody leaves
rows only grow (`RowsGrow`), no conversation goes and no id comes back. `Fresh` says what a handler knows at each
of its steps then, `RowsFit` what the rows of a direct conversation are to each other.

*ChatClient.* An ack may settle an entry only if nothing else can have been said of its token. `WireInv` says so: a token is
under way in one request at most, one still under way is neither stored nor refused (`Underway`), a refused
one is never stored (`Refused`), and an ack names a message that is (`Acked`). `Fits` says what that means
for an entry of a window: what is under way with its token is for that window, one with an id has no timer left to mark it as failed, one
that waits has its timer. `AcksSettle` and `EchoesAreTimed` follow. `AnsweredBelongs` needs to know which page is for
which window: `Aligned` says there are two counts, one along the events under way and on to the page the read
loop has in hand, the other from there along the requests, by which the n-th page or request for one is for the n-th
conversation in `pending`, up to the last. One lemma for each thing that can happen to a queue (`AlignedAsk` to `AlignedDrop`) keeps
them so; a lost page or request would break it, and so would a read loop of another connection (`OthersIdle`).
What a page has to be for its window is a parameter of `Aligned`. For `AnsweredBelongs` it is one of that conversation;
for `NoGaps` it must close the gap that is left (`Closes`). `Covered` says a message is shown, or is an echo, or its
broadcast is still to come, and `Complete` three things of a window that was opened with no page to come for it: it waits for one page at
most (`Tidy`); nothing above a message its pages brought is uncovered, and when a page is asked for the `offset` newest messages are
covered (`Filled`), so that the page, whose place is counted from the newest message of the moment, can only repeat messages; and the
page that comes covers the rest, or a limit cut before more messages were stored leaves them out, which `Covered` allows for as `skipped` does.
A limit cut to nothing leaves nothing to come (`CountStays`). A request between its two statements counts as the first still to be answered (`requests`). Each message stored later is covered when it is stored: another's by its broadcast, one of
the user's by its echo. The exception is one sent before the window was closed and reopened: it comes before the request for the first page in the same
queue, so that it is stored before that page is read (`Single`). `StepStays` has one lemma for each kind of step, in terms
of `Kept`: messages stay covered, nothing moves nearer to the newest, and what is new is covered.

*Posts.* `TypeInv` adds `HandlersKnow` again: what a handler has at each place it can be.
`OncePerPost` follows from `MarkSteps`, which says of every step that it leaves the rows of a
table to their users and posts, or adds one for a user who had none on a post that exists (the
unique index and the foreign key). `NothingDangles` is inductive with `TypeInv`: `PostsStay` says only
`DropPost` takes a post away, `DropLeavesNothing` that it takes what is on it too, and
`CommentsAndNotes` that what the other steps add refers to rows there are. `ImagesExist` is far
from inductive: a handler deletes a file it read of long ago. `ImageInv` says why it may: no two
posts show one file; an image a handler found is shown by the post it found it on or by none, and
once it is about to delete it by none; a file that waits to be shown is known to its handler alone.
It rests on the random names of the files and on the compare-and-swap of `updatePostImage`.
`NoOrphans` speaks of moments when no handler runs; `FileInv` gives a reason for each file at every moment:
a post shows it, a handler is about to show or delete it, or the post it was uploaded for is `Gone`, which
is for good as ids are counted when they are given out (`PostsGoOn`). `LookupsHold` is proved by `LookInv`: the count a handler noted when it
looked something up is never above the id's, and while the two are equal and the row is there, what it found still
holds (`Knew`). Two lemmas sort the steps: `RowSteps` by what they may change in a row (`PostStep`, `CommentStep`, `NoteStep`), `Learns` by what a
handler may newly know. From these, what handlers know stays so (`KnewStays`), as the owner or post of a row changes only
with its id's count, and with it what the rows say (`RowsStayRight`).

*Delivery.* That a client gets a sender's events in order is not inductive: an event on its way might be older
than one that has arrived. `OutIsNew` says it is not: whatever a sender waits for is its newest event, and the
client it is for has only older ones. That holds because a sender with nothing under way waits for
nothing (`IdleSends`), which is what the `WaitGroup` is for. `HeldIsNew` carries it over the
rendezvous: what a writer holds is no longer being sent to the same client, and is news to it if the connection is
current. `Owned` says that a connection is current for its owner only, so that two
writers of a client never both deliver. `LateIsLast` says that a writer that has taken an event late is not in its `select`
and never will be again, as its connection does not become current again (`Owned`); `OneLate` follows. Given the invariant, each
step of `Delivery` is a `Send`, a `Receive` or a stutter of `Mailbox`: `Write` is the only `Receive`.

*WebClient.* `NoSocketAfterLogout` is about one step and rests on two facts about the time before: a page that shows nobody has no check
under way that would open a socket (`ChecksAreOfUsers`), and if its reconnects are not cancelled there is
nothing left that could lead to one, no timer, no refresh, no socket whose close is to come (`QuietWhenOut`). `OneSocket` is
inductive as `OneAtWork`: of a page that is not `muddled`, at most one thing is at work towards a socket - a timer, a request that
has not been called off, or a socket it has not closed - and the socket is the one in `socketRef`. Lemma `WorkChanges` sorts the steps by what they begin and end
in which tab. Any number of tabs and of faults is allowed.

`SocketIsMine` and `StuckOnlyByFailure` are of the pages that are neither `muddled` nor `elsewhere` (`Alone`), in any number of tabs. `Known` says
that every session in use is somebody's, `InTurn` which requests a page that is not muddled can have under way in which of its
situations - a login, say, only while it shows nobody and the effect has seen that - and `CancelledOut` that reconnects are
cancelled only while the effect has seen nobody. It follows that when a login is answered, such a page shows nobody: it is the page
of that login, or it has not been loaded yet (`LoginFromNobody`). So while it shows somebody the
cookie's session stays that user's, or is none (`CookieFits`), whatever other tabs end or log out, and with it the answers to checks (`AnswersFit`) and the websockets
accepted on them (`SocketFits`). What other tabs close are not its websockets: each page's `socketRef` is one of its own (`RefsAreOwn`). `KeepsTrying` gives the reason for each page that reconnects: a timer, a request that will
lead to a socket, a live socket, the attempts used up, a check rejected, or no session any more. The
attempt to prove `StuckOnlyByFailure` without the exception for `muddled` pages failed, and TLC found why with one more
session and request than `web_client` has (section 6).

*Viewer.* `MineIsMine` needs to know what an answer will show. `OneHeard` says that the page waits for each request
whose answer it will hear and that a user has one such request at a time; `HoldsRow` that a request not
yet written can be rolled back to what the row is, and that one that has read the row holds what
it is. Both except users who took back a click that may land, as the property does. `CountsSettle` is inductive as
`SettleInv`: counts that are shown or on their way and said to be of the last write are the stored ones (`Truthful`), a page that waits
has a request it will hear of (`Waits`), and each page has seen the counts of the last write or something on
its way will bring them (`NewsComes`), but for pages that missed a broadcast.

*Startup.* `StartupInv` says what each step of `migrate()` has left when the next begins: the parts before it are in the schema
(`SchemaSoFar`, from which `AddIndexes` finds its tables), no two names are alike between the index's
`DROP` and its `CREATE` (`IndexHolds`), the index is as strong as the names allow by then (`IndexSoFar`). Across restarts it holds because the
schema only grows and `index` never claims more than is so. Of the handlers it needs that the
index or the column stops what the earlier look missed: under an index without case no two
names become alike (`WritingKeepsUnalike`); the plain `UNIQUE` of `user.email` is enough because addresses are
in lower case by then (`AllLower`, `UnrepeatedLower`), or two of them were the same but for case from the first.
The three theorems about conversations add `ChatsAlways`: the invariants of `ConversationsProofs` hold from
the rows a migration leaves as they do from none. The ranks of the known old messages fill `1 .. n` without a gap, by the
library's facts on cardinalities; `Replay` therefore gives the n-th the n-th id and a pair's conversation the number of its first
message (`LegacyReplayed`). No handler is at work before the server serves, and from then on nobody
takes a direct conversation apart where `Undisturbed` holds.

The assumptions are `SessionsAssumption`, `ConversationsAssumption`, `ChatClientAssumption`, `PostsAssumption`, `DeliveryAssumption`,
`WebClientAssumption`, `ViewerAssumption`, `StartupAssumption`, `NoneIsNoRow` and `NoneIsNoMessage`: `None` and `Anon` are not values of the
other sets (no row or message either), ids are positive numbers, bounds are numbers, the users of `Viewer` are finitely many, and the ids suffice for the old messages of `Startup`. Every run evaluates those of its module.

*Only model-checked:* liveness (`SendersEnd`, `LoopsEnd`), which the prover cannot do. Every other property of a passing run is
stated by a theorem above. Nothing here is recursive, so no induction over data is left to TLC.

## 5. Plan

Done, in this order: `Sessions` with `SessionLife` (every other part depends on who is
connected), `Conversations`, `ChatClient`, `Posts`, `Directory` and `Startup` (which composes
them with the migration), `Delivery` with `Mailbox`, `WebClient`, `Viewer`, and the proofs above. To do:

1. `ChatClient` with sequences for entries, read receipts and the list of groups.
2. NotificationsContext, which needs something that tells a newer list from an older first.
3. The rate limiters: buckets forgotten and recreated.

## 6. Known races that no run reports

Seen while modelling; some narrow a property's precondition, which is named.

*Sessions.* No property says who is shown online, because none holds. A client swept while it is connected
leaves its name in `LoggedInList`: websocket events do not refresh `lastSeen`, the sweep does not
take the name away, and the connection's cleanup is no longer current (`ws-manager.go:84`). A `user-connect` handled
after the cleanup of its connection puts the name back (`480`), an upgrade into a logout does too. The
cleanup of an old connection overtaken by a reconnect takes a connected user offline
(`ws-client.go:310`). An upgrade after a logout registers a client
with no account (`handlers.go:900`; `KeepsPromise` maps it to an ended session). A kick
collected before a login removes the new session's name from the online set.

*Conversations.* Two additions at once both see room for one more member (`ws-manager.go:793`): a group
grows over its cap. A handler whose conversation is deleted after its look goes on with the next of the id: its
message is stored there (`ws-manager.go:179`; `stray` in `SendersWereMembers`), its watermark set (`959`; `strays` in
`MarksAreMessages` and `MessagesArriveUnread`), and a leave-group takes its user out of a direct
conversation (`755`; why `OpenedIsWhole` is checked where nobody leaves). No property says that clients list the members a group has,
because none holds: the lists of two handlers overtake each other (`874`), and `send` drops one for a client that takes
longer than 2 s and stays connected (`ws-client.go:161-191`). A member who joined after the remover's first look at the group, and is then
removed, is not told (`860`). Receipts report the id the client named, not the watermark (`963`). A removed member
that a crash kept from being told lists the group until the page is loaded again, since a
reconnecting client forgets none (`ChatContext.tsx:372`). A crash while a
group is created leaves it with some members, or none for good (`conversations.go:64`; the
exception in `EmptiedGroupsGo`).

*ChatClient.* A page can leave out a message for good although nothing is lost: the server counts a conversation's messages, cuts the limit to them, and
reads the page in another statement (`ws-manager.go:536-554`), so that messages stored in between push as many out of the page at
its older end, while the client's next page begins a whole page further on (`skipped` in `NoGaps`; in `chat_windows`, two of a page of three
messages counted, two stored, the page `{3, 4}`, the next one at offset 3 `{1}`, and 2 is missing). A window reopened over a page in flight can show messages twice or out of
order, and leave a gap: the page for the earlier opening is taken for the answer to the later one (`over` in `NoGaps`). A page that moved
while messages arrived repeats some. A message whose broadcast comes after a newer page can stand alone below the pages with messages
missing between (why `NoGaps` begins at a message a page brought). A reply of an old connection is
sent on the new one (`conn = 1` in `AnsweredBelongs` and `NoGaps`).

*Posts.* An edit whose post was deleted meanwhile overwrites the next post of its id, another
user's (`handlers.go:2119`). With a comment id given out again, a notification may point at another post's comment,
and that post cannot be deleted until it goes (`DropPost`'s first branch). Both are `stray` in `LookupsHold`. A reaction or bookmark is changed by row id, which may be another
user's row by then. A bookmark refused because its post is gone is reported as set. A post deleted
with an image uploaded in between leaves the file (`NoOrphans`' exception), as does a crash
after the file was written. Two comments (`handlers.go:1906`, `2486`) say foreign keys are not
enforced; `OpenDB` turns them on. Enough competing requests use up a reaction's retries, however many.

*WebClient.* A rejected check in a reconnect ends the retries while the page says it is reconnecting
(`WebSocketContext.tsx:132`; `failed` in `StuckOnlyByFailure`). A cleanup over a socket that is already dead leaves
`expectedCloseRef` set, and the next session's first lost connection is taken for a deliberate
one (`151`). The close event of a session's socket may come after the next session's began:
it sets the status to closed or starts a reconnect beside the first. The answer to a `refresh` or a saved profile that crosses a logout
shows the earlier user again, or opens a second socket. A new session does not reset the attempts.
The effect's check does not compare users: if another tab has logged in as somebody else since, it opens that user's websocket;
and a login in another tab makes good a cookie that a check found ended, with nothing under way in the page to
use it (`elsewhere` in `SocketIsMine` and `StuckOnlyByFailure`). The answer to a login or a saved profile may put back the user a check has just taken away, before the effect
has seen anybody go: the page goes on saying "reconnecting" with nothing under way (`muddled` in `StuckOnlyByFailure`).
A second click on logout that reaches the server after the next login ends that.

*Viewer.* A failed click puts back counts from before broadcasts that came since, and an answer may be older than a broadcast
already shown (`useReaction.ts:66`, `68`). Broadcasts of concurrent handlers arrive in any order, and a page keeps the older counts if they come last (`handlers.go:1396`;
`behind`, which `CountsSettle` excuses, is about this as well). A page loaded
before a broadcast whose connection opens after it misses it. A click that failed for the page may
land. For a moment a count can be shown as -1. Of `NotificationsContext`, which is not modelled: an
answer to its first load overwrites a push that came meanwhile, or holds it a second time; the list and
the unread count are read separately; a load is not cancelled when the user changes.

*Startup.* A message to oneself in the old table makes the migration fail on every start, as the second member row of
its conversation is refused (`migrate_conversations.go:208-215`); `OnlySelfMessagesFail` says that nothing else does. A stop while the database file is first created from `createTables.sql` is outside the server.

## 7. Not modelled

Log rotation, input validation, routing, headers, the Docker and test files, and the React
components that only render are sequential or configuration. Listings and search
only read. SQLite's durability, bcrypt, gorilla/websocket and React's scheduling of state
updates are taken to work as documented; the client's handlers are atomic,
as JavaScript's event loop makes them. The rate limiters are a map of library buckets under one mutex; what a dropped event does is in `ChatClient`.
Of registration and profiles only the address is modelled: the user name is one `UNIQUE` and one
statement, the rest is data. The relations of posts to categories, unread badges, typing, and
NotificationsContext are left out, for the reasons given with the components.
