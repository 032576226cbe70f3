# BitATM: specification, model checking and proofs

BitATM is an end-to-end encrypted chat: a C++ server (Poco WebSockets, one
thread per connection, PostgreSQL) and a Qt client with a local SQLite store.
The cryptography is between clients; what the server and the client have to get
right is *state*: who is logged in where, which message still has to reach whom,
who is in a group, and who has been told what. The server keeps almost no locks
and no transactions: every SQL statement is committed by itself, one mutex
covers one operation on the map of connected clients, and handlers of different
connections interleave between statements. That is what these modules model.

## 1. Inventory

Paths are under `src/backend/src`, `src/frontend/src` (client) and
`src/db/migrations`.

| Component | State | Operations | Interacts with |
|---|---|---|---|
| Connection threads, `Server.cpp` | `_clients` (user -> vector of sessions), per thread: local user name, token, raw session pointer | accept, receive loop, register after every handled packet, cleanup, hourly timer | all handlers, sessions table |
| `ClientSession` | user name, token, state, socket | send (may throw), receive | threads of *other* users send on it |
| Login, register, `BaseAuthHandler` | - | check, revoke old sessions, insert session, flush three queues; authorize by token | sessions, users, offline queue, receipts queue, notifications |
| `SessionRepository` | `sessions` | save, find, deactivate by token, user or expiry | login, cleanup, timer |
| `MessageHandler`, `MessageRepository` | `messages` | persist, route or queue, echo to siblings, ACK | client map, offline queue |
| `OfflineQueueRepository` | `offline_queue` (delivered, attempts) | save, read undelivered, count attempts, mark, purge | login flush, timer |
| `SyncHistoryHandler` | - | replay everything newer than the client's cursor | messages, group messages |
| Group handlers, `GroupRepository` | `groups`, `group_members`, `group_keys`, `group_messages`, `group_message_receipts` | create, add, recover key, leave, kick, grant, revoke, info, message, delete | client map, notifications |
| `DeleteConversationHandler`, `PendingNotificationRepository` | `pending_notifications` | send or queue; read and clear at login | client map, login flush |
| `AckHandler`, `ReadReceiptHandler` | receipt rows, `offline_read_receipts` | delivered and seen events, forwarded or queued | client map, login flush |
| `KeyExchangeHandler` | `users.public_key` | upload, fetch | - |
| Wire format, `ProtocolParser`, `common/protocol.h` | - | fields joined by a delimiter | all |
| Client `NetworkManager`, `LocalStorage` | stored messages, sync cursor, group keys, pending sends, receipts | handle each packet, send, reconnect | server |
| Client `ChatModel`, `ConversationListModel`, `Main.qml` | the open chat, a cache of chats, the list with its unread badges, the active peer | one slot per signal of `NetworkManager`; open, send | SQLite rows they mirror, `markConversationRead` |
| Cryptography, QML pages | keys, layout | - | - |

What is hard here:

* **interleaving** - check-then-act over two statements: group roles, recipients
  of a group message, `findAndClear`, "reload to get the generated id", the
  revoke-then-insert of a login;
* **failure** - a peer that is gone while its session is still in the map; an
  exception in the middle of a handler; a crash between two statements;
* **ordering** - the same message comes live, from the queue and from a sync, in
  two timestamp formats; a sync cursor that may step over a message;
* **copies** - the client keeps the same fact in SQLite, in `NetworkManager`, in
  a cache and in a list, and each slot updates some of them; members that
  outlive a logout;
* **identity** - raw pointers as identities while the allocator reuses memory;
  one connection that changes its user.

`PROJECT.json` lists each hazard at its line with the properties that cover it.

## 2. Modules

| Module | Models | State -> code | Actions -> code |
|---|---|---|---|
| `SessionRegistry` | connection threads, client map, sessions table | `clients` = `_clients` (`at` is the position in a vector), `name`, `tok`, `addr` = locals of `handleRequest`, `sessUser`, `sessTok` = `ClientSession`, `active`, `expired`, `owner` = table `sessions` | one per SQL statement, lock scope or socket event; `HandlerThrows` is the inner catch block, `Leave`/`Remove`/`DeactivateByToken` the cleanup |
| `MessageDelivery` | a one-to-one message from one client's store to another's | `rows`, `queue` = tables, `clients` = map, `inbox`/`outbox` = the two directions of a WebSocket, `shown` = SQLite table `messages` | `MessageHandler` statement by statement, the login flush, sync, purge, and the client's handlers |
| `GroupMembership` | one group and every handler about it | `role`, `keys`, `msgs`, `receipts`, `group` = the five tables, `lists` = clients with the group in their sidebar | one per statement; `who`, `mine`, `fresh`, `todo` are the handlers' locals |
| `PendingNotifications` | the protocol "send if online, queue otherwise, flush at login" that five handlers share | `pending` = table, `batch` = the vector `findAndClear` returned, `clients` = the recipient's entry of the map | `Select` and `Clear` are the two statements of `findAndClear` |
| `Presence` | what the client map promises: which running connections a user name leads to | `open`, `listed` | abstract; `SessionRegistry` implements it with `Open` and `Listed` |
| `Receipts` | delivered and seen receipts of group messages, server and both clients | `rows` = `group_message_receipts`, `queue` = `offline_read_receipts`, `local` and `status` = the author's SQLite, `unread` = `_unreadTimestamps` | `GroupMessageHandler`, `AckHandler`, `ReadReceiptHandler`, the login flush statement by statement; `Dispatch` is how the client tells five kinds of ACK apart |
| `GroupClient` | the group keys of one device: creations, the waiting key "0", recovery, rotation, buffers, accounts | `mem`, `zero` = `_groupKeys`, `disk` = SQLite `group_keys`, `requests`, `packets`, `sends` = `_pendingGroup*` | one per slot or packet handler; the server's handlers as answers |
| `ClientView` | what one device shows, against what it stores | `stored`, `rows`, `count` = SQLite, `cached`, `shown`, `view` = `ChatModel`, `list` = `ConversationListModel`, `active` = `root.activePeer` | one per signal with all its slots in `Main.qml`; login, logout, disconnect, restart |
| `ConversationDeletion` | deletion for both participants, from one store to the other | `rows`, `queue`, `notes` = tables, `store`, `cursor` = the clients, `cleared` = the open transaction | `DeleteConversationHandler`, `deleteConversation`'s two statements, the flushes of a login in order, sync, `MessageHandler` |
| `SessionRegistryProofs`, `GroupMembershipProofs`, `MessageDeliveryProofs`, `PendingNotificationsProofs`, `GroupClientProofs`, `ReceiptsProofs`, `ClientViewProofs`, `ConversationDeletionProofs` | theorems about the module each is named after | | |
| `MC*` | instances for TLC | | |

`MessageDelivery` and `PendingNotifications` use logging in and registering as
one step each; `SessionRegistry` has their detail. `ConversationDeletion` composes
`MessageDelivery`'s queue and sync with `PendingNotifications`' rows for one
conversation, because the order in which a login flushes them is what matters
there; attempts, text formats and second devices, which that order does not
touch, stay in the detailed modules.

Abstractions. Payloads, names and keys are model values; a timestamp is an
instant and its text format (`iso` from a client, `pg` from PostgreSQL), because
deduplication compares texts. Instants are distinct: two clients do not write
in the same millisecond. In `GroupMembership` all users are online and the
creation of a group is one step up to the first invite, since nobody else has
the id before (a statement that fails half-way is `CreateGroupFails`). A
`GROUP_KEY_EXCHANGE` with several pairs cannot arrive, because its separator is
the field delimiter of the wire format; `replaceAllKeys` is therefore left out.
The history variables `swept`, `sweptBy`, `wrote`, `got`, `blind`, `late`, `cut`,
`torn`, `owner` (of the group) and `knows` are never read by a handler's guard except
that clients send requests only for groups they know.

A `CREATE_GROUP` may come without the key of a member: the client leaves out what
it cannot encrypt (NetworkManager.cpp:387-394), and the server stores the keys that
came and invites everybody (CreateGroupHandler.cpp:87-102). `torn` holds such
members, and those between whose two rows a fault came; that interleavings add
nobody to them is what `MemberHasKey` says.

Faults of the server. A statement that throws a `DbException` ends its handler, not the
connection; a crash ends everything but the tables. `SessionRegistry` and
`GroupMembership` have failing statements (in the tables of a group a crash leaves what
throws of all handlers leave); `PendingNotifications`, `Receipts` and
`ConversationDeletion` have both, since these modules list the ways in which something
is lost; `MessageDelivery` has crashes, and what it excludes (a duplicate, a row marked
too early) a handler that stops does not do either. In `PendingNotifications` a notification that is in no row when the fault
comes is put in `cut`: the INSERT fails after the change it tells of, or the server dies
before it, or the rows `findAndClear` deleted were not sent yet.

In `Receipts` there is one author with one device, and members leave for good.
A read receipt also reaches the other members; they have no row for it, so only
the author's copy is followed. A member's client acknowledges a group message before
it decrypts it (NetworkManager.cpp:661-674): with a key that is not the message's own,
nothing is stored. So "delivered" on the author's screen means reported, not stored,
and `StatusHonest` says no more; "seen" means opened. In `GroupClient` a key is a number, `real` (the
key the other members have), `overlap`, `rotated`, `adrift` and `cut` are history
variables, and a role change or a kick may be refused in any group the client
does not own. In `ClientView` a text is its number, and names of groups are the function
`Title`, which the instance gives. A group message needs the key of the group and not
its row: after a bare GROUP_KEY_EXCHANGE the group is listed with a badge and has no
counter (`bare`), and after the next login `loadGroups` does not find what was stored
for it (`Stray`). `gone` holds that, and what a deletion or a lost connection took from
the cache. A message that cannot be decrypted comes in as "[Encrypted]", counts in the
badge and is never acknowledged; a GROUP_INFO read after a logout lists its group.

In `ConversationDeletion` a message's number is also its timestamp, and the device's
own deletion is recorded in `hidden`; `unheard` and `missed` record a lost
notification and a failed login or sync. A login that throws leaves a session that is
authenticated and not registered; its next request registers it (Server.cpp:80-89).
Requests that the module does not have count, so `Register` may come at any time
after. `WipedComesBack` is limited to what the sync covers because the rest is lost: a
DELETE_CONVERSATION that arrives late wipes everything the device has, also what its
user wrote after the deletion was committed, and no sync brings back what is not newer
than the cursor. `OwnStay` states the rule one would expect; with it in place of
`DeletedForBoth` in `MCConversationDeletionBoth.cfg` TLC shows the loss without any
fault.

Definitions whose comment begins "Mutant of" are deliberately wrong variants of
the definition after them. No specification uses them; replacing the original
by its mutant makes TLC report the property listed with it in `PROJECT.json`,
which shows that the property depends on that piece of code.

## 3. Runs

Passing runs:

| Run | Instance | Shows |
|---|---|---|
| `registry_safety` | 2 connections, 2 addresses, 2 users, 2 session rows, 3 registrations, db failures, crashes | `RegistryOwned`, `PointerUnambiguous`, `TokenOwnership`, `OnlyOverlappingLoginsCoexist`, `ImplementsPresence` (refinement), `TypeOK` |
| `registry_liveness` | 1 connection, reconnecting, 3 rows, the same failures | `DeadPeerUnregistered`, `ExpiredDeactivated` |
| `delivery_quiet` | 1 sender, a recipient who leaves and returns, no fault | `EventuallyShown` |
| `delivery_faults` | 2 messages; sockets die with packets in flight, the recipient is back on a second connection before the server saw the first one go, crashes; 1 attempt | `ShownOnce`, `DeliveredWasWritten`, `AttemptsBounded`, `TypeOK` |
| `group_safety` | 3 users, 4 requests of any kind, missing keys, failing statements | `NoOrphans`, `MemberHasKey`, `CreatorNotRemoved`, `TypeOK` |
| `notifications` | 2 producers, a recipient with one connection at a time, 3 notifications, 2 failing statements or crashes | `LossCauses`, `SentOnce`, `QueueDrains`, `TypeOK` |
| `receipts` | an author, 2 members, 1 message; five budgets of faults: dead socket, crash, failing statement, rotated key, restart, departure | `StatusHonest`, `ReceiptsAccounted`, `StatusForward`, `TypeOK` |
| `group_client` | 1 user, up to 3 groups, 4 user or peer actions; logout, lost connection, kick, refusals | `BufferedIsRequested`, `KeyAgreement`, `KeyStored`, `RecoveryCompletes`, `TypeOK` |
| `client_view` | 2 peers, 1 group with or without its row, 2 messages; login, logout, lost connection, restart, deletion | `OpenIsCached`, `BadgeStored`, `StatusStored`, `OpenIsRead`, `HistoryCached`, `ReceiptHonest`, `TypeOK` |
| `deletion` | 2 users, 2 messages, 1 deletion, 3 logins, 1 failing statement or crash | `WipedComesBack`, `DeletedCauses`, `TypeOK` |

Runs that end in a violation, each a disagreement between the code and a comment
or document of the repository (quoted in `PROJECT.json`, "findings"):

| Run | What the trace shows |
|---|---|
| `delivery_race` | two handlers reload the same newest row; one message is queued twice, the other never |
| `receipts_kinds` | the author is offline; a member's `delivered` is queued, the `seen` of the same message meets the unique index and is dropped |

Further configurations, not in the list of runs, show disagreements of the same
kind; TLC reports a violation for each:

| Configuration | Property | The line it quotes | What the trace shows |
|---|---|---|---|
| `MCSessionRegistryRouting.cfg` | `RoutesToUser` | `Server.cpp:81` | a login on a logged-in connection throws after `setUsername`; `findClient` of the old user returns a session of the new one |
| `MCMessageDeliveryCrossing.cfg` | `NothingLost` | `README.md:11` | a message written to a dying socket is not queued; an own message moves the sync cursor past it |
| `MCGroupMembershipOwner.cfg` | `OwnerStays` | `GroupLeaveHandler.h:13` | a creator who lists themself is demoted by the upsert and leaves |
| `MCGroupMembershipDemote.cfg` | `AddNeverDemotes` | `GroupKeyExchangeHandler.cpp:84` | two adds and a grant: the second upsert demotes |
| `MCPendingNotificationsLost.cfg` | `QueuedIsKept` | `PendingNotificationRepository.h:35` | a row queued between SELECT and DELETE is deleted unread |
| `MCConversationDeletionBoth.cfg` | `DeletedForBoth` | `NetworkManager.h:118-119` | a message crosses the deletion and stays on one device |
| `MCGroupClientWords.cfg` | `OwnWords` | `NetworkManager.h:69` | a text buffered before a logout is sent under the next account |
| `MCGroupClientReleased.cfg` | `BufferedReleased` | `NetworkManager.cpp:649-650` | a key request lost with the connection is never repeated; the packet stays buffered |
| `MCGroupClientZero.cfg` | `ZeroMeansAcked` | `NetworkManager.cpp:713` | a GROUP_INFO of another group takes the key that waits for a creation |
| `MCClientViewLocal.cfg` | `DeletionIsLocal` | `NetworkManager.h:112`, `LocalStorage.h:165` | deleting the open conversation empties the cache of all |
| `MCClientViewGone.cfg` | `DeletedIsGone` | `NetworkManager.h:118` | a conversation deleted while another one is open stays in the cache |
| `MCClientViewAcked.cfg` | `AckedIsDelivered` | `NetworkManager.h:164` | the ACK of a message is applied to whatever conversation is open |
| `MCClientViewSeen.cfg` | `SeenStays` | `ChatModel.cpp:87-92` | a late ACK sets a seen message back to delivered |
| `MCClientViewList.cfg` | `ListBacked` | `NetworkManager.h:69` | an echo read after a logout, when the store is closed, enters the list the next account sees |
| `MCClientViewTitle.cfg` | `BadgeStored` | `ConversationListModel.cpp:11-12` | a group named like a peer shares the peer's badge |
| `MCSessionRegistryTokens.cfg` | `ActiveRowHasConnection` | `NetworkManager.cpp:824` | after an account switch the first token stays active without a connection until it expires |
| `MCSessionRegistryRelogin.cfg` | `NoDoubleLogin` | `LoginHandler.h:9-10` | a second login on one connection is accepted |
| `MCGroupMembershipKick.cfg` | `OnlyCreatorKicksAdmin` | `GroupLeaveHandler.cpp:37` | grant between check and removal: an admin removes an admin |
| `MCGroupMembershipReceipts.cfg` | `ReceiptsOfMembers` | `GroupLeaveHandler.cpp:45` | leave between snapshot and INSERT: a receipt row nobody will complete |
| `MCGroupMembershipDelete.cfg` | `DeletedNotListed` | `DeleteGroupHandler.cpp:29` | add after the members were collected: a client lists a group that is gone |
| `MCPendingNotificationsTwice.cfg` | `ConsumedOnce` | `PendingNotificationRepository.h:50` | two logins read the same row |

Bounds and why they are enough. Every race above needs two handlers, at most one
request each before them, and one object they fight about; with two or three
actors the third one is the bystander whose state must not change. Two session
rows allow one supersession, three registrations an account switch and a return;
two addresses for two connections are what makes reuse of an address possible.
With one delivery attempt the limit is reached by every flush, and exceeded by the
two overlapping ones. With `MaxAttempts = 2` the same instance
tries a row again whose flush was interrupted: 2.0 million
states, the same properties hold, three to four minutes. In `group_safety` any set of
members may come without keys: 2.2 million states. Three notifications let one be
queued before, one inside and one after a flush, and two faults a failing statement
and a crash of the login after it. For receipts one message and two
members are what "all" needs, and one drop puts the author or a member offline
at any point. A behaviour of `receipts` has one of the budgets in `MCReceipts`, each
with the faults that can act on one receipt together: a dead socket with a restart and a
departure, with a rotated key, or with a failing statement; a crash with a failing
statement and a rotated key; a failing statement with a departure (2.2 million states
in all). Three groups allow the client's own one, one it creates and a
second creation that overlaps; four actions reach every pair of them with a
logout or a loss between. In `client_view` two messages fall
into one conversation or into two, with a third one to be disturbed (1.6 million
states). In `deletion` three logins are the first ones of both users and one return,
and one fault comes at any step (4.3 million states); without it the same invariants
hold with two deletions (7.2 million states) and with three messages (9.8 million). `MaxOps` counts requests, not
steps. Symmetry is used only in safety runs, and in
`delivery_faults` only between the recipient's two connections. Deadlock is checked where the
system always has a next step; the delivery, group, receipt and deletion runs end
when their bounded messages, requests or logins are used up, so it is switched off there.

Fairness. Weak fairness of the steps of each server thread (preemptive threads
that never wait for each other) and of the hourly timer. `EventuallyShown`
assumes that a disconnected device logs in again, since the promise is "when
recipient reconnects", and that the client's event loop runs. `QueueDrains`
assumes that the recipient's connection ends some time and that they log in
again: a row queued between the flush of a login and `addClient` waits for the
next login; faults need not come, and there are finitely many. `RecoveryCompletes`
assumes that the server handles what it was sent,
that the client's event loop runs, and that a user at the login page logs in
some time. Nothing else is assumed of peers.

## 4. Proofs

TLAPS proves, for every value of the constants:

`SessionRegistryProofs` (`RegistryConstants`: the null values are not users or
addresses, bounds are naturals; any set of faults)

* `TypeCorrect`, `NoDanglingEntry`, `RawPointerSafe`. The inductive invariant is
  `RegistryInv == TypeOK /\ Locals /\ RegistryOwned /\ Registered /\
  AddressesDiffer`. That entries have owners is not inductive: a new session at a
  reused address could inherit an old entry. `Registered` is the missing half:
  a thread with a local user name still *is* in the map under it until
  `removeClient` has run, so its address is not free and nobody else gets it -
  although its own `shared_ptr` is out of scope by then. `AddressesDiffer`
  follows and carries `PointerUnambiguous`. `FreshAddress` is the lemma for
  `Connect`; steps that touch none of these are collected in `QuietActions`.
* `TokensOwned`, `LoginRevokesEarlierOnes`. `TokenInv` adds `RowsOK` (rows are
  numbered in the order of insertion, what a login revoked was there before its
  own row) and `TokensDiffer`. Two active rows of a user then come from logins
  of which the later one had revoked before the earlier one inserted.
* `RegistryImplementsPresence`: with `RegistryInv` at hand every step of
  `SessionRegistry` is a step of `Presence` under the mapping `Open`, `Listed`,
  or leaves both alone (`PresenceStep`, one case per action). That addresses of
  running connections differ is what makes `removeClient` by raw pointer a
  `Withdraw` of one connection; that a leaving thread has no entry is what
  allows `Close`.

`GroupMembershipProofs` (`GroupConstants`; any set of users and requests)

* `GroupTypes`, `NothingOutlivesGroup`: `GroupInv == TypeOK /\ BeforeGroup /\
  NoRows`; handlers that outlive the group fail at the foreign key.
* `CreatorSafe`: `CreatorSpared`, a removal past its check has no creator as its
  target, is preserved because no statement makes a creator once the group
  exists; `RoleWriters` lists the statements that write `group_members`.
* `MembersHaveKeys`: `MemberHasKey` is inductive with `GroupInv`. The history
  variable `torn` holds the users whose two rows a fault left apart (`saveKey` after
  `addMember`, the second DELETE of `removeMember`) or whom CREATE_GROUP brought
  without a key. The theorem says that overlapping handlers add nobody: `addMember`
  comes before `saveKey`, and `removeMember` deletes the key before the member.

`MessageDeliveryProofs` (`DeliveryConstants`; any number of connections, devices,
users and messages, any set of faults)

* `DeliveryTypes`. `Typed` adds what is on the wires (`Shapes`), in hand (`InHand`), and
  that rows read by a flush name messages (`ReadRows`), since the purge may have
  taken them from the table.
* `MarkedWasWritten`: two flushes can hold the same row, so `OneMessage` says that an
  id names one message wherever it is, and `WrittenFirst` that a flush about to
  mark has written.
* `NoDuplicateShown`: `isDuplicate` compares peer, sender and text of the timestamp,
  the property only sender and instant. `ShownInv` closes the gap: there is a
  function `w` from instants to sender and recipient with which stores, table,
  requests and packets agree, and the store has one format of text (`OneFormat`,
  which is what `canonical` is for).
* `AttemptsLimited` assumes that `Conns` is finite, without which the bound says
  nothing. The bound is not inductive: what is, `Owed`, is that a row with all its
  attempts used has no more flushes that still owe it one (`Debtors`) than the
  bound leaves; a row out of attempts is not read again, and `incrementAttempts`
  trades a debt for an attempt.

`PendingNotificationsProofs` (`NotificationConstants`; any number of producers,
connections and notifications)

* `NotificationTypes`, `LossHasCause`: `LossInv` adds `BatchInFlush` (a batch is
  non-empty only in a flush) and `ReadOrLate` (between the SELECT and the DELETE a
  row of the table is in the batch or was inserted late, so what the DELETE
  takes without having been read is in `late`). A failing statement or a crash puts
  in `cut` what is then in no row.
* `NotSentTwice` assumes `OneConnection`, a recipient with one device: with two,
  two logins read the same rows before either deletes them
  (`MCPendingNotificationsTwice.cfg`). `OnceInv`
  says in which one place a notification is (`OneCopy`) and that what is still to
  be sent was not sent (`Unsent`).

`GroupClientProofs` (`GroupClientConstants`; any number of groups, keys, accounts)

* `ClientTypes`, `RequestsCover`. `Typed` needs what is in the queues (`Shapes`), that
  a connection opens with a login (`Session`) and `Counts`: a group the server
  makes, and a key, comes from a `createGroup` or a kick of its own, so that ids
  stay in range; counting packets is by the cardinality of their positions.
* `KeysAgreed`: in every place a key of a group can be - memory, the SQLite store,
  the server's wrapped copy, the packets of either direction - it is the one the
  other members have (`KeysAgree`). For a creation this needs `OneCreation`: with one
  at a time, the key under "0" is the one of the packet that is answered. The
  history variable `overlap` excludes the other case, in which the second creation
  replaces the key the first one waits with.
* `KeysStored` assumes `OneUser`. It is not a theorem without: after a lost
  connection (not a logout) the keys stay in memory, and when another account
  logs in they are not in its store. TLC checks the property for one account.

`ReceiptsProofs` (`ReceiptConstants`; any number of messages and members)

* `ReceiptTypes`. `Typed` adds `Shapes` and `DeadEnds` (the socket of a closed
  connection holds nothing).
* `StatusNeverBack` is an action property. `recomputeGroupAggregate` computes the
  status anew from the rows, so it could fall: `SnapshotComplete` says it cannot,
  because by then every member with a row on the server and still in the group
  has a row in the store, `SeenByAll` that a departure only makes it rise, and
  `OnePlace`, `NotAnswered` that the ACK with the snapshot is handled once and over
  blank rows.
* `NeverOverstated`: `HonestInv` adds that no receipt anywhere on its way says more
  than its member's client has said (`ReceiptsTrue`).
* `NoneDisappears`: `AccountInv` adds `SentBeforeMark`, that the login flush marks a
  row only after the send, so that a flush that fails in between sends it again.
  `Crash` empties every place but the tables, into `lost`. Each step is shown to keep every receipt in its place
  or to move it on (`StoreKept`, `InboxKept`, `OutboxKept`, `HandKept`, `QueueKept`).

`ClientViewProofs` (`ClientViewConstants`; any number of peers, groups, messages)

* `ViewTypes`. The list operators are described once by lemmas (`AddPeer`, `AddGroup`,
  `SetBadge`, `RemoveOne`, `LoadedList`) in terms of the conversations listed;
  `ListEffect` says that an action changes the list in one of seven ways.
  `WellListed` is the invariant: one entry for a conversation, a peer's under its
  name. Counters are bounded by the number of messages (`Counted`).
* `ShownIsCached`: `Login` alone changes the cache and not the view. It may because a
  client without an account has nothing open (`Idle`).
* `StatusIsStored` needs `Apart` (without an account nothing is both cached and stored:
  what a late echo leaves is in no table) and `Queued` (a text that waits for a
  key is in no table and was answered by nobody).
* `HistoryIsLoaded`: a login loads the rows of stored conversations, so `Rowed` says
  that every stored message of a peer is in one, and one of a group without a row
  is cached until the session ends and `gone` after it.
* `ReceiptsHonest` is an action property: an unread message is stored (`UnreadStored`)
  or gone, hence cached or gone, and the open conversation shows its cache.
* `BadgesAreStored` and `OpenReadAlways` assume `OwnTitles`, that no group has the name
  of a peer; `MCClientViewTitle.cfg` shows what happens otherwise. A conversation
  that is not stored, or not listed, has nothing unread (`Rowless`, `Unlisted`), so
  that its new entry starts with the right number; `bare` excepts the groups that got
  a message before they had a row.

`ConversationDeletionProofs` (`DeletionConstants`: two users, which is what a
conversation has; any number of messages, deletions and logins)

* `DeletionTypes`. That `notes` stay in range is not inductive: a thread at `note` is
  about to add one. `Bounded` counts what a sender's deletions can still become:
  packets on their way, the one under way and the notes are at most those asked.
* `DeletionHeard`: `DeletedInv` adds `AskedForgotten` (while a user waits for his own
  deletion his device has only messages that crossed it, or that will reach the
  server behind it) and `ErasedOwed`: from the COMMIT to the wipe of the peer's copy
  the notification is a thread at `notify` or `note`, a row, a batch or a packet, unless it
  went with a socket, a statement or the server (`unheard`). Both are needed, since
  `Erase` makes messages of both devices erased at once and only the peer is told.
* `WipedIsRestored`: `StaysInv` says where a message is that the device does not have.
  `Restored`: a device that has read its login ACK has each message to its user, or
  it is `Due` or in the inbox; and behind every notification in the inbox, which will wipe
  it, it is to come again. `Due` is the queue, the thread that routes it, a sync
  not yet read or its replay, or a login or sync that failed. `SyncLast` is why the flush is harmless to what
  the sync covers: a client that is ready while its login still runs has its sync
  unread, so the rows are read after the notes were sent. `Emptied` is why a
  notification does not outrun messages of its sender. `ForNone`, `ForDue`,
  `ForSame`, `ForQuiet`, `ForSent` and `ForRead` say how `Restored` for a user survives the
  six ways in which a step can touch it.

Only model-checked: liveness, because fairness and `ENABLED` are outside the prover's
reach. Every invariant and every action property a passing run checks is stated by
a theorem. `OneUser`, `OneConnection` and
`OwnTitles` are hypotheses of the theorems whose property fails without them, as
said at each. What a recursive definition computes for every input could not be
proved either; no module uses one.

## 5. Not modelled

* Cryptography: OpenSSL calls without protocol state; keys are model values.
* The wire format: `ProtocolParser`, `PacketBuilder` and `operator>>` join and
  split eight fields at `|`, without escaping and without state. Its one effect
  on the protocols, that a second key pair cannot arrive, is used above.
* The one-to-one branch of `AckHandler` (no client requests it) and the server's
  one-to-one forwarding of read receipts (ReadReceiptHandler.cpp:77-108): send or
  queue as in the group branch, but without its catch, and an echo to siblings.
* `last_seen`, the upload of public keys, `replaceAllKeys` (unreachable),
  `ConversationHistory` (unused), entities, dispatch by packet type (a constant
  table), `DbManager`'s pool.
* Failing statements in `MessageDelivery`; section 2 says which modules have them.
* QML pages and layout, TLS errors, pings, failing SQLite statements.

## 6. Plan

Done: `SessionRegistry` (modelled, checked, proved, implements `Presence`);
`GroupMembership`, `MessageDelivery`, `PendingNotifications`, `Receipts`,
`GroupClient`, `ClientView` and `ConversationDeletion` (modelled, checked, proved).

What would extend the project further, in this order:

1. Second devices in `ConversationDeletion`: siblings of the deleting device are not
   told.
2. Failing statements in `MessageDelivery`.
3. The one-to-one branch of read receipts on the server, with its missing catch.
4. The hazards in `PROJECT.json` that have a note instead of a property.
