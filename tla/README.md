# smtp-sink in TLA+

Models, model-checking runs and machine-checked proofs for smtp-sink, the SMTP
server for testing in this repository: it accepts mail over SMTP, keeps the
newest mails in memory or in SQLite, shows them through an HTTP API and a web
page with live updates, and may forward them to another server. Paths below are
relative to the repository's root; line numbers are those of this commit.

## 1. The system

| part | code | state | operations |
|---|---|---|---|
| storage trait | `src/store.rs:18-29` | -- | push, get_all, get_by_id, query, get_attachment(s), clear, remove, close |
| in-memory store | `src/store.rs:32-138` | `RwLock<Vec<MailRecord>>`, `max`, a broadcast sender | the trait |
| SQLite store | `src/sqlite_store.rs` | `Mutex<Connection>`, tables `emails` and `attachments` | the trait, `enforce_max`, `open`, `close` |
| SMTP listeners | `src/smtp.rs:31-103` | listener, shutdown receiver | accept, spawn a session, stop accepting |
| SMTP session | `src/smtp.rs:113-530` | `Session` (envelope, authenticated, tls_active, auth_state), a `BufReader` | one command or one mail at a time |
| mail parsing | `src/smtp.rs:533-647` | -- | `parse_email` |
| forwarder | `src/forward.rs` | `mpsc` queue of 100 | `forward` (from a session), `run` |
| HTTP API | `src/http.rs:49-197` | shared store | list, search, read, delete, delete all |
| WebSocket handler | `src/http.rs:199-246` | socket, broadcast receiver | initial list, list after each notification, close |
| web UI | `public/index.html` | `emails`, `ws` | load, connect, reconnect, delete |
| lifecycle | `src/lib.rs:76-226` | join handles, shutdown sender, store | start_sink, stop |
| TLS set-up, command line, errors | `src/tls.rs`, `src/main.rs`, `src/error.rs` | -- | run once, or pure |

How they interact: each SMTP session is a tokio task. At the end of a mail it
queues a copy for the forwarder (waiting for room if the queue is full), pushes
the record into the shared store, and replies 250. The store announces every
change on a broadcast channel of capacity 16 after it has released its lock.
Each WebSocket handler is a task that sends the whole list when it starts and
again for every notification. Deletions come from HTTP requests. `stop()` sends
on the shutdown channel, waits for the SMTP listener's and the HTTP server's tasks
and closes the store; it waits neither for sessions nor for the forwarder. The web
page asks for the list once when it opens and whenever its refresh button is
clicked, and gets it over the WebSocket as well.

What is hard in it, and what would make it correct:

- *in-memory store*: several tasks in push, remove, clear and get_all at once;
  push has intermediate states. Readers must never see them; only the oldest
  mails may be lost, and only to make room.
- *live updates*: a change, its announcement and the handler's read are three
  steps of two tasks, and the channel drops messages for slow receivers. A
  handler with nothing left to do must show what the store holds; one that does
  not must get there or be closed.
- *SMTP session*: the meaning of a line depends on an AUTH exchange, a mail in
  progress, and a TLS upgrade with lines already read ahead. No mail without the
  credentials when they are required, none from a sender off the whitelist, none
  to recipients of another envelope; no plaintext acted on after STARTTLS; client
  and server agree on what the next line is; a dead client leaves nothing behind.
- *SQLite store*: push is several statements without a transaction and its
  errors are ignored; `created_at` has a resolution of a second. A crash must
  not lose or duplicate what was acknowledged; the newest mails must be the ones
  kept.
- *forwarder*: bounded queue, waiting sessions, a relay that may refuse, be away
  or never answer, mails lost with the task. A mail must be forwarded at most once
  and, if the relay answers, stored and tried in the end; a session that waits for
  room must not be overtaken for ever.
- *lifecycle*: `stop()` against live sessions and open WebSockets. It must end,
  and nothing may be pushed into a closed store.
- *web UI*: the initial fetch races the WebSocket's first message. The older
  list must not win.

`PROJECT.json` lists the hazards line by line, with the property that watches
each one or the reason why none does.

## 2. The modules

```
EmailStorage          what the trait promises (abstract)
   ^ refined by
MemoryStore           the Vec, its lock, its eviction loop     MCMemoryStore
   ^ EXTENDS                                                   MemoryStore_proofs
LiveUpdates           + WebSocket handlers and channel         LiveUpdates_proofs
   ^ EXTENDS
WebPage               + the page, its loads and its retries    WebPage_proofs

SqliteStore           the tables, the statements of push,      MCSqliteStore
   refines EmailStorage  the end of the process, the clock     SqliteStore_proofs

SmtpEnvelope          a connection's mail transactions (abstract)
   ^ refined by
SmtpSession           one SMTP connection                      MCSmtpSession
                                                               SmtpSession_proofs

Delivery              what becomes of a mail (abstract)
   ^ refined by
Sink                  listeners, sessions, HTTP connections,   Sink_proofs
   EXTENDS Forwarder     start, stop and exit
Forwarder             the bounded queue and its task
```

**EmailStorage.** The retained mails as a sequence, oldest first; `Push` keeps
the newest `capacity`, and `Reopen` is the next process with a capacity of its own,
which only a store with a database file has. A mail is named by the order of its arrival, because the
program only ever compares ids (UUIDs) for equality. `snapshot[t]` is what task
`t` read last, so that readers can be spoken of.

**MemoryStore.** `emails` is the Vec, `writer` the task that holds the write lock
across steps, `pc[t]` where the task is in its call. Push is `PushInsert`,
`PushEvict` per round of the loop, `PushUnlock`, `Notify`; clear and remove are
one step under the lock and `Notify`. All readers take the read lock and see the
same Vec, so they are one action, `GetAll`; a remove that finds nothing changes
nothing and tells nobody. `pushed` and `deleted` are history for the properties.
`Retained`, the newest `MaxMails` of the Vec, is the refinement mapping: a push
takes effect at `PushInsert`, and the rounds of the loop are stutters.

**LiveUpdates.** The handlers are tasks of the same store (`Client \subseteq
Task`), so `InitialGetAll` and `Refresh` are MemoryStore's `GetAll` and wait for
its lock. `ws[c]` follows `handle_websocket` statement by statement; `unread[c]`
is the receiver's backlog and stops at `ChannelCapacity + 1`, which means
"lagged". `view[c]` is what the browser shows. The channel is tokio's, modelled
from its use. `missed[c]` is history: a notification fell while the handler had
read the list and not yet subscribed.

**SqliteStore.** `rows` is the table `emails`, a row being a mail, its
`created_at` and the number of its attachments; it outlives the process, of which
there is one when `up`. Push is `PushInsert`, `PushAttach` for each attachment and
`PushEnforce`, each a transaction of its own (the code opens none, so every
statement commits), under one Mutex that `holder` has; each has a variant that
fails, because the code ignores every result. `Crash` ends the process between any
two steps, `Close` when nobody is in a push; `Open` starts the next one, with
another `--max` perhaps. `Tick` and `ClockSetBack` are the system's clock.
Evictions go by `Before`: by second, and within a second by row id, which is how
SQLite's sort of a table scan leaves them; row ids of the rows present grow with
their arrival. Attachments go with their mail (the bundled SQLite enforces foreign
keys by default). `accepted`, `refused`, `deleted` and `faults` are history. A list
read from the store counts as a set of mails: get_all sorts by second, newest
second first, and nothing says what order a store lists its mails in.

**WebPage.** `shown` is the variable `emails` of the page's script, as rendered.
A load goes through `Request`, `Answer` (the server reads the store under its lock)
and `Loaded`, or ends in `LoadFails`; several may be under way, because each click
of the refresh button starts one and nothing cancels the last. `Message` is the
handler's send of LiveUpdates together with `ws.onmessage`, `Cut` a connection that
ends, `Reconnect` the timer set by `ws.onclose`. `overtaken` is history: the list
shown came from a load whose answer was behind the store when it arrived. The
page's delete buttons are the changes of other tasks.

**Forwarder, Sink, Delivery.** `queue` is the channel of `src/forward.rs:53`, whose
places are tokio's permits: `granted` are the sessions that have one and not yet used
it, `waiting` those inside `tx.send(email).await` without one, in the order in which
tokio serves them, `relaying` the mail in `forward_email`. A session takes a permit
(`Acquire`) or waits (`Wait`); `Receive` takes a mail out of the queue and gives its
permit to the first who waits (`Grant`); and `Send` is a step of its own, because the
mail is put into the channel only when the session's task runs again, so that a later
waiter or a newcomer may be there first: after two mails whose address does not parse,
which `forward_email` returns without an await, two sessions hold permits at once.
`ForwardEmail` ends a try with any result, because `run` logs an error and goes on; or
it never comes. In Sink a session is seen from the end of a mail to its reply:
`EndOfMail` finds room or waits, `SendMail` queues the mail, `StoreMail` is
`store.push`, `Reply` the 250; `Disconnect` may come before the mail's end or while the
reply is written, and not while the session waits, because then it does not look at its
socket. There is no await from finding room to push, nor, for a session that waited,
from queueing to push, so `Exit`, at which a runtime drops its tasks, cannot fall
between them, and only `Kill` can. `main` follows `stop()` join by join; `listener`,
`http` and `conn` are the tasks it waits for and those it does not: an upgraded
connection belongs to its handler and no longer holds up the HTTP server. `stopped`
without `exited` is a program that embeds the library and goes on. Delivery says what
all this amounts to for a mail: offered to the relay if there is one, kept,
acknowledged, in this order, and tried once, in the order in which mails were offered,
which need not be that of their arrival. Sink implements it with its own history
variables as the mapping.

**SmtpSession.** `session` is `struct Session`, `phase` is where the handler
waits (for a TLS handshake, a command line, a line of a mail), `buf` what the
client has sent and the session has not processed, each line with the channel it
came over. Every branch of `process_command` is an action, and so are the three
states of an AUTH exchange, in which any line is an answer. A line is a record
of its kind and its argument: addresses are model values, one in two spellings;
base64 texts are the right name, the right password, both, or something else;
"TEXT" stands for every line that is neither a command nor base64, "8BIT" for
every line that is not UTF-8, `Garbled` for an address with `>` before `<`. A
bare command word whose letters number a multiple of four *is* base64 and is
taken for a name or a password. `opts` is chosen at the start from the
configurations that `SinkOptions` allows. When a connection has ended the model
starts another. `heard`, `named` and `greetings` are history. A delivered mail is
represented by its envelope; the record's own `from` and `to` come from the
mail's headers when it has them (`src/smtp.rs:559-575`) and are not modelled.

**SmtpEnvelope.** What all the lines of a connection amount to: a client that may
send names a sender that the configuration admits, then recipients; nothing changes
while the mail is read; its end gives the envelope to the store as it stands and
leaves an empty one. Naming the sender again keeps the recipients, as the code does
(`src/smtp.rs:384`). SmtpSession implements it (`Transaction`): `allowed` is
`authorized`, `reading` a mail in progress, `kept` the envelope of the mail delivered
last.

Operators headed "Slip" are not part of the models. Each is a wrong version of
the definition it names; put in its place, it breaks the property that
`PROJECT.json` pairs with it, so every property is known to depend on the code.

## 3. The runs

Each is `tlc -config X.cfg M`.

| run | module, cfg | checks | bounds |
|---|---|---|---|
| `store` | MCMemoryStore | `TypeOK`, `StoreInv`, `SnapshotBounded`, `LosesOldestFirst`, `EvictsOnlyWhenFull`, `ImplementsStorage` | 3 tasks, capacity 3, 5 pushes; 143 862 states |
| `live` | LiveUpdates | `LiveTypeOK`, `SettledIsCurrent`, `CatchesUp` | 2 tasks, 2 browsers, capacity 1, 3 pushes, channel of 1; 640 000 states |
| `live_gap` | LiveUpdates, ...Gap | `NoMissedUpdate`: violated | 1 task, 1 browser |
| `smtp` | MCSmtpSession | `TypeOK`, `DeliveredOnlyIfAuthorized`, `SenderWhitelisted`, `ReplyTellsState`, `EnvelopeSinceReset`, `ImplementsEnvelope` | every line, 6 configurations, 1 line ahead; 694 000 states |
| `smtp_pipelined` | ...Pipelined | `NoPlaintextAfterTls`, `HangupEndsSession`, `HangupCountsDown` | 3 lines ahead, 2 configurations with STARTTLS; 489 000 states |
| `smtp_greeting` | ...Greeting | `GreetedOnce`: violated | |
| `smtp_truncated` | ...Truncated | `MailEndsWithDot`: violated | |
| `sqlite` | MCSqliteStore | `TypeOK`, `LosesOldestFirst`, `EvictsOnlyWhenFull`, `WholeOnceAccepted`, `ListsBounded`, `PushTrims`, `ImplementsStorage` | 2 tasks, `--max` 1 or 2, 3 pushes, 1 attachment, 2 seconds, every fault any number of times; 989 000 states |
| `sqlite_refused` | ...Refused | `AcceptedIsStored`: violated | |
| `sink` | Sink | `TypeOK`, `ForwardedIsStored`, `InTurn`, `LossBounded`, `EndsWithNothingLeft`, `ImplementsDelivery`, `WaitingIsServed`, `QueueDrains`, `StopEnds` | 2 sessions, 1 browser, queue of 2, 4 mails, with and without a relay; 750 000 states |
| `sink_stop` | Sink, SinkStop.cfg | `AllForwarded`: violated | queue of 1, 2 mails |
| `page` | WebPage | `PageTypeOK`, `PageCurrent`, `PageRecovers` | 2 changing tasks, 1 page, 2 loads at a time, capacity 1, 2 pushes, channel of 1, 1 cut; 1 300 000 states |

*Bounds.* `MaxPush` (pushes ever made), `MaxPipelined` (lines ahead), `MaxTime`
(seconds of the clock), `MaxMail` (mails received) and `MaxDrops` (times the page's
WebSocket is cut) are the only bounds in guards. Capacity 3 with 5 pushes fills the store and overflows it twice, with
deletions before, between and after; three tasks are a writer in its loop, one
that waits for the lock and one that has not announced yet. A channel of 1
instead of 16 lets a handler lag within three changes. One line ahead is enough
for what one line can do to a session; three put a command behind STARTTLS and
two more behind that. Two senders, one in two spellings, tell "not the same" from
"the same in another case". Three pushes into a table of
one or two rows overflow it, and a crash after each INSERT fills it beyond what one
push adds; two seconds give both ties and an order, and a clock to be set back. With a queue
of two instead of a hundred both sessions can have a permit at once and use them in
either order, and with four mails one is in `forward_email`, two are in the queue and a
session waits; or two are in the queue, both sessions wait, and each gets its place when
one of them is received. Two loads at a time let each overtake the other and a message.
Deadlock is checked in every run. Symmetry (of tasks) is used in runs without
liveness only.

*What the violations show.* The five violated properties are things the
repository says of the program and the code does not do:

- `NoMissedUpdate`: the handler reads and sends the list (`src/http.rs:207`)
  before it subscribes (`:217`). A mail stored in between is not shown until
  something else changes. `SettledIsCurrent` shows that this is the only way.
- `GreetedOnce`: the test for "a fresh SMTPS connection" (`src/smtp.rs:180`) is
  an empty envelope, which STARTTLS has just made (`:139`).
- `MailEndsWithDot`: the end of the stream ends a mail like the dot does
  (`src/smtp.rs:519`), so a truncated mail is stored as a whole one.
- `AcceptedIsStored`: a failed INSERT is not reported (`src/sqlite_store.rs:149`),
  and the client is told `250 OK: queued`.
- `AllForwarded`: `stop()` (`src/lib.rs:78-84`) waits for neither the sessions nor
  the forwarder, and main returns after it, so mails that were answered with 250
  and are still queued are never sent to the relay. `QueueDrains` shows that they
  are sent as long as the process lives and the relay answers, and `LossBounded` how many an end can cost:
  those in the queue and the one in `forward_email`, 101 in this code, however many
  sessions there are, because a session that waits for room has not answered.

Some behaviours are worth knowing though no run is about them. A line of a mail that
is not UTF-8 ends the connection (`src/smtp.rs:518`) although EHLO offers 8BITMIME.
After a restart with a smaller `--max` lists are longer than that until the
next push (`src/sqlite_store.rs:54`; `PushTrims` shows that one push is enough). No
timeout is put around `transport.send` (`src/forward.rs:147`): a relay that takes the
connection and stays silent can hold the forwarder for ever; then the queue fills up, and
every session is held at the end of its next mail, which is neither stored nor answered.
The page shows the list that arrives last (`public/index.html:821`), so an older one may
stay until the next change; `PageCurrent` shows that this and the gap of `NoMissedUpdate`
are the only ways to a page that rests on an old list.
And mails may be forwarded in another order than they came in (`src/smtp.rs:415`): who
has a place in the queue may be overtaken until it uses it, who waits for one may not
(`InTurn`).

Some properties of the database are stated up to a condition, and the condition is
needed. After the clock has been set back, `enforce_max` evicts a newer mail before
an older one, so `LosesOldestFirst` and `EvictsOnlyWhenFull` hold until then. A
failed INSERT into `attachments` leaves an accepted mail without one, so
`WholeOnceAccepted` holds until a statement fails. A crash between an INSERT and the
DELETE after it, or a DELETE that fails, leaves a row too many, so `ListsBounded` (no
list is longer than the largest `--max` in use) holds until one of them happens; what
the clock does is no matter.

*Fairness.* `live`: a call that has begun is finished and a handler that
can take a step takes one, because the runtime polls every task that is ready;
that a send completes assumes a browser that reads (one that goes away is
`Disconnect`). Nothing makes a call begin, a browser connect or stay.
`page`: the same, and the retry timer fires, since the page stays open; no load has to
be answered. `sink`: the runtime polls every task that can proceed while the process
lives, one weak fairness condition for each task. Nothing outside is certain: a session may
read for ever, a request may never be answered, which is the condition in `StopEnds`,
and there is no fairness of `ForwardMail`, because the code puts no timeout around the
try (what lettre's transport limits by itself is not this program's to say). That
no try lasts for ever is the hypothesis `RelayAnswers` of `WaitingIsServed` and
`QueueDrains`; `StopEnds` needs none. Nobody is made to stop the program. `smtp_pipelined`: the session's task is polled when it can proceed. The hang-up
itself is never forced: there is no timeout in the code, and a client that stays
silent keeps its session, in the model too.

## 4. The proofs

Checked by `tlapm`, for every value of the constants that satisfies the named
assumptions (`TaskAssumption`, `BoundAssumption`, `ClientAssumption`,
`ChannelAssumption`, `LineAssumption`, `OptionsAssumption`, `NamesAssumption`,
`PipelineAssumption`, `MaximaAssumption`, `FaultAssumption`, `PageAssumption`: sizes are natural numbers, the names for "none" are not
names of anything, lines and configurations are well formed).

**MemoryStore_proofs.** `TypeCorrect`, then `StoreInvariant`: `StoreInv` is
inductive given the types. Its parts need each other: the Vec is within capacity
without a lock holder only because the loop's exit condition holds at
`PushUnlock`; `Dated` (a mail has at least as many later arrivals as mails behind
it) is what turns "the Vec is full" into "it has been followed by MaxMails
others". `ReadersSeeNoOverflow` follows because a read needs `writer = NoTask`.
`RingBuffer` proves `LosesOldestFirst` and `EvictsOnlyWhenFull` together, by the
inductive `RingInv`: an eviction takes the head of a sorted sequence, so what
goes is older than all that stays. `Refinement` proves `Spec =>
ImplementsStorage`: the lemmas `TailKeepsNewest` and `EvictionInvisible` say that
dropping the head of a too long Vec does not change `Retained`.

**LiveUpdates_proofs.** `StoreUnaffected`: every step of the composed system is
a step or a stutter of MemoryStore, so the theorems above hold in it.
`SettledHandlersAreCurrent` rests on `FreshInv`: whoever holds a list that is not
the store's has a notification waiting, or a change is still to be announced, or
missed one before subscribing.

**WebPage_proofs.** The composed system with the page is still LiveUpdates
(`PageIsLive`), so what is proved of the handlers carries over as `Served`.
`PageTypeCorrect` needs from it that handlers only hold lists within capacity, and that the
Vec is within capacity whenever its lock is free. `PageIsCurrent` is inductive given
`Served`, by the lemma `Settling`: a step after which the handler rests is its message,
which the page shows, or one that leaves the handler and the store as they were; and
a load that arrives then brings the store's list or is `overtaken`.

**Sink_proofs.** `TypeCorrect` needs `PermitInv` for the queue's bound: mails in the
queue and permits not yet used are together no more than its capacity, and nobody waits
while there is room. `QueueInv` says that what was offered is what was tried, what is
under way and what is queued, one after the other, for as long as the process lives.
`OrderInv` says who has a permit or waits for one, that the line of waiting sessions is
in the order of their mails, and `InTurn`, which is inductive only with these: a session
gets a permit at once only when nobody waits, and otherwise as the head of the line.
`ServedInTurn` is `InTurn`; `OvertakingIsBounded` draws from it and `PermitInv` that of
the mails before a queued one no more than the queue holds are still on their way into
it. `HandInv` gives every mail one session at most and says how far it has come.
`ForwardedMailsAreStored` is inductive with these. `Refinement` maps every step to one
of Delivery or a stutter (`DeliveryStep`): in particular `EndOfMail`, which only gets a
place or a place in the line, and `Exit` and `Kill`, which drop the queue, are stutters.
Delivery is then put to use: `PromiseInv` (what was tried is the beginning of what was
offered, where no mail is found twice; what was answered was kept, what was kept was
offered) is shown of Delivery's steps alone (`PromiseStep`) and holds in Sink by the
refinement. `TriedOnce` follows from it, and so does `LossIsBounded` with `BacklogInv`:
at most the queue and one mail lie between what was offered and what was tried, and an
end changes neither (`EndIsStill`). `ForwarderEndsLast` adds `EndInv`: when the task has
ended, so has the listener and there is no session, so nobody holds a handle of the
channel or will.

**SqliteStore_proofs.** `TypeCorrect` needs `AttachInv`: the attachments stored and
those to be stored are no more than the mail has. `AcceptedMailsAreWhole` makes
that an equation (`WholeInv`) as long as no statement fails, and adds that a mail in
a push is not accepted yet; a crash forgets the push, and with it the obligation.
`OldestLostFirst` rests on `OrderInv` (until the clock is set back, `created_at`
grows with the arrival) and on the lemma `OldestIsClosed`: with a row, the DELETE
takes every row before it. `NoneEvictedEarly` adds `EvictInv`: the rows that stay when
one is evicted are `max` at least and of later mails (`OldestIsFollowed`, which counts
them by an injection), and what a mail has been followed by only grows.
`EveryPushTrims` rests on `OldestCounts`: the DELETE takes exactly as many rows as its
LIMIT says, because the number of rows before a row is another for every row (a
bijection, so no induction is needed). `Refinement` proves `Spec => ImplementsStorage`,
over restarts and the intermediate states of a push. The list that the trait speaks of
is the only ascending sequence of the table's mails (`ListOfMails`, `ListOfItsMails`), so
what a call does to the list follows from what it does to the set of rows. The step that
is not one of the trait's is `NewestStay`: by `OrderInv` the rows before a row are those
of earlier mails, as many as its place in the list says, so what the DELETE leaves is the
end of the list. `ListsStayBounded` counts rows: there are no more than the largest
`--max` allows, in a push one more (`BoundInv`), and the step that keeps it is the
DELETE, by `EnforceTrims`, which `EveryPushTrims` uses as well. Each condition on
`faults` is carried by `FaultsAreRemembered`. The theorems hold for every set of faults
and every value of `--max` at every start.

**SmtpSession_proofs.** `TypeCorrect` needs `EnvelopeComplete` (in a mail there is
a sender and a recipient), or a delivered mail might have no sender.
`AuthenticationHolds` uses `AuthInv`: the flag and the name decoded by a LOGIN
exchange were earned by what the client sent, and the gate passed at DATA still
stands when the mail is complete. `WhitelistHolds` and `EnvelopesAreSeparate` go
through one lemma, `EnvelopeEffects`, which lists the five things a step can do to
an envelope. `PlaintextIsDropped` is inductive as it stands, `RepliesTellState`
with `ReplyInv` (a handshake never runs inside an AUTH exchange). `Refinement` maps
every branch of every command to a step of SmtpEnvelope or a stutter
(`TransactionStep`, `TransactionStutter`). `HangupIsFinal` is the half of
`HangupEndsSession` that a prover can reach: once the client has hung up, every step
of the connection lowers a natural number, twice the unread lines and what the
phase still takes (`LeftDecreases`), so no sequence of lines keeps a dead session
alive; what is left to fairness is that its task is polled.

**SequenceLemmas** is what the proofs share about sequences: the elements of a sequence, of `Append`,
`Tail` and `RemoveAt`, and that a finite set of naturals has exactly one ascending
sequence (by counting, not by induction).

Model-checked only: the liveness properties `CatchesUp`, `HangupEndsSession`,
`PageRecovers`, `WaitingIsServed`, `QueueDrains` and `StopEnds`
(liveness under fairness is out of the prover's reach).

## 5. Not modelled

- *Content of mails* and MIME parsing, and with it what `forward_email` writes: the
  models name a mail by its arrival. The envelope of a forwarded mail (overrides
  included) is a function of the record and the options.
- *Search*: `query` filters a list under the same lock as get_all. The two
  backends match text differently (letters and dates), which is a matter of characters.
- *TLS*, certificates, logging, the error type, and copying the command line into options.
- *Rendering*, search and the detail view of the page.
- The error branch of `ForwardHandle::forward`: the receiver is only dropped when
  the task ends, and then there is no sender left (`EndsWithNothingLeft`).
- tokio's cooperative budget, at which a task may give way although it could go on: that
  a session is polled later than another is in the model, why is not.
- A caller that drops `RunningServers` without `stop()`: the listeners' shutdown
  receivers then see a closed channel and end in the same way.
- Write errors inside one command are one action (`ConnectionLost` in
  SmtpSession, `Disconnect` in Sink); half a command leaves nothing that outlives
  the session. Byte-level parsing of commands; of the slices that panic only
  `extract_address` is kept.
- Poisoned locks: nothing panics while a lock is held. Two processes on one
  database file. A client that stays silent: it keeps its session for ever, and no
  property can say otherwise.

## 6. Plan

What is left, each with its hazards, mutants and proofs:

1. `ReadData`: dot-unstuffing and the end of a mail as functions on lines, against
   the sender's dot-stuffing. `Query`: the two backends' filters against each other.
2. Progress measures for the other liveness properties, as `HangupCountsDown` is one
   for `HangupEndsSession`: the work left to a forwarder that nobody feeds, the steps
   left to `stop()`, the notifications left to a handler.
