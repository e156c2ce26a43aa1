# A verification project for libdbuslog

libdbuslog lets a program publish its log over D-Bus. The program links the
server library; clients list and enable log categories over D-Bus, and get the
log itself through a pipe whose reading end the server passes them. The modules
in this directory model the parts of the library where order, concurrency and
limits matter, TLC checks them on small instances, and TLAPS proves some of the
results for instances of any size. Paths below are relative to the root of the
repository.

## 1. Inventory

| Component | Code | State | Operations | Status |
|---|---|---|---|---|
| Log sender | `server/src/dbuslog_sender.c` | `done`, `bye`, the channel, the write watch, the packet and how much of it is written, the current message, the queue | send (any thread), ping, close, set_backlog, write and its callbacks, shutdown, disposal | modelled |
| Wire protocol | `PROTOCOL`, `common/include/dbuslog_protocol.h` | none | ping, message, Bye packets | modelled |
| Log receiver | `client/src/dbuslog_receiver.c` | the channel, the read watch, nested pauses, the partial packet, the last index | read callback, pause, resume, close | modelled |
| Core: fan-out | `server/src/dbuslog_core.c` | the array of senders, their CLOSED handlers, the queue limit, the next index | new_sender, remove_sender, CLOSED, set_backlog, log, disposal | modelled |
| Core: categories | `server/src/dbuslog_core.c`, `common/src/dbuslog_category.c` | the table of categories, `last_cid`, the default level | add, remove, remove all, enable, levels | modelled |
| Server | `server/src/dbuslog_server.c` | peers, `started`, `exported`, the policy | LogOpen, LogClose, other calls, signals, start, stop, disposal | modelled |
| GIO back-end | `server/src/gio/dbuslog_server_gio.c` | the bus, the exported object, name watches | method handlers, names, watches | modelled |
| libdbus back-end | `server/src/dbus/dbuslog_server_dbus.c` | name watches by id and by name, the filter | method handlers, NameOwnerChanged, GetNameOwner | modelled |
| Client | `client/src/dbuslog_client.c` | connection, proxy, copy of the categories, stream, calls | connecting, start, calls, signals, disposal | modelled |
| Tool | `tools/dbuslog-client/main.c` | list of actions, the call in flight | actions, follow, signals, timeout | modelled |
| Utilities | `common/src/dbuslog_util.c` | none | level names | not modelled: pure tables, tested by `test/test_util` |
| D-Bus interface, tests, build files | `spec/`, `test/`, `Makefile`, `rpm/` | none | | not modelled: no behaviour of their own |

How they interact:

    application threads --log--> core --send--> sender ==pipe==> receiver --> client --> application
                                  |  ^CLOSED      ^close                          ^
                                  v               |                               |
                       category signals --> server --------- D-Bus ---------------+

The server, the core and the senders run on the main thread of the program, the
receiver and the client on the main thread of another process. Only logging
happens on other threads: `dbus_log_core_log` reads the core without a lock, and
`dbus_log_sender_send` takes the mutex of the sender. Whatever writes to the
pipe runs on the main thread, which does *not* hold the mutex while it writes.

What is hard:

* the main thread writes a packet and looks for the next one while other
  threads send; a wakeup lost there leaves a message unsent until the next one;
* writes and reads take any part of a packet; the pipe and the queue fill up;
  the client leaves at any time; writing is nested in its own scheduling;
* closing is graceful: everything queued goes first, then Bye;
* a client must be able to tell how much it has missed, from message indices
  which are 32 bits wide;
* senders come and go in the middle of a message which is given to all of them,
  by handlers of signals which are emitted there;
* the client's copy of the categories is made of a snapshot and of signals
  which arrive before and after it; the log and its categories come through
  different channels;
* start, stop, LogOpen and LogClose, vanished clients and cancelled calls cross
  each other.

`PROJECT.json` lists each of these hazards at the line where it bites.

## 2. Modules

| Module | What it is |
|---|---|
| `LogProtocol` | packets, and pipes as sequences of units |
| `LogSender` | one sender, the threads that use it, its pipe, and a client which only reads or leaves |
| `LogReceiver` | one receiver |
| `LogStream` | `LogSender` with a `LogReceiver` at the other end of the pipe |
| `LogDelivery` | what a stream promises, without packets, pipes and threads; `LogStream` implements it |
| `LogFanout` | the core: senders, indices, and giving a message to all senders |
| `LogCategories` | the table of categories, and how the server announces its changes |
| `CategoryMirror` | `LogCategories` with the copy a client keeps |
| `LogPeers` | the peers of a server, their streams, and how each back-end finds out who has left |
| `LogCalls` | the D-Bus methods of both back-ends, as functions of the state of the server |
| `LogSession` | client objects: connecting, starting streams, late answers, cancellation, the end of an object |
| `LogTool` | the command line tool, its client and a server made of `LogCalls` |
| `LogSenderProofs`, `LogDeliveryProofs`, `LogStreamProofs`, `CategoryProofs`, `LogPeersProofs`, `LogFanoutProofs`, `LogSessionProofs`, `LogToolProofs` | theorems about these modules |
| `MC...` | values for the constants |

The modules stack as the code does. A stream is a sender and a receiver; what it
promises is `LogDelivery`. `LogFanout` knows of senders only that they take
messages until they close, `LogPeers` only that a stream ends when its pipe has
been read or has nobody left to read it, `LogSession` only that the server has one
stream for each name on the bus, and `LogTool` only which calls are answered how.

### LogSender

Variables have the names of the fields. `packet` holds `packet_size` and
`packet_fixed_part` together with the type and the message it was made of, so
that what reaches the pipe is known even if `current_message` is replaced.
`watch` is `write_watch_id # 0`, while `attached` counts the watches GLib really
has: the code loses track of one if it adds another. Three history variables
(`accepted`, `dropped`, `wire`) are only for properties.

Everything but `send` runs on the main thread, one callback or call at a time.
`main.pc` says where the main thread is inside of `dbus_log_sender_write`, which
has three parts another thread can tell apart: the write of the fixed part
(`WriteFixed`), of the data (`WriteData`), and the locked section which picks the
next packet (`PickNext`). A write and the comparison of `packet_written` after it are one
step: other threads only read this field, in the one test of `send`. `main.frames` counts the calls of `schedule_write`
which wait for `write` to return; `Return` unwinds them at once. `PingCheck` and
`PingFill` are the two halves of `dbus_log_sender_ping`, which does not take the
mutex. `ThreadSend` is the critical section of `send`; the source it attaches
afterwards is counted in `invokes` from then on, for a source which is attached
late is the same as one which runs late. `Shutdown` is part of the actions which
reach it.

The queue is a `GUtilRing` of libglibutil, which is not in the repository; the
model has what its documentation and the calls say (bounded `put`, `drop_last`).
What it does with messages beyond a limit which is reduced is not known here, so
`SetBacklog` may keep them or drop either end.

A pipe holds units, each of them one or more bytes which travel together. With
one unit for the header, one for the prefix of a message and up to three for the
text, a packet may be cut in front of and in each of its parts. A write of at
most `PipeBuf` units is not split; a pipe with room for less returns EAGAIN.

### LogReceiver, LogStream and LogDelivery

A read callback takes what is in the pipe until a packet is complete or nothing is
left. It is one action, except for messages, which take two: `ReadMessage` goes as
far as the handlers of SKIP, `ReportMessage` is the rest, for MESSAGE is emitted
even if these have paused or closed the receiver; `reporting` holds the message
between them. What the handlers do (pause, resume, close) is chosen with the step.
`LogStream` substitutes the receiver for the client in `LogSender`; the receiver's
end of file is the sender's closed channel, and its closed channel makes the
sender's writes fail.

`LogDelivery` promises that messages arrive in order, that those given up are
neither the oldest on its way nor the newest one, that the client is told how
many it has missed, and that a stream which has *ended* (Bye) has delivered or
accounted for everything. `LogStream` implements it under a refinement mapping:
the abstract queue is what the pipe, the packet and the ring hold together.

### LogFanout

The core keeps an array of senders which it never changes: adding and removing
replace it, because both may happen in a CLOSED handler while a message is given to
one sender after another. The increment of the index is a load and a store;
`overlapped` remembers that two threads were logging at once, after which an index
may have been used twice. A sender is reduced to what the core sees of it: open,
closing (it takes nothing any more, but is still in the array) and closed.
`GiveAndClose` is a send on the main thread whose write fails at once, and
`handling` says that handlers of the CLOSED it emits are still running, which may
add, close and remove other senders before the loop goes on (`HandlersReturn`);
messages they log themselves are left out. A message which `should_log` refuses
never begins. `Dispose` disconnects the handlers before it drops the references, so
that senders which end with it, or later, do not call a core which is gone.

### LogCategories and CategoryMirror

A category is enabled or gets a level, handlers of the application run, and the
server announces the change over D-Bus *after* them. Handlers may call the API
again. `calls` is the stack of what has not been finished: `HandlerOf` is a
handler which is running (`HandlerReturns` emits the D-Bus signal, with the
values of that moment), `Loop` a list of names a D-Bus call is going through
(`EnableNext`). `categories` holds the categories which have a reference, by id;
`table` those which are in the hash table. Adding and removing have no handlers
of the application and announce at once. Names are numbers, in the order of
`strcmp`. Of the flags, HIDE_NAME is carried unchanged and left out. A call which
the access policy denies changes nothing and is no action. `announced` is what
somebody knows who has asked a started server and listened since.

`CategoryMirror` adds the client: the steps of connecting (`phase`), its hash
table (`cats`) and the public array (`array`). The D-Bus daemon delivers signals,
replies and changes of the name's owner in one order, `bus`, as it does for one
connection, and GDBus dispatches them in that order. `init` numbers the attempts
to connect, so that results of a cancelled one are told apart, as the code does
by comparing `priv->init`. `Die` ends the server process; the next one starts
from the beginning. `failed` records which assertions of the client were false;
the client goes on as a build without debugging does. Reading `pdata` of an
empty array crashes it; reading behind the end of another one gives any value,
which is looked for or not (`CategoryAdded`).

### LogPeers

`peers` has for each client the number of its stream and the id of the watch of
its name. `WatchName` and `UnwatchName` are the back-end's: the GIO one only hands
out an id, the libdbus one also keeps a `DBusLogNameWatch` for the name, which is
shared by ids and counted, adds a match rule and asks for the owner. `requests`
and `inbox` are the two directions of the connection to the D-Bus daemon, which
keeps the order of each; `Daemon` handles one request, and `Leave` puts a
NameOwnerChanged in the inbox if there is a rule. `pending` is the serial number
of the question, so that the answer to a cancelled one is told apart. `Handle...`
is what the server does with the message at the head of the inbox: with the
filter removed it is thrown away, and `missed` remembers whom the server will
never hear of again. Ids of watches wrap around after `Modulus - 1`, skip zero and
those in use. A stream is `open`, `closing` (`dbus_log_sender_close` has been
called, the pipe is not empty yet) or `ended`; `full` and `kept` (the server's copy
of the reading end) are what decides whether it ends when the client leaves. After
the service name was lost, `exported` stays set and nothing exports the object
again, so a server which is up then answers nobody.

### LogCalls

Pure operators: what each handler of a back-end passes to
`dbus_log_server_call_*`, what these check (the policy first, then the value), do
and return, and the D-Bus answer made of it. The libdbus handler of
SetCategoryLevel swaps two of its arguments, and so does `DbusPerform`.

### LogSession

All objects live in one process, which the server knows by one name: a LogOpen of
one object replaces the stream of the other. `objects` has the fields of
`DBusLogClientPriv` which say where a session is (`proxy`, `init`, `autostart`,
`receiver`, `log_cookie`), `calls` what libdbus or GIO has still to finish, also
when it was cancelled: a cancelled call finishes once more in the main loop
(`CancelledFinished`), and the answer which comes for it is dropped with its
descriptor (`LateAnswer`). An object is finalized when neither the application nor
a call refers to it; `sound` remembers its two assertions. An object whose only
start was cancelled has no cookie and sends no LogClose, which leaves the server
with a stream nobody reads until the process leaves the bus.

### LogTool

A command line is a sequence of options, from which `Parsed` makes the list of
actions as `app_init` does: an action has as many before it as there are options it
comes `After`, and keeps its place in the command line as its number. `Run` is
`app_next_action`: it takes actions until one has made a call, `CallDone` is the
callback. `client.enabled` is what the tool's client has heard of, which is what a
reset compares with the defaults; GetAll stands for the whole initialization, whose
steps are in `CategoryMirror`. Changes others make are announced before the answer
of the call that made them. A reset makes up to two calls, and only the last one has
a callback: a refusal of the first is not noticed. Setting the backlog of a version
1 server prints an error and goes on. `Quit` is the idle function of `app_quit`,
which may run any time after. A signal cancels the call in flight, or quits if there
is none; a second one of the same kind, whose source has been removed, would kill
the process and is not modelled.

## 3. Runs

| Run | Asks | Instance |
|---|---|---|
| `Sender` | the main loop alone: nothing lost or reordered, packets are whole, one watch, everything sent, and closing comes to its end | 4 messages, queue of 2, 1 or 1000, pipe of 2 units, disposal |
| `SenderThreads` | another thread logs: no lost wakeup, nothing after Bye, the newest message kept | one thread beside the main one, 4 messages, the server keeps its reading end |
| `SenderRace` | *violated*: the assertion at `dbuslog_sender.c:429` with another thread | |
| `Stream` | accounting, nothing taken while paused or closed, the promise of `LogDelivery`, delivery and shutdown of both ends in the end | 5 messages, pipe of 3, queue of 2 |
| `StreamBacklogOne` | *violated*: accounting with a queue of one message | |
| `Fanout` | every message reaches those who were there, indices have no gaps unless calls overlap, array, handlers and limits agree | 2 threads, 2 senders, 3 messages, indices modulo 2 |
| `Mirror` | the client's copy is in step, no signal comes which it does not expect, references are neither lost nor leaked, ids are not zero, every change is announced as it is in the end | 2 names, 1 level, ids modulo 3, calls nested 3 deep, one server |
| `MirrorRestart` | the copy with a server which dies or is stopped; the client connects in the end | 1 name, 2 servers, one call at a time |
| `Peers` | one stream for each client, watches match peers, rules match watches, who has left is noticed, forgotten, and has no stream in the end | 2 clients, 2 calls, 1 stop, 3 ids of which the last comes first, both back-ends |
| `Session` | one owner for each stream, no call outlives an object, what the server sends is read, automatic starts and farewells happen | 2 objects, 3 calls, 2 lives of the server |
| `Tool` | success is only reported if it is, order and refusals, resets, signals and timeouts, an end | 9 command lines, 2 categories, another client, 2 lives of the server, both back-ends |
| `CategoryLevel` | *violated*: SetCategoryLevel for who may call it | both back-ends |

Bounds. Packets of one to five units in a pipe of two or three cover a pipe which is
empty, holds a part of a packet, and is full at each place of a packet. A queue of
two overflows with the fourth message, while the first one is written; with five the
stream overflows and goes on. One thread beside the main one is enough for what the
mutex does not protect, since threads exclude each other. Two senders and three
messages are enough for one to close, or to be added, while another is being given a
message. Two names are enough to insert and remove in front of, between and behind
others and to remove one in the middle of a list; ids modulo 3 wrap around after two
categories. A handler of category-enabled runs two deep (the D-Bus call, and the
change), so that three are needed for it to call the API in turn. `MaxBus` bounds
what the application may add to the messages in transit, not what is emitted by
calls in progress or answered: with one, `Mirror` still has several on their way.
`MirrorRestart` makes one call at a time, since handlers which go on calling the API
keep the main loop from answering anybody. Both have a single level: categories get
it, but the default level, which is the same, does not change, and that its changes
are announced is shown by the theorem `ChangesAnnounced` only. Two clients with three ids make watch ids wrap around and skip zero; that
they skip one in use takes more calls than the run has, and is shown by the theorem
`WatchesOfPeers` only. Two calls are an open and its replacement or its end. Three
calls let an explicit start, an automatic one and a cancellation cross each other,
and two lives of the server let answers of the first meet the second. The command
lines of `Tool` have each kind of action, a name the server does not know, a value
which is not valid, a reset alone and after a change, and a list of no actions at
all.

Most runs say `CHECK_DEADLOCK FALSE`, for these systems really stop: after
closing or disposal, when the tool has ended, or when the bounded number of
messages or calls is used up.

Fairness. `MainFairness` says that the main loop runs its callbacks and that
these finish, as GLib does for sources of the same priority; `PeerFairness` that
the client reads or leaves. In `FairStream` the receiver's callback is strongly
fair: it is disabled while the application pauses the receiver, and pausing
again and again does not keep the main loop from polling the channel in between;
an application which has paused the receiver resumes it.
No fairness is assumed of logging threads.
`MirrorFairness`: both main loops run, the daemon delivers and gives out the name;
`Answer` is strongly fair because calls are handled in the order in which they
come, whatever other calls the server is busy with. Nothing makes the server die,
stop, or start: `EventuallyConnected` is about behaviours in which it is started
whenever it has its name. `FairSpec` of `LogPeers`: the daemon and the main loop of
the server go on and the main loop finds out that pipes are empty or have nobody
to read them; clients do what they like. `FairSpec` of `LogSession` and `LogTool`:
both main loops dispatch what is ready and a server which is up answers; the
application, other clients, signals and restarts are not made to happen.

What the violations show:

* `dbus_log_sender_send` tests `packet_size == packet_written` under the mutex,
  but `dbus_log_sender_write` updates `packet_written` without it. Between the
  last write and the locked section another thread finds the packet written and
  the message still there (`SenderRace`).
* With a queue of one message `drop_last(size/2)` drops nothing, and the new
  message is lost instead, which no later index tells if it was the last one
  (`StreamBacklogOne`).
* The libdbus handler of SetCategoryLevel gives the name of the category where
  the caller is expected, and the caller where the name is. Nobody has that name
  on the bus, so every call is answered with AccessDenied (`CategoryLevel`).

Other disagreements the models exhibit have no run; the properties say what they
exclude:

* The assertion at `dbuslog_sender.c:409` is false when a ping waits for room and
  another one is sent, for `dbus_log_sender_ping` does not look at the packet; what
  does hold is that packets on the wire are whole.
* A libdbus server keeps the reading end of each stream for itself: a full pipe
  whose client has left is never written to again and never fails
  (`StreamsOfTheGoneEnd` excludes it). One which is stopped throws away the news
  that a client has left (`VanishedAreForgotten` and `AbsenceIsNoticed` exclude it).
* The receiver takes the distance of indices in the wrong direction when messages are
  missing where they wrap around (`dbuslog_receiver.c:229`), and reports 2^32 minus the
  number of skipped messages (`NoWrap` excludes it).
* A reset which enables some categories and disables others looks only at the answer
  to the second of its calls (`main.c:343`): a tool which may disable but not enable
  says that it has succeeded, with categories left disabled. `SuccessIsReal` speaks of
  the call which is reported, and `ResetIsComplete` assumes that all were allowed.
* One signal while a call is in flight cancels the call, whose end is not reported
  any more: the tool says that it shuts down (`main.c:511`), and stays. `QuitsWhenTold`
  asks for more signals than there are calls, `Finishes` for none.
* CategoryFlagsChanged may follow CategoryRemoved, since handlers of the application
  run before the announcement: the assertion at `dbuslog_client.c:368` is false then.
  `SignalsAreExpected` leaves it out; the copy stays in step.
* A client which is told of a new category reads its old array up to the length of the
  new one (`dbuslog_client.c:342`): behind its end, or memory that was never there if
  it had no category. `EventuallyConnected` leaves a client alone which has crashed.
* Stopping the server does not disconnect its clients, and starting it tells them
  nothing of what has changed: later signals are about categories a client does not
  know (`dbuslog_client.c:307`), or already has. `InStep` does not speak of clients
  which were connected when the server was stopped, and `SignalsAreExpected` is
  about servers which are not.
* Two client objects of one process end each other's streams, and so does an
  explicit start which crosses an automatic one: the answer which comes for a
  cancelled call has replaced a stream that was being read (`EventuallyStarted`,
  `CurrentIsRead`).
* The client offers a handler for changes of the backlog (`dbuslog_client.c:1035`)
  whose signal nobody emits, and does not update its default level and backlog.

## 4. Proofs

`LogSenderProofs` proves for every value of the constants allowed by
`SenderConstants` and `ProtocolConstants`, any number of threads, lengths,
limits and sizes of the pipe:

| Theorem | States |
|---|---|
| `Invariance` | `Spec => []IInv` |
| `TypeCorrect` | `Spec => []TypeOK` |
| `WakeupKept` | `Spec => []NoLostWakeup` |
| `ByeLast` | `Spec => []ByeIsLast` |
| `SendFindsNoCurrentAlone` | `Threads = {} => (Spec => []SendFindsNoCurrent)` |
| `NothingLostAlone` | `Threads = {} => (Spec => []NothingLost)` |
| `OneWatchAlone` | `Threads = {} => (Spec => []OneWatch)` |
| `WholePacketsAlone` | `Threads = {} /\ HeaderSize <= PipeBuf => (Spec => []WholePackets)` |
| `NewestIsKept` | `Roomy => (Spec => []NewestKept)`, where `Roomy` is `Backlogs = {} /\ ~Disposes /\ NormalizeBacklog(Backlog) # 1` |

None of the invariants is inductive as it stands. `IInv` adds to them

* `Bounds`: how `written`, the sizes of the packet and `main.pc` go together;
* `Watched`: a watch the code knows of is attached, and a frame waits only while
  the main thread writes;
* `Finality`: after shutdown nothing is left to write, and Bye is only owed by a
  sender which is done;
* `ByeState`: where Bye is (owed, in the packet, on the wire) and what may be
  left in the sender then;
* `CurrentGone`: without other threads, a written packet outside of `write` has
  let its message go.

There is one lemma per action, which shows each conjunct the action may disturb;
lemmas about `Return`, `Hand`, `Shutdown`, `WriteNext`, `ScheduleWrite` and
`Accept`, the parts the actions share, come first. TLC finds no state of the
sender runs which violates `IInv`.

Three results are about a sender only the main thread uses, as in a program which
logs from one thread; with others they are false, and the code is not made for it
(`SenderRace`). `AloneInv` adds to `IInv` who called `write` (`OneWriter`: the
callback of the only watch, or `schedule_write` with no watch at all, which is why
nested calls add one watch and not two), what is known between its parts (`Steps`),
and an account of messages (`Messages`): every accepted index is on the wire, given
up, queued, or that of the current message, in this order. Packets are whole because
a write which is not split takes all of a ping or nothing of it (`PingsWhole`): that
is what `HeaderSize <= PipeBuf` says. `NewestIsKept` holds with any number of
threads, for it is about the critical section of `send` and what `main` takes out:
the limit of a queue that is never one always leaves room for the newest message
(`Limited`). What the ring does when its limit is changed is not known (section 2).

`LogDeliveryProofs` proves `DeliveryAccounts`, `DeliverySpec => []Accounted`, for
streams of any length. `Accounted` says something only of a stream which has
ended; what makes it true is an invariant of open ones: the newest message is the
last one on its way, or the last which has arrived (`NewestIsLast`), and what has
arrived and what was missed add up to the index of the last arrival
(`KnownUpToLast`).

`LogStreamProofs` proves, for any sizes of packets, pipe and queue, any bound on
the messages and on nested pauses and any reactions of the handlers:

| Theorem | States |
|---|---|
| `StreamImplements` | `Suited /\ NoWrap => (StreamSpec => ImplementsDelivery)` |
| `StreamAccounts` | `Suited /\ NoWrap => (StreamSpec => []Accounting)` |
| `PausedTakesNothing` | `StreamSpec => NothingTakenWhilePaused` |

`Suited` is `Threads = {} /\ Roomy /\ HeaderSize <= PipeBuf`: the program logs on
its main thread, the queue is not limited to one message (it gives up its only one
then, `StreamBacklogOne`) and its limit is not changed, and a header is written in
one piece, as five bytes are by POSIX. `NoWrap` is `StartIndex + MaxMessages <=
Modulus`: a stream has fewer messages than its indices have values, 2^32 in the code,
which counts wrongly where they wrap around (section 3). The configuration `Stream`
satisfies both.

The receiver's units in `partial` and those in the pipe are one row (`Row`).
`Framed` says that each unit of it is in a packet which begins in the row and goes
on to its own end or that of the row; `Growing` that the row ends with what has been
written of the current packet, with whole packets before; `Ordered` that messages
are in order and nothing follows Bye; `Matched` that the messages whose end is in
the row are exactly those on the wire which were not delivered. So what the receiver
takes first is the oldest message which is left (`OldestFirst`), and nothing is left
when Bye comes first (`ByeFirst`), wherever the writes and reads were cut. The
sender's part of the argument is `AloneInv`, and all of its steps are one of five to
the client: nothing, picking a message, turning to another packet, writing units,
accepting a message (`SenderSteps`). The refinement needs one lemma for each of them
(`PicksQueue`, `PutsQueue`, `AcceptQueue`, ...): only accepting a message changes what
is in flight, and `SomeSpared` says that it leaves the oldest one there. The numbers
of skipped messages are those of the promise by `SkippedIs`. `StreamAccounts` is
`DeliveryAccounts` under the refinement mapping. TLC found no state of the run
`Stream` which violates the invariant, `StreamInv`.

`CategoryProofs` proves under `CategoryConstants`, for any names, number of ids,
depth of calls and number of server processes:

| Theorem | States |
|---|---|
| `CategoryInvariance` | `Spec => []CInv` |
| `CategoriesTyped` | `Spec => []TypeOK` |
| `IdsNotZero` | `Spec => []IdsAreNotZero` |
| `ChangesAnnounced` | `Spec => []AnnouncedOrPending` |
| `DefaultKept` | `Spec => DefaultIsKept` |
| `MirrorInvariance` | `MirrorSpec => []MInv` |
| `CopyInStep` | `MirrorSpec => []InStep` |
| `SignalsExpected` | `~Stops => (MirrorSpec => []SignalsAreExpected)` |

`CInv` has three parts. `Shape` says that a category is there exactly if it is in
the table or an unfinished call refers to it: without it a handler which returns
could speak of a category which is gone, or of another one with the same id.
`NamesIdentify` speaks of the table, and `Published` of what has been announced: what
somebody knows differs from the table only where an announcement is still to
come. Handlers nest without limit, and the order of unfinished calls does not
matter to these properties, so the proof replaces the stack by the set of its
frames (`Pushed`, `Popped`) before it looks at any action. `AnnouncedOrPending` has
to survive both ends of a handler: it starts with an announcement to come, and
ends with one made of the values of that moment, whatever nested calls have
changed in between. The guard of `AddCategory`, that an id in use is not given
out again, is what the proof needs to tell categories apart by id.

The last three are about the client's copy. `InStep` is not inductive: before the
client has a copy, it is in an answer on the bus, and before that the question is on
its way. `MInv` adds to `CInv`

* `Followed`: the messages behind the copy, be it the client's or the one in the
  answer the client waits for, turn it into what has been announced (`Agreed`), as
  long as there is no news of the end of the server, and each of them which adds or
  removes a category finds it missing or there (`Alternating`);
* `Owned`: who deals with a server will be told if it has lost its name, so what a
  server which was started again says never meets the copy of its predecessor;
* `Asking`: the call of the current attempt to connect is the one its phase waits
  for and the last one, and the answer to it is there only when the call has gone,
  so no answer of a cancelled attempt is taken for the current one;
* `Typed`: the public array is the hash table's ids, each once and in order, which
  removing from one and the other separately has to keep (`WithoutSorted`);
* `NamesKnown`, and `Expected`, which is where `~Stops` comes in.

A step of the server appends messages which report exactly what it changed
(`ServerTells`), whatever handlers have done in between; `AgreedGrows` and
`AlternatingGrows` say that this keeps `Followed`. A step of the client takes the
first message and does what it says (`Applied`), which `AgreedTail` and
`AlternatingTail` say leaves the rest right. TLC found no state of the runs `Mirror`
and `MirrorRestart` which violates the parts of `MInv`. A server which is stopped
while clients are connected (`missed`) is outside of `InStep`, as section 3 says.

`LogPeersProofs` proves under `PeerConstants`, for any finite set of clients, number
of calls, number of ids (more than there are clients) and first id:

| Theorem | States |
|---|---|
| `PeersInvariance` | `Spec => []PInv` |
| `StreamsOfPeers` | `Spec => []OneStreamPerPeer` |
| `WatchesOfPeers` | `Spec => []WatchesMatch` |
| `VanishedGo` | `Spec => []VanishedIsForgotten` |
| `MatchRules` | `Spec => []RulesInStep` |
| `AbsenceNoticed` | `Spec => []AbsenceIsNoticed` |

`PInv` is `PeersTypeOK` with these three, which need each other: a peer which is
replaced has its new watch before its old one goes, and only because ids, names
and peers agree before does the right watch remain. That the next id exists is a
pigeonhole argument: fewer ids are in use than there are clients (`WatchesMatch`
makes them injective), and a set of free ids has a minimum.

The other two are about the two queues between a libdbus server and the daemon.
`RulesInStep` counts requests of a kind; what it needs is how a count changes when
a request is appended or taken (`Count`). `AbsenceIsNoticed` is not inductive: the
daemon forgets a rule, or somebody leaves before the rule is there, and what tells
the server then is the question which follows. So `Queues` adds that every change
of a rule which waits is followed by the question whose answer the watch waits for
(`AllFollowed`), that no two questions have the same serial number (`Numbered`), and
that only the daemon says that somebody has gone (`Tidings`).

`LogFanoutProofs` proves under `FanoutConstants`, for any number of threads,
senders and messages and any modulus:

| Theorem | States |
|---|---|
| `FanoutInvariance` | `Spec => []FInv` |
| `SendersOfCore` | `Spec => []SendersMatch` |
| `EveryoneGets` | `Spec => []Broadcast` |
| `IndicesOfSenders` | `Spec => []Consecutive` |

`FInv` adds to the types and `SendersMatch`: a sender which has not been created is
known to nobody (`Unborn`), and every thread in the middle of its loop has given its
message to the senders of its snapshot before `next`, unless they are closed, and to
no other (`Loops`). Threads speak of different messages (`Distinct`), so that what
one gives does not change what another one has left to do. For the indices, `OInv`
says where the next one is: in the core, in the frame of the one thread which is
logging, or in both, depending on how far it has come and on whose turn it was
(`IndexFor`); senders which were added since have been given nothing.

`LogSessionProofs` proves under `SessionConstants`, for any finite set of objects
and number of calls and lives of the server:

| Theorem | States |
|---|---|
| `SessionInvariance` | `Spec => []SInv` |
| `FinalizesInOrder` | `Spec => []FinalizedInOrder` |
| `StreamsHaveOneOwner` | `Spec => []OneOwner` |
| `CurrentStreamIsRead` | `Spec => []CurrentIsRead` |

The two calls an object notes, `init` and `autostart`, have to be in flight, its own
and not cancelled (`Noted`): only then does the reference every call has to its
object keep it from being finalized with one of them set. A call leaves this set
by its answer, and an answer changes what its object notes only if it is for that
object and of the right kind; so the invariant follows requests and answers
through their queues (`Addressed`): they speak of the object of their call, and no
stream is opened by an initialization. That numbers of calls are not used again
keeps old messages true (`StillAddressed`). `Owners` says that a stream is in one
answer or at one receiver; that an answer which is read leaves the queue in the
same step keeps it so. All handlers end in `Become`, for which two lemmas
(`ObjectChanges`, `BecomeKeeps`) show what has to hold of the object and its calls.

For `CurrentIsRead` the order of the queues matters. An object hears that a server
has gone after everything that server has said, and of the next one after that
(`InTurn`); so an answer of the server which runs now finds its object connected to
it (`Connection`), and streams are read in the order they were opened in
(`InOrder`): the answer which is read last is that of the server's own peer
(`Peering`).

`LogToolProofs` proves under `ToolConstants`, for any command lines, categories,
servers, policies, calls of the other client, and numbers of signals and restarts:

| Theorem | States |
|---|---|
| `ToolTyped` | `Spec => []TInv` |
| `RefusalEnds` | `Spec => []NothingAfterRefusal` |
| `SuccessIsTrue` | `Spec => []SuccessIsReal` |
| `ResetsRestore` | `Spec => []ResetIsComplete` |

The handlers and the two back-ends are functions; lemmas say what they return
(`PerformIs`, `HandleIs`, `CallsOfIs`, `AdvanceIs`, `ParsedIs`) and how each action
changes the queues (`Extends`, `Took`, `Adds`, `Serves`), so that the rest does not
look into them. For `RefusalEnds`, `RInv` says that the server hears of one action
at a time (`OneByOne`: a call which can still be heard excludes a refusal by the
same server, and an answer that goes on excludes both), that a server which has been
started again was not asked for anything (`Connecting`, `Known`), and that what is
left to do comes after what was asked (`Numbers`), without which an old answer could
be taken for that of the next call. For `SuccessIsTrue`, `SInv` adds that each action
is done, in flight or left to do as long as nothing has failed (`Progress`), that
calls are made and answered in order (`InSeq`), and that all of them went to one
server (`OneLife`): the tool goes on only with an answer which came before any news
that the server has gone, and starts only when it has made no call. That this is the
server which runs now is `Settling`. `Heeded` says that every call the server has
answered belongs to an action which is done or whose reported call is in flight, also
the first call of a reset; whether that first call was allowed nobody looks at.

For `ResetsRestore`, `CInv` adds `Tracks`, which says of one category after the other
(`Tracked`) what its flag has to do with what three queues still hold. The server is
asked for its categories once, by a client which is not its client yet (`Kinds`,
`Greets`). As long as others leave the category alone, a server the client has not
turned to has its default (`Unmet`), an answer on its way to the client shows the flag
as it is, and no announcement follows it (`Shown`), and a connected client has the flag
as it is, or the last announcement on its way says so (`Aware`). The end of a call
comes after the announcement of what it changed (`Own`). So the tool never makes the
calls of an action before its client knows of the changes of the actions before it
(`Synced`), and once the last reset has made its calls the category is what it was at
first, or one of these calls is on its way and makes it so, and none makes it otherwise
(`Restored`, `Resetting`). A tool which has come to its end well waits for nothing that
is still going to be heard (`Quiet`). The proof has one lemma for each action of the
tool (`AppearedTracks`, ..., `QuitTracks`), one for what others do (`ElsewhereTracks`),
one for restarts (`RestartTracks`), and for `Serve` one for each of these parts.

TLC finds no state of the run `Tool` which violates these parts of `SInv` and `CInv`.

The attempts to prove three properties changed the model. `ResetIsComplete` was wrong for a
lone reset which has nothing to do, when the server starts again before the tool has
ended and others had changed categories before: `touched` now forgets what others have
changed only while a reset is still to come. `Telling` of `LogPeers` had
been written so that it held of any message about a client; it now asks for the serial
number the watch waits for. `NothingLost`, `Parsed` and `InStep` were restated without
folds and filters, whose value for every input cannot be proved here; `InStep` now
says for each category which of the messages on their way is the last to tell of it.

Left to TLC: liveness (under fairness, out of reach of the prover). Every other
property of a passing run is stated by one of these theorems.

## 5. Not modelled

* Timestamps, levels, category ids and texts of messages are carried unchanged.
  Which messages are logged at all (`should_log`) changes no state.
* A pointer to freed memory has no next state: races which end in one
  (`dbuslog_core.c:487`, `dbuslog_core.c:515`) are named as hazards.
* In `WriteData`, a packet replaced after its fixed part was written makes the
  code read outside of the message; the model sends `Garbage` or fails.
* Ids which come round to one which is still in use: 2^32 categories are needed,
  and `AddCategory` has a guard which the code has not.
* Failures of `pipe` and of memory, and of creating a D-Bus proxy.
* Packing and unpacking of D-Bus arguments; a call to a path which is not the
  server's (the libdbus filter does not look at it).
* What the tool prints, how it matches patterns (a pattern is the set of names it
  matches), and a second signal of the same kind.
* The category a handler of the client gets with a message: the log and the
  announcement of its category come through different channels, in any order
  (`dbuslog_client.c:385`), and a category which is not known yet is none.
* Utilities (tables of level names), the D-Bus interface description, tests, build
  files and packaging: no behaviour of their own.

## 6. What could follow

* `CategoryMirror` with `LogSession`: which categories a client knows while its
  stream is replaced.
