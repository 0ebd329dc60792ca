# minipro: a verification project

minipro drives a Segway miniPRO over Bluetooth LE from a joystick.  Its C++
layer (`src/src`, `src/include`) sits on a copy of the BlueZ user-space ATT and
GATT client (`src/lib/bluez`).  These modules model the parts in which the
order of events decides whether the program is right: the bluez layers from the
linked list up to the GATT client, the C++ object that runs them on a thread of
its own, and the program that drives the vehicle with it.
Paths below are relative to `src/`.

## 1. The system

| Component | Source | State it keeps | Operations |
|---|---|---|---|
| Queue | `lib/bluez/queue.c` | linked list, entry reference counts | push, pop, remove, iterate with callbacks |
| Main loop, io | `lib/bluez/mainloop.c`, `io-mainloop.c` | epoll set, one `mainloop_data` per fd, callbacks of each `io` | `mainloop_run` dispatches events; `io_set_*_handler`; timeouts |
| Timers | `lib/bluez/timeout-glib.c` | glib sources | `timeout_add`, `timeout_remove` |
| ATT bearer | `lib/bluez/att.c` | write, request and indication queues; one pending request and indication; `writer_active`; `in_req`; security level; lists of handlers; reference count | `bt_att_send`, `bt_att_cancel(_all)`, `bt_att_set_security`, `register/unregister`, `unref`; handlers `can_write_data`, `can_read_data`, `timeout_cb`, `disconnect_cb` |
| GATT helpers | `lib/bluez/gatt-helpers.c` | one `bt_gatt_request` per discovery procedure | MTU exchange and the discovery procedures: repeated requests with a moving start handle |
| GATT database | `lib/bluez/gatt-db.c` | ordered services with attributes, pending reads and writes, `next_handle`, watchers | insert, add, remove, clear ranges, query, read, write, iterate |
| UUIDs | `lib/bluez/uuid.c` | none | compare, convert to wire and print |
| GATT client | `lib/bluez/gatt-client.c` | pending requests with reference counts; `long_write_queue`, `in_long_write`, `reliable_write_session_id`; `notify_list`, characteristics with `notify_count` and `ccc_write_id`; `ready`, `in_init`, `in_svc_chngd`, `svc_chngd_queue` | reads, writes, long and reliable writes, notification registration, discovery, Service Changed |
| LE client | `src/bluetooth/le_client.cpp`, `l2_cap_socket.cpp` | socket, `bt_att`, `bt_gatt_client`, input thread, promises, `ready_` | constructor, destructor, blocking and non-blocking wrappers of the GATT client, printing of services |
| Shell | `lib/bluez/btgattclient.c` | the reliable session it has opened | one command per GATT operation |
| miniPRO, packets | `src/minipro/*.cpp` | none | `enable_notifications`, `enter/exit_remote_control_mode`, `drive` |
| Joystick | `src/util/*.cpp` | axis and button maps, input thread | `update`, accessors |
| Teleop | `test/minipro/t_minipro.cpp` | `should_exit` | enter remote control, drive until told to stop, exit |

How they interact.  Everything in `lib/bluez` is written for one thread: the
main loop calls the read and write handlers of the socket, they call
callbacks of the upper layers, which call back into the same code.  LEClient
runs `mainloop_run` on an *input thread* of its own and calls the GATT client
directly, without a lock, from the thread that uses it; where it needs an answer
it blocks on a promise that a callback keeps.  So the library's
state is shared by two threads.  The joystick has a third one.

What is hard here, and is listed line by line under "hazards" in
`PROJECT.json`: callbacks that re-enter the code that called them; operations
cancelled while they are on the wire; answers that arrive after a cancel, a
retry or a disconnect; the write handler that is only installed while there is
something to write; hand-written reference counts; events of one `epoll_wait`
that concern what an earlier one of them removed; handle arithmetic at the end
of its range; flags that say a procedure
is in progress, set in one function and cleared in another; and the second
thread, for which none of it was written.

What makes each component correct:

* *Queue*: it is the sequence its users take it for; what stays in it while
  it is walked is visited once, whatever the visitor does to it.
* *Main loop*: the kernel's registrations, the loop's table and the ios agree;
  no callback on freed data; quitting ends it.
* *Bearer*: every accepted operation is answered or given back exactly once,
  in submission order, whatever the peer does; an answer reaches the request it
  was meant for; nothing is left unsent while the bearer is up; a PDU reaches
  each handler that stays once; the bearer lives while somebody uses it.
* *Threads*: two threads submitting and sending neither lose, repeat nor
  reorder operations.
* *Helpers*: a procedure that reports success has found all there is, and ends.
* *Database*: services lie apart and in order, a query returns what a look at
  every attribute would, each request is answered once, watchers know what is
  active.
* *Plain requests*: one callback, one destroy, of the request that was meant;
  a long read returns the value.
* *Long writes*: parts of two prepared writes never mix in the server's
  prepare queue; an EXECUTE WRITE commits what its caller wrote; requests live
  as long as a PDU that points to them; a caller that blocks is let go.
* *Notifications*: a caller told "success" is notified until it unregisters;
  the assertions in the code hold; every registration is answered.
* *Initialisation*: the ready handler is called once; the database ends up as
  the server's; one discovery at a time.
* *LE client and teleop*: construction, destruction and blocking calls end
  without using freed objects; however the program ends, the vehicle stands
  and is in its normal mode; while it runs the vehicle follows the stick.

## 2. Modules

| Module | Models | Source |
|---|---|---|
| `SequenceQueue` | abstract specification: what a queue promises | (none: the promise) |
| `ListQueue` | the linked list, iteration with callbacks that call it again | `queue.c` |
| `MainLoop` | epoll registrations, batches of events, ios and timeouts | `mainloop.c`, `io-mainloop.c` |
| `MainLoopProofs` | theorems on `MainLoop` | |
| `AttService` | abstract specification: what a bearer promises | (none: the promise) |
| `AttTransport` | operations of the bearer, one thread, reentrant callbacks, the peer | `att.c` |
| `AttTransportProofs` | theorems on `AttTransport`, and that it implements `AttService` | |
| `QueueLemmas` | lemmas on `Append`, `Tail`, `RemoveAt` and `RemoveFirst` | |
| `AttRegistry` | the bearer's handlers, closures and references, dispatch of unsolicited PDUs | `att.c` |
| `AttThreads` | `bt_att_send` on one thread, `io_callback`/`can_write_data` on another, statement by statement | `att.c`, `queue.c`, `io-mainloop.c`, `t_minipro.cpp`, `minipro.cpp` |
| `AttThreadsProofs` | theorems on `AttThreads` | |
| `GattHelpers` | discovery procedures request by request, MTU exchange | `gatt-helpers.c` |
| `Uuid` | comparison and conversions | `uuid.c`, conversions in `gatt-db.c`, `gatt-helpers.c` |
| `GattDb` | services, attributes, queries, watchers | `gatt-db.c` |
| `GattDbAccess` | extends it: reads and writes, pending or stored | `gatt-db.c` |
| `GattDbView` | extends it: iterators and lookups, what programs print of them | `gatt-db.c`, `le_client.cpp`, `btgattclient.c` |
| `GattRequests` | requests of one PDU, long reads, cancellation, dispatch of notifications, end of the client | `gatt-client.c` |
| `GattLongWrite` | long writes and reliable sessions | `gatt-client.c` 1904-1999, 2476-3023 |
| `GattCallers` | extends it: LEClient's blocking calls, the shell's commands | `le_client.cpp`, `btgattclient.c` |
| `GattLongWriteProofs` | theorems on `GattLongWrite` and `GattCallers` | |
| `GattNotify` | notification registrations of one characteristic | `gatt-client.c` 1149-1329, 1586-1630, 3025-3060 |
| `GattNotifyProofs` | theorems on `GattNotify` | |
| `GattDiscovery` | initialisation, discovery and Service Changed | `gatt-client.c` 468-1551, 1723-1738; `gatt-db.c` |
| `GattDiscoveryProofs` | theorems on `GattDiscovery` | |
| `LEClient` | the life of the object on two threads | `le_client.cpp`, `l2_cap_socket.cpp` |
| `MiniProPacket` | the packets byte by byte, and how the vehicle reads them | `include/minipro`, `src/minipro` |
| `Teleop` | extends the two: main, the joystick's thread, the vehicle | `t_minipro.cpp`, `minipro.cpp`, `joystick.cpp`, `loop_rate.cpp` |
| `TeleopProofs` | theorems on `Teleop`, lemmas on the packets | |
| `MC...` | TLC instances of the above | |

The bearer is one abstraction level below everything above it: `GattHelpers`,
`GattRequests`, `GattLongWrite`, `GattNotify` and `GattDiscovery` use it as
`AttService` describes it (requests answered one at a time and in order), and
`AttTransport` is shown to implement `AttService`.  Likewise the others use
queues as `SequenceQueue` describes them, and `ListQueue` is shown to implement
`SequenceQueue`; `GattDiscovery` takes a procedure of `GattHelpers` as one
request.

`MCFoundations` and `MCGattClient` are composites.  The first joins `ListQueue`,
`AttRegistry` and `GattHelpers`, the second `GattCallers` (with
`GattLongWrite`), `GattNotify` and `GattRequests`.  Their parts share no state
but the bearer, which answers each in order, so nothing is lost by looking at
one at a time: each behaviour is one of one part, and the variables of the
others are None.  They ask one question of several components in one run.

Most modules have a variable `usage` (`world` where it is about the
environment).  It says what callers or peers do in this behaviour, is chosen
initially and does not change: one run answers for all kinds of use, and a
property that needs a discipline of the caller names it.  Memory that was freed
is not allocated again in any module, so that its use shows; using it, a failed
assertion or undefined behaviour stops the model with `fault`.

### ListQueue, SequenceQueue

`next`, `data` and `refs` are the fields of the entries, `stack` the calls of
`queue_foreach` and `queue_remove_all` in progress, innermost last.  Between a
call of the user's function and its return the whole API is available, up to
`MaxDepth` such calls.  The refinement maps `contents` to the data along the
chain from `head`.  `usage` names what breaks it: a function that removes its
own entry and then others, that clears and refills the queue, or that destroys
it from within `queue_remove_all`.

### MainLoop

A source is a `struct io` or a timeout; `mainloop_list` and `epoll` are the two
tables that name it, `batch` the events of one `epoll_wait` not worked off
yet.  Each event runs a handler, which may install, remove, destroy, set a
timeout or quit before it returns; `Quit` may also come from another thread, as
LEClient's destructor calls it.  The kernel hands out the lowest free
descriptor, so a descriptor closed by one handler may belong to someone else in
the same batch.

### AttTransport

State corresponds to `struct bt_att`: the three queues are sequences of
operations, `pending_req`/`pending_ind` are the slots, `io` says whether the
socket is up, shut down with the hang-up not handled yet, gone (`att->io` is
NULL) or freed.  Memory is modelled by `live` (allocated), `armed` (its
`callback` and `destroy` pointers not set to NULL) and the counters `called`
and `released`.

A handler that calls the upper layer is split in two steps: `busy` names the
handler and the operation whose callback runs, and until the callback returns
every API call is possible.  So cancelling the very operation whose callback
is running, cancelling everything, or sending from a callback are all explored.
Handlers that call nothing are one action.

The peer is `air` (requests and indications it has yet to answer), and `inbox`
(PDUs on their way to us).  It answers anything in `air` in any order, sends
requests and notifications, and if `PeerConforms` is FALSE sends any PDU at any
time.  Opcodes are abstracted to their type: the field `to` of an answer is the
operation the peer meant, which the code never looks at, and
`ConformingPeerUnderstood` compares.

Left out: failing allocations and failure paths of `setsockopt` other than "the
level was not raised".  `Unref` is the last reference, dropped outside
handlers; handlers and references are the subject of `AttRegistry`.  A
cancelled request can be sent again by a security retry; the model has that
too.

### AttRegistry

The other half of `struct bt_att`: `notify_list`, `disconn_list`, the closures
for debugging and timeouts, the reference count.  `owners` are the references of
the layers above, `holding` the requests whose destroy function drops another
one, as `bt_gatt_request` does.  A dispatch is a frame that calls one handler
at a time, and each may register, unregister (itself or others), reply, drop
references and disconnect before it returns.  An operation itself is only
something that ends; a request of the peer is answered once (`in_req`), with an
error response if no handler takes it.  `usage`: "others" is unregistering
somebody else from within a dispatch, "orphans" the last owner leaving while
requests hold references, "mtu" a change of the MTU inside a handler, which
reallocates the buffer the PDU lies in.

### AttThreads

The caller's `Script` is a sequence of operations to submit, and the
other process is the main loop.  Each step reads or writes one shared variable
the way the C statement does: `queue_push_tail` is allocate, test `tail`, link,
set `tail`, count; `queue_pop_head` is test `head`, advance, clear `tail`, count
down; `wakeup_writer` reads `writer_active`, then the queues, then
installs the handler and sets the flag.  `caller` says whether the calls come
from a callback of the loop (so the two never overlap) or from a thread of
their own.  With two threads these are data races; each interleaving of the
statements is one of the outcomes a build can produce, and the only ones
considered.  A freed queue entry is not reused for another one, so that what
TLC reports needs no coincidence of the allocator.

### GattHelpers

One procedure per behaviour, over all ranges, each kind of procedure and four
databases of the server.  An answer carries up to `MaxPerPdu` entries; the next
request starts behind the last handle of the answer, in the width of
`MaxHandle`, so that the wrap behind the last handle happens.  Included
services with long UUIDs are fetched by one READ each, and the iterators pair
them up again by their distance in the list of results (`Paired`).  `usage`
says what the server does ("wild" answers any handles, "errors" any error),
whether the bearer refuses, and where the user cancels.  Discovery in
`GattDiscovery` sees one procedure as one step; `FoundAll` is what justifies
that for a server that does not change.

### GattDb, GattDbAccess, GattDbView, Uuid

`services` is the ordered list; a service has a key (declaration and UUID), a
start, a number of handles and a sequence of attributes; a watcher is a pair of
functions that are called by `notify_service_changed`, one watcher at a time.
A notification is one of the `frames`, the innermost last: while a watcher runs
it may call the API, so that the watchers are told of something else before it
returns, up to `MaxDepth` notifications within each other.  `usage` says how far
callers go: "inside" is a watcher that adds, removes and (de)activates other
services than those in a notification; "activeInside" one that (de)activates
the service it is told of, "removeInside" one that removes it, "leaveInside" one
that unregisters another watcher or itself below a notification further out,
"unrefInside" one that gives up the database, and "half" is a watcher with only
one of the two functions.  `Most` bounds services and watchers for each usage.
`GattDbAccess` adds what owners of an
attribute are asked: a request is pending under an id until its result comes,
its timer runs out, or the attribute goes.  `GattDbView` adds no state:
iterators, lookups, and what LEClient and the shell print with them, as
functions of the database; `ViewsExact` compares each with a look at every
attribute, in each state the other two modules reach.  `Uuid` has the forms of
a UUID with one bit per part, so that all pairs are compared.  Bytes of a
stored value are told apart only as set to zero, written, or never set.

### GattRequests

Reads, writes, read multiple and long reads, writes without response; `pending`
is `pending_requests`, `line` what the bearer has, in order.  A callback is a
frame: until it returns requests are made, cancelled (its own too), the client
given up.  A value is a length and a version, and a long read remembers of each
byte its position and version, so that a repeated or missing chunk shows.
Handlers of notifications hear one that is dispatched to them one at a time.

### GattLongWrite

Operations are long writes, and sessions of reliable writes.  `line` is the
sequence of PDUs handed to the bearer; the server's prepare queue and the data
it has committed are state too, so that "interleaved" is observed at the
server and not at the client's flags.  `usage` says what a program that uses
the library does: long writes, sessions, cancellation, and executing a session
before its last PREPARE WRITE is answered (as `LEClient::write_prepare`, which
does not wait, allows).

### GattCallers

The two programs on top of `GattLongWrite`.  LEClient's caller blocks after a
long write or the execution of a session until `write_long_cb` or `write_cb`
sets its promise (`caller` names the write it waits for); the shell runs in the
loop and waits for nothing.  Both remember the id of the session they opened.
`usage` "strays" are callers that pass another id than the one they were
given.  `Hopeless` lists the situations in which LEClient's caller waits
for ever; TLC shows there is no other, and each is reached.

### GattNotify

One characteristic with a CCC whose properties allow notifications.  A
registration is a `struct notify_data`; its callback, its references and the
CCC write on the line are modelled, and the server's CCC.  `usage`: "early"
callers unregister before they heard of success, "overlap" callers register
while the CCC is being switched off, "reentrant" callbacks call the API,
"changes" lets `process_service_changed` tear the characteristic down.
An assertion that fails and a use of freed memory stop the model with `fault`.

### GattDiscovery

A slot is a range of handles with room for one service, and what a service
consists of is a version number.  `db` remembers for each slot the versions
that the service in `client->db` was put together from: a service with one
version, the server's, is right; one with two was read while the server
changed.  Each slot says what kind of service lives there: the GATT service,
secondary, of a single handle, with descriptors, including others.

A discovery procedure (several requests with a moving start handle in
`gatt-helpers.c`) is one request that is answered and handled in one step.  The
server can only be observed through answers and indications, and ATT delivers
these in order, so a change between two steps stands for a change at any moment
of a single request; a procedure in which later requests see a newer server
than earlier ones is the part this leaves out.  Likewise the indication is
*sent* late (`owed`) instead of delivered late.

`world` says what the server does: it refuses requests ("errors"), changes
before the client has asked to hear of changes ("early"), changes the GATT
service itself ("gatt"), changes while the client works on an earlier change
("overlap"), or changes only secondary services ("secondary").  The database is
shown to match the server's when the server does none of these; with any one of
them alone TLC finds it wrong (section 6 says how).

Left out: the characteristic of Service Changed without the property to
indicate or without a CCC, for which `register_notify` fails at once; the
database's own handle arithmetic; the notification registrations of others
that `process_service_changed` drops (`GattNotify` has them).

### LEClient, MiniProPacket, Teleop

`LEClient` is the object with its two threads: `stage` is where constructor or
destructor is, `input` where the input thread is between `epoll_wait` and the
return of a callback, `event` what `epoll_wait` told it.  The bearer and the
client below appear as a discovery, a queue of writes without response, one
request, the link, and `writer`, the write handler in the main loop.  The user's
thread hands its operations over (`HandOver`) under no lock, and may do so while
the input thread is in that handler: then the two have `met`, and from then on
an operation, or the wake-up that would have it sent, may be lost, and the
handler may find the queue empty behind a count that is not ("null").  This is
the sum of what the statements in `AttThreads` do to list, flag and handler; that
a damaged list may also lead to an operation that was sent and freed is the part
left out.  Only in the world "meet" do the two meet; in the others the hand-over
falls outside the handler.  `Teleop` adds the statements of
`main`, the signal handler, the joystick's thread and device, and the vehicle,
which obeys the packets of `MiniProPacket` as it gets them, byte for byte with
checksum and sign.  `world` says what the environment does: no connection, a
failing allocation, slow discovery, a lost link, a silent peer, notifications,
two threads that meet, a destructor that overtakes a callback ("preempts"), no
joystick, one that is pulled out or held when the program starts, or a right
stick that moves too ("steers"; otherwise only the left one does).

## 3. Runs

All runs set `CHECK_DEADLOCK FALSE`: the models end when every operation was
used and everything is answered, and the program waits there; a model with a
`fault` stops.

| Run | Instance | Shows |
|---|---|---|
| `att_conforming` | 2 requests (symmetric), indication, command, response; peer keeps to the protocol | types, no lost wakeup, handlers once, conservation, right answer to right request, no callback after destroy, refinement of `AttService` |
| `att_hostile` | 1 request, 1 response; peer sends anything; timers run; fair | the inductive invariant as a whole, every operation ends |
| `att_no_timers` | one request, silent peer, timers that nothing runs | **violated**: a request stays pending for ever |
| `threads_any` | the session without its control loop, caller in a callback or on a thread | queues and flags consistent and everything sent in a callback; no overtaking on a thread either |
| `threads_stop` | the teleop session on a thread | **violated**: the exit command is never written |
| `foundations_any` | a list of 3 entries, calls 2 deep; 5 handlers, 1 request; every procedure on 3-bit handles and 4 databases | the list implements the sequence and visits what stays; handlers are told and released once, references exact; procedures find all there is, agree on the MTU, and end |
| `gatt_db_any` | 3 services on 4 handles, 2 requests, values of 3 bytes, 3 watchers, notifications 2 deep, 13 usages | layout, views, what watchers know, one answer to each request, no garbage, nothing freed is used, everything answered |
| `client_any` | 2 long writes and 1 session of 2 PDUs in 9 usages; 3 registrations in 6; 3 requests and 3 handlers in 8 | what stays whole, which user data is read, exact reference counts, sessions known, assertions for polite callers, exact long reads, everyone told |
| `long_interleave` | 2 long writes, 1 session | **violated**: prepared writes mix |
| `discovery_any` | 4 services of different kinds, 2 changes, all worlds | ready is told once and on every path, one discovery at a time, flags and events consistent, the database matches |
| `main_loop_any` | 1 io, 1 timeout, 2 descriptors | tables agree, no event without its source, destroy functions once, quitting ends the loop |
| `teleop_any` | the program, 2 positions per axis, 9 worlds | types, promises, no use after free; unless the threads met, the vehicle stands at the end, the program ends, the vehicle follows the stick |

Bounds, and why they are enough.

* *Bearer.*  Two requests are what it takes for one to wait behind another,
  overtake it, or take its answer; a third only waits longer.  One indication
  and one command exercise the other two queues against the request queue.
  `MaxInbox` is 1: what nobody asked for comes between any two answers.
* *Threads.*  Four operations let the list be empty, of one entry and of two
  entries at the moments the two threads meet.
* *List.*  Three entries give a walk a neighbour before and one behind the
  entry it is at; depth 2 is a walk within a walk, or a clearing within one.
* *Registry.*  Two handlers for PDUs and two for disconnection: one in a
  handler, one that it unregisters or that comes next; `MaxOwners` 2 makes one
  of them not the last.
* *Helpers.*  Handles of three bits hold a gap, neighbours and a group that
  reaches the last handle; two entries per PDU make continuation necessary; the
  four MTUs are below, at and above the default.
* *Database.*  Four handles hold three services next to each other, at both
  ends, or around one another; three bytes a value with a hole in it.  Three
  watchers are the one that is called, one that was told before and one that is
  told next; two are enough where nobody unregisters another, or does so in a
  notification within another.  At depth 2 a notification is overtaken by one
  within it.  Three services are needed for layout and for a watcher that adds
  one while another waits for its removal; the usages that break something need
  two, or one ("activeInside").
* *Requests.*  Chunks of 2 and at most 4 bytes put the end of a value at a
  chunk's end, within one, at the greatest length and beyond it.  Ids wrap at
  3.
* *Long writes.*  Two long writes and one session give every pair of procedures
  that can meet.
* *Registrations.*  Three give one that writes, one that waits in the queue,
  and one that is left when the first fails.
* *Discovery.*  The four slots are one service of each kind that the code
  treats differently, in an order that puts the single-handle one between
  others and the included one last; two changes are what it takes for one to
  come while the first is being worked off.
* *Main loop.*  An io and a timeout are two sources in one batch, either of
  which removes the other; two descriptors let a freed one be given to a new
  source.
* *Teleop.*  Full deflection and one just below the threshold on the axes; two
  writes queued, one event waiting: the threads meet with something and with
  nothing in between them.  How the program ends does not depend on the
  steering, so only one world ("steers") moves both sticks.  Worlds are put
  together where one does not keep the program from what another is about: a
  silent peer and a lost link are apart, since the first never lets it drive.

## 4. Fairness

`AttTransport!FairSpec`: `io_callback` serves `EPOLLIN` and then `EPOLLOUT` in
each round (`io-mainloop.c` 128-189), so reading and writing are each strongly
fair; callbacks return; epoll reports a hang-up until it is handled; a timer, if
timers run, fires for an operation that stays pending.  The peer and the callers
owe nothing: a silent peer is the case `EveryOpEnds` is about.

`AttThreads!FairSpec`: each thread goes on while it can.

`MainLoop!FairSpec`: one weak fairness condition for the thread as a whole.  It
needs no event to happen, since `epoll_wait` is called with 100 ms
(`mainloop.c` 201) and returns without one.

`MCGattClient`: the bearer answers what is on the line and callbacks return
(`AttTransport` shows it does, by an answer or by ending the connection); the
callers owe nothing, except that a program ends the session
it has opened (strongly fair, as other calls may come in between), without which
a long write waits behind it rightly.  A caller that blocks in LEClient is not
held to that: it cannot.

`MCFoundations`: the server answers, or the bearer gives the request back.

`GattDbAccess`: a timer that has run out is called when control is back in the
main loop, in a program that iterates glib's context.  This one does not; what
that means is `att_no_timers`.

`GattDiscovery!FairSpec`: the server answers what it was asked and sends the
indications it owes, as long as the bearer is up; it need not change.

`Teleop!Spec`: each thread runs, the peer answers (in a world in which it is
not silent), and an event that is there again and again is reported
(`epoll_wait` returns all that are ready, in turn).

## 5. What is proved

Every theorem is for every value of the constants: any number of operations,
writes, services or changes.  `ConstantsOK`, `DiscoveryConstantsOK`, `LoopConstantsOK`,
`ScriptOK` (no operation is submitted twice), `LEClientConstantsOK`,
`TeleopConstantsOK` (the stick's positions have 16 bits, and 0 is one of them) and
`NullOK` (NULL is none of the things pointed to) are assumptions of the models,
which TLC evaluates; `GattConstantsOK` is a
hypothesis of the theorems that need it, since `GattLongWrite` is instantiated
by a composite.

| Theorem | States |
|---|---|
| `AttTransportProofs!TypeCorrect` | `[]TypeOK` |
| `AttTransportProofs!InvAlways` | `[]Inv`, the inductive invariant that `att_hostile` checks |
| `AttTransportProofs!OpsConserved` | `[]Conservation`: a live operation is in exactly one place |
| `AttTransportProofs!HandlersRunOnce` | `[]HandlersOnce`: callback and destroy at most once |
| `AttTransportProofs!CallbackBeforeDestroy` | the action property `NoCallbackAfterDestroy` |
| `AttTransportProofs!WriterNeverStalls` | `[]NoLostWakeup` |
| `AttTransportProofs!PeerUnderstood` | `[]ConformingPeerUnderstood` |
| `AttTransportProofs!BearerImplementsService` | `ImplementsService`: the bearer refines `AttService` |
| `GattDiscoveryProofs!ReadyToldOnce` | `[]Inv` |
| `GattDiscoveryProofs!DiscoveriesOneByOne` | the action property `OneDiscovery` |
| `GattDiscoveryProofs!FollowsTheServer` | `[]MatchesOneAtATime` |
| `GattLongWriteProofs!RequestsSound` | `[]Inv` of `GattLongWrite` |
| `GattLongWriteProofs!WritesNotMixed` | `[]NeverMixedAlone` |
| `GattLongWriteProofs!SessionsKept` | `[]CallersInv` of the programs above it |
| `GattLongWriteProofs!ProgramsNotMixed` | `[]NeverMixedAlone`, of those programs |
| `GattNotifyProofs!HandlersCounted` | `[]Inv` of `GattNotify` |
| `GattNotifyProofs!SubscribersNotified` | `[]SubscribersEnabled` |
| `MainLoopProofs!LoopSound` | `[]Inv` of `MainLoop` |
| `AttThreadsProofs!Correct` | `[]Inv` of `AttThreads` |
| `AttThreadsProofs!InOrder` | `[]SentInOrder` |
| `TeleopProofs!Correct` | `[]Inv` of `Teleop` |
| `TeleopProofs!Stopped` | `[]StoppedAtEnd`: unless the two threads met, a program that ends with 0 left the vehicle at rest in its normal mode |

*The bearer.*  `TypeOK`, `HandlersOnce` and `Conservation` are none of them
inductive alone.  That an operation is destroyed once follows from its being in
one place only; that it is in one place needs the handler in progress to hold
it, which is `BusyOK`: a callback in progress belongs to the operation in the
slot the handler will clear, and no other live operation has been called.
Their conjunction `Inv` is inductive: one lemma per action, each with a step
per conjunct the action can disturb, and lemmas on what `RemoveAt`, `Append`
and `Tail` do to the set of queued operations and to injectivity.
`NoLostWakeup` is inductive relative to `TypeOK`: the actions that make
something sendable end in `WakeupWriter`, the exceptions (`Timeout`,
`Disconnect`, `Unref`) take the bearer down.

*The peer.*  `ConformingPeerUnderstood` speaks of the next PDU only; what is
inductive is `InFlight`: every PDU on its way, at whatever place, is one the
bearer is ready for, no two of them are alike, and what the peer has yet to
answer is in a slot and unanswered.  `OneResponse` bounds the responses queued
to one, while `in_req` is set.  That a slot keeps a cancelled operation until
its answer has come is part of `Inv`.

*The refinement.*  A line of `AttService` is mapped to the operation in the
slot, as long as it has its handlers, followed by the queue of the code.  The
step that is not one of `AttService` at sight is the retry after raising the
security level, by which a request returns from the slot to the head of its
queue, and does so even if it was cancelled: `RetriedHead` says that a queue
holds no other cancelled operation, and this one at the head and with an empty
slot, so that the mapping can leave it out.

*Discovery.*  `Base` is `Inv`, with what the handlers in progress take for
granted (`Staged`) and how the flags follow from what the user was told
(`Progress`).  `MatchesOneAtATime` speaks of a client that waits for nothing;
its strengthening `Calm` says at every moment which slots the database matches:
all outside the range under discovery or announced by the server (`Elsewhere`),
and those of the range that the stages of `discover_*_cb` have been through
(`Within`); and that the client hears of the next change (`Listens`).  Slots
are finitely many, as handles are; that `clear_range` and the iterators meet
them in order needs lemmas on the least and the greatest of a set.

*Long writes and sessions.*  `Base` says of each PDU on the line that it goes
to a handler of its kind of write, and that the request it has a reference of
is allocated and has the op that handler casts to; two PDUs of one write never
both own it.  `Held` adds that whatever is allocated has an owner.  For a
program of one kind of write, `OnlyLong` and `OnlySession` tie the line to the
server's queue: it is the parts of one write up to the one on the line.
`Known` says of the two programs that the session they remember is the open one
and that one they have forgotten is being ended.

*Notifications.*  `All` says of each CCC write on the line whose registration it
is and what is still true of that one (`EntryOK`): one that switches off, or
that was cancelled, is of a handler that has left; one that switches on and is
not answered yet is of a handler that waits for nothing else.  No registration
has two (`Apart`), except while the first is being answered.  `Covered` then
counts references: `notify_list` has one, a write of either kind one more, so
whatever is pointed to is allocated.  `OneWrite` is what holds as long as
callbacks do not call the API: `ccc_write_id` is set exactly while the one write
is on the line.  `CountExact` is not inductive, since `enable_ccc_callback`
counts the handlers that waited one after another, and counts also those that
left meanwhile: `Counted` relates the count to the handlers told of success less
those that have left and are yet to be counted (`Gone`).  That the CCC is on for
whoever was told follows from the count, or, before they are all counted, from
the handler in progress.  Nothing is assumed of the usages: each part of the
invariant names those it excludes.

*The main loop.*  `Linked` and `Watched` are `TablesAgree`; its converse `Placed`
(what is allocated is in `mainloop_list`, at its descriptor) is what makes
`mainloop_remove_fd` and `mainloop_modify_fd` meet the right entry.  `Removed`,
`Added` and `Modified` are the lemmas on the three tables, one for each function
that writes them.  `FrameOK` says what is left of an io that was destroyed in its
own handler: no callback, and no destroy function of that handler unless the
usage is "inside"; so it is not entered again, and nothing is released twice.
`BatchOK` says that the events still to be worked off are of different sources,
allocated, and none of them in a handler: then a handler that removes only its
own source cannot take one of theirs.

*Two threads.*  A list is not one object here: each statement of
`queue_push_tail` and `queue_pop_head` moves one of head, tail, links and count,
and `UptoHead`, `UptoTail`, `UptoNext`, `UptoEntries` and their `OutOf...` say
which operation each of them has come to.  Called from callbacks the statements
of the two threads never mix (`Alone`); `ListsOK` then gives every piece in terms
of the operations that wait (`Waiting`), `StillSo` says that what was read is
still so when it is acted on, and `HandlerOK` gives the five flags at every
label.  `QueuesWellFormed` follows by `Chain`, by a least counterexample, since
`ReachedFrom` is recursive.  Called from a thread none of this holds; that no
pointer leads to an operation submitted earlier does (`Ordered`), and is enough
for `SentInOrder` up to the crash.

*The program.*  `MainAndStage`, `GattAndStage`, `InputAndStage` and `Alive` tie
the two threads to where constructor and destructor are, so that nothing freed
is used; `Asked` gives the request and the promise at each statement of `main`.
`StoppedAtEnd` speaks of the last statement only, and what it needs begins
earlier: `Stopping` says, from the stop on, what is still queued and what the
miniPRO made of the rest.  The stop is queued behind every drive, the exit
command behind the stop, and the request that disables the notifications behind
both; `ExitIsLast` and `NothingYet` exclude that an exit command is queued before.
The bearer writes in this order, so once the answer is there the queue was
written and the miniPRO stands.  A bearer that refuses what it is given, or a
link that is lost, leaves the request without an answer, and `main` waits.
All this holds while the two threads have not met: `ExitIsLast` and `Stopping`
are part of the invariant in the form `met \/ ...`, and since `met` is never
reset (`MetStays`) every earlier state of such a program had them too.  Once they
have met, any of the commands may be missing from the queue, and nothing is
claimed of the end; `Inv` is proved in either case.
That a packet does what it was meant to do is proved of its bytes: `ModePackets`,
`DrivePacket` and `ObeyStop` follow checksum, byte order and two's complement
for every throttle and steering.  The checksum is a fold over the bytes, in an
order that its definition leaves open; `SumOfEight` shows that the order does
not matter, for the eight bytes that the longest packet has.

What the proofs found.  Each run has some of the usages; a proof has all of
them, and three properties did not hold in combinations that no run has.
`RefsExact` fails of a program that executes a session again before the answer
("impatient"), `SessionKnown` of an impatient one and of a caller that blocks
and also passes ids of its own ("strays"), `NoUseAfterFreeUnchanged` of one
whose registration callbacks unregister handlers that were not told yet
(section 6).  They name these exceptions now, and TLC confirms them on every
combination.

What stays with TLC:

* liveness (`EveryOpEnds`, `AllOver`, and the like), `ENABLED`, and fairness,
  which the proof system does not do;
* `ImplementsSequence` of `ListQueue`, and what `GattHelpers`, `GattDb` and
  `Uuid` compute with recursion: these are inductions over data;
* the properties of `GattRequests`, `AttRegistry`, `GattDb` and `GattDbAccess`:
  their lists are filtered with `SelectSeq` and searched with `SelectInSeq`, and
  what these return for every list and every condition is an induction over
  data, to be redone for each condition as `SumOfEight` and `FirstRemoved` do it
  (section 7).

## 6. What the checks found

Each violated property is something the repository says of itself; the quotation
is in "findings".

1. `timeout_add` attaches ATT timers to a glib context nothing iterates: no ATT
   timeout fires (`timeout-glib.c` 72, against `att.c` 464-468).
2. `bt_att_send` races with `can_write_data`: the wakeup is lost and the command
   that stops the vehicle can stay in the queue (`att.c` 552).  For the program
   as a whole this means, in the world "meet" of `Teleop`: it can end with 0 and
   leave the vehicle in its remote mode, since the exit command was unlinked and
   the request behind it answered; and it can hang in `future.get()`, with the
   link up and a peer that would answer, since nobody sends that last request.
3. A long write started at the end of a session does not set `in_long_write`
   (`gatt-client.c` 2544): prepared writes interleave.

Seen on the way, without a run of their own.  Where a property names a `usage`
or `world` that it leaves out, it does not hold there; these are the
reasons.

*Queue, loop, timers*

* `queue_foreach` keeps the entry it is at, but a removed entry keeps its link
  as it was: a function that removes its own entry and then the next one, that
  clears the queue and fills it again, or that destroys it under
  `queue_remove_all`, makes the walk go on from freed memory (`queue.c` 345).
* The pointers in `events[n]` are not looked at again when an earlier handler
  of the batch has removed their source (`mainloop.c` 207).  A handler with a
  destroy function that destroys its own io and returns false has it called
  twice.
* `timeout_set` computes nanoseconds a factor of 1000 too small, and the data
  of timeouts and signals is not freed with them (`mainloop.c`).

*Bearer*

* A request that is retried after raising the security level keeps its timer
  and gets a new id (659).
* A handler that unregisters the next one, a destroy function that drops the
  last reference in `disconnect_cb` before it takes its own (605), and an MTU
  changed while a PDU is dispatched (the buffer moves) each lead to freed
  memory.

*Helpers*

* `find_by_type_val_cb` reports failure, with its results, when the last
  service reaches the end of the range; `discover_descs_cb` reports success
  after a request that was refused.
* A server that answers with handle 0xffff to a search that should end before
  makes the start handle wrap to 0 (1168, 1284, 1394, 1519): characteristics,
  includes and descriptors are searched again from there.
* Cancelling inside the callback, or while included services are READ, gives up
  a reference too many; after `bt_att_cancel_all` the procedure keeps the id of
  a request that is gone.
* The MTU exchange reports success when either side's MTU is below 23, and
  leaves the default.

*Database and UUIDs*

* A service put around existing ones overlaps them.  `next_handle` wraps to 0
  behind a service that ends at 0xffff, and is 0 after a clear, so that
  `gatt_db_add_service` fails from then on.  A characteristic whose value would
  have handle 0xffff is refused; one can be inserted on a handle that is in
  use; an attribute added behind a gap lands outside its service.
* A watcher with one function only makes the other be called as NULL ("half").
* A watcher that deactivates the service it is told has become active makes those
  behind it hear of the end first and of the beginning afterwards: they believe
  in an inactive service for good (936, "activeInside").
* A watcher that unregisters the next one, or itself in a notification within
  the one that called it, makes `queue_foreach` go on from a freed entry (649,
  "leaveInside").  One that removes the service whose removal it is told of has
  it removed and freed twice (437, "removeInside").  After a deactivation the
  same call notifies nobody, since the service is inactive already, and just
  frees: that is harmless for the last watcher, while one behind it is handed a
  freed service.  One that gives up the database in a notification leaves the
  caller with a freed one ("unrefInside").
* A read made in the callback of a read that is cancelled by its attribute's end
  uses freed memory ("readInside").
* A write behind the end of a stored value leaves bytes that were never set.
  The check of the allocation of `pending_writes` tests `pending_reads`.
* `gatt_db_find_by_type_value` compares stored bytes, so a UUID in another
  length is not found.  `is_base_uuid128` reads characters with `%1[..]` into
  variables of one byte.  `bt_uuid_cmp` of a UUID of no type compares
  uninitialised memory.

*GATT client*

* `bt_gatt_client_write_execute` replaces the data that a pending callback of
  the session casts to another type (3010), for a caller that does not await
  the answer to its last PREPARE WRITE, as `LEClient::write_prepare` does not
  ("impatient").
* Cancelling a long write between two parts lets a part follow the EXECUTE
  WRITE that drops the others (1913-1931); cancelling a session leaves a long
  write that waits for it waiting (1933-1940).
* A PREPARE WRITE of an open session that the bearer refuses frees the request
  but leaves `reliable_write_session_id` set (2925): no long write runs any
  more.
* A long write cancelled in the queue, the last handler to unregister, and a
  failed enable each keep a reference for ever (1926, 1626, 1223).
* `disable_ccc_callback` takes the next registration from the queue but writes
  the CCC for the one that was unregistered: the next one is never answered,
  and the old one is called and counted again (1602).
* A register callback that unregisters a handler still waiting in the queue
  that `enable_ccc_callback` is working off frees it, and the handler is called
  next (1241).
* Service Changed frees a characteristic that a pending CCC write points to and
  drops queued registrations twice (1447).
* `bt_gatt_client_unregister_notify` asserts away (3055) the case that
  `complete_unregister_notify` handles (1612-1615), a CCC write that is
  pending.  A handler that unregisters from within its register callback meets
  the assertion at 1592.
* A long read from beyond 512 bytes computes a negative length as a large one
  (`append_chunk`).  The user data of the Service Changed handler is not
  destroyed with the client.
* `Matches`, each with one world only.  "gatt": `svc_chngd_ind_id` is not reset
  when the handler it names is dropped, so `register_service_changed` (1372)
  never registers again and the next change goes unnoticed.  "overlap": a
  rediscovery that fails because the server changed again clears its whole
  range (1421), and the event that follows covers only a part of it.  "errors":
  the same clearing, with nothing that follows.  "secondary": a range in which
  only secondary services are left fails, for lack of primary ones, before
  secondary ones are looked for (1053).  "early": what changes between its
  discovery and the answer to the CCC write is never indicated.
* The client reports ready before that CCC write is answered (1529); what comes
  of it reaches nobody, since `notify_client_ready` ignores a client that is
  ready.
* A service of a single handle is never set active unless it is the first (745,
  854).

*LE client, shell, teleop*

* The constructor gives up after 5 s by throwing while its thread is joinable,
  which terminates the program; `ready_cb` tells it nothing when discovery
  fails.
* A blocking call never returns when the library refuses it, when the link is
  lost, when a reliable long write is not verified, and when a long write is
  queued behind a session that the same caller would have to end, or has just
  given up (`Hopeless`).
* `write_execute` with another id forgets the session that is open; the shell
  compares the ids.  What is printed of an included service is looked up by its
  old handle.  `print_services_by_handle` ignores the handle.
* The destructor frees the client and the bearer before it joins the thread
  that uses them.
* A joystick that is missing is noticed when the vehicle is in its remote mode
  already, and the exception leaves it there.  An unplugged joystick keeps its
  last position.  Where the stick is when the program starts is not known until
  it moves.

## 7. Not modelled, and the plan

Not modelled, and why:

* The L2CAP socket's options and addresses, the HCI library, `bluetooth.c` and
  the kernel's crypto sockets: system calls and conversions without state.
  Units (`units.hpp`) are compile-time arithmetic.
* `mainloop_set_signal`: one more descriptor for as long as the loop runs, used
  by the shell only.  The other commands of the shell parse, call the GATT
  client once and print.  `gatt_db_service_set_claimed` and permissions:
  nothing here reads what they set.
* Failing allocations, but for those on which a model has a usage "memory" or
  "refuses"; a bearer that refuses PDUs in `GattLongWrite`.
* A caller that does not wait for the answers of its session, beyond the
  sentence above: the callback that follows has undefined behaviour.
* In `GattNotify` more than one characteristic, and handlers that are
  registered again after a rediscovery.
* In `GattDiscovery` a procedure of which later requests see a newer server
  than earlier ones.
* Buttons of the joystick: nobody asks for them.
* In `LEClient` an operation that is sent again after it was freed, which a list
  damaged by the two threads can lead to (`AttThreads` stops there).

Done: A `AttTransport` with its abstraction and proofs, B `AttThreads`, C
`GattLongWrite` and its callers, D `GattNotify`, E `GattDiscovery`, F
`LEClient`, G `ListQueue` and `AttRegistry`, H `MainLoop`, I `GattDb` with
access and views, J `GattHelpers`, K `Teleop`, L `GattRequests`.  What is left
is proof:

1. `ToldOnce` and `LongReadExact` of `GattRequests`; with them `Inv` of the
   composite of the three client modules, whose other two parts are proved.
2. `RefsExact` and `ReleasedOnce` of `AttRegistry`, for any number of handlers.
3. `WatchersKnow` of `GattDb`, for any number of watchers and any depth.
4. `ImplementsSequence` of `ListQueue` needs induction along the chain of
   entries and stays with TLC.
