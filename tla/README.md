# TLA+ models of the DTP API

`nanwei_api_rust` gives C programs a socket-like API (`dtp_socket`,
`dtp_bind`, `dtp_listen`, `dtp_accept`, `dtp_connect`, `dtp_send`,
`dtp_recv`, `dtp_close`) over QUIC. Behind it, one thread per server socket runs
`server_loop` and one thread per client connection runs `client_loop`; the
application's threads share quiche connections, a status table and a global
registry with them. This directory models that concurrency, checks it with TLC
and proves its safety properties with TLAPS. Paths below are relative to `src/`.

## 1. Inventory

| Component | State | Operations | Interacts with |
|---|---|---|---|
| Server loop (`src/server.rs` 66-428) | `clients`, receive buffer, poll | timers, poll, read loop (version negotiation, stateless retry, accept, recv), write pass, garbage collection | socket, waker, connections (one mutex each), `client_status` (one mutex) |
| Server API (`src/ffi.rs` 226-268, 349-612) | `DtpConnection` handed out, stream data | `dtp_accept`, `dtp_send`, `dtp_recv`, server half of `dtp_close` | the same connections, table and waker |
| Registry (`src/lib.rs` 115-191, `src/ffi.rs` 104-346) | `DTP_API_MAP` | `dtp_socket`, `dtp_socket_close`, `dtp_bind`, `dtp_listen`, `dtp_connect`, removal of a handle in `dtp_close` | one global mutex, taken by every call |
| Client loop (`src/client.rs`) | one connection, poll, socket | timeout, poll, read, write, two tests of `is_closed` | one connection mutex, waker |
| Client half of `dtp_close` (`src/ffi.rs` 524-579) | its `DtpConnection` | test, close, wake, take handle, join, free | connection, waker, registry, thread |
| Retry token (`src/server.rs` 438-482) | none | `mint_token`, `validate_token` | read loop |
| Stream responses (`src/server.rs` 489-596) | `partial_responses` | `handle_stream` (not called), `handle_writable` | read loop, connection, waker |
| Message loop (`src/message.rs`, `src/lib.rs` 63-87) | mpsc and oneshot channels | `recv_msg_loop`, `send` | connection, waker; not used by the C API |
| Error codes (`src/ffi.rs` 18-46) | none | `error_to_c`, casts in `dtp_recv` | every call |
| Driver (`src/main.rs`) | client tasks on tokio's workers, server threads | exchange of a request and an answer, retries of every call | the C API |
| Configuration, stubs, headers, examples | none | setters, calls that return -1 | quiche |

What makes it correct, and hard to test:

* Server loop and server API: the loop collects a connection only when the
  application is through with it; a connection has one owner; the collection
  never meets `unreachable!`; the loop never sleeps while there is work nobody
  else will wake it for; it reads everything an edge-triggered poll reports
  once. The hard part is the order of accept, close, wake, expiry and
  collection, and what a replayed packet does after a collection.
* Stream data: what `dtp_send` accepted is handed out once and in order, whatever
  the order of frames, and does not wait for a call or a packet that never comes;
  the one number `dtp_recv` returns can be told apart.
* Registry: its seven tables agree while calls that hold its mutex and a
  `dtp_close` that does not are interleaved; the thread joined is the right one.
* Client: `dtp_close` joins the loop's thread, so the loop must leave once the
  connection is closed however that came about, and must be woken to send the
  close.
* Responses and message loop: their critical sections are apart, so nothing may be
  lost or sent twice when the loop, a close or another writer comes in between.
* Driver: every client is served with fewer workers than clients, and nobody's
  close cuts off an answer.
* Token: it is valid only for the address it was minted for.

The single hazards, each at its line, are in `PROJECT.json`.

## 2. Modules

| Module | Contents |
|---|---|
| `ConnOwnership` | abstract: a connection id is offered, taken by one thread, given back by it, then collected |
| `DtpServer`, `DtpServerProofs`, `DtpServerLiveness` | server loop, `dtp_accept`, `dtp_send`, server half of `dtp_close`, network; implements `ConnOwnership` |
| `ClientLife` | abstract: a client connection, the thread behind it and the `dtp_close` of it |
| `DtpApi`, `DtpApiProofs` | registry, client half of `dtp_close`, client threads; implements `ClientLife` for all connections at once |
| `DtpClient`, `DtpClientProofs` | client loop, `dtp_send`, `dtp_close`, network; implements `ClientLife` for its connection |
| `BytePipe` | abstract: a stream is a pipe of bytes until it breaks |
| `DtpStream`, `DtpStreamProofs` | `dtp_send`, `dtp_recv`, flow control, the rounds of the two loops, error codes; implements `BytePipe` |
| `Exchange` | abstract: each client's request is read and answered once, and the server lets go last |
| `Driver`, `DriverProofs` | `main.rs`: clients, tokio's workers, the server's threads, the exchange; implements `Exchange` |
| `SharedConn` | a connection and the server's loop as seen by the two writers below |
| `Responses` | `handle_stream`, `handle_writable`, `partial_responses` |
| `MsgLoop` | `recv_msg_loop` and its callers |
| `Sending` | abstract: a response is sent once from start to end, a request answered once |
| `Writers`, `WritersProofs` | `Responses` and `MsgLoop` composed on one `SharedConn`; implements `Sending` |
| `RetryToken` | `mint_token` and `validate_token` on octets, with their theorems |
| `MC*` | instances for TLC |

The modules meet as follows. `DtpServer` and `DtpClient` show what each event loop
does for its connections and that it never sleeps over work; `DtpStream` takes
from them that a loop runs a round when it is woken or has packets, and adds
the data; `Driver` takes from all three what a call answers in which phase of a
connection; `DtpApi` has each client loop as a thread that ends once its
connection is closed. What that means is `ClientLife`, which both implement:
`DtpClient` shows that the loop is such a thread, `DtpApi` that the registry keeps
the connections apart.

### How the state and actions correspond to the code

An action is one critical section, or the stretch of thread-local code between
two.

`DtpServer`: `pc` walks the loop. `Top` computes the timeout (84-93),
`PollEvents`/`PollTimeout` are the poll (94), `OnTimeout` is the branch for an
empty event list (104-112), `DropPacket`, `AnswerPacket`, `AcceptPacket` and
`LookupPacket` are the outcomes for one datagram (114-266), `RecvOk`/`RecvErr`
feed it to the connection (268-311), `WriteClient` is one client of the write
pass (360-395), `Gc` the collection (397-425), `IoPanic` an error of the poll or of
`recv_from`, `AcceptFails` the `unwrap` of `quiche::accept` (233-240). An application
thread is "closing" between two `dtp_close` calls. `AcceptPacket` changes `clients`
and, under its own mutex, `client_status`; the two are one action because only
the loop reads `clients`. `Gc` holds the table's mutex for the whole scan.

A connection object is an index into the sequence `conn`, never reused, so that
"the same id" and "the same connection" stay apart: this is what
`LiveHandleNotCollected` turns on. `client_status` maps an id to an object and a
status; `handle` says which object a thread's `DtpConnection` refers to.

quiche is external. Of a connection the models keep the phase, whether it was
established, whether there is something to send and, in the client, whether a
packet of the peer was processed. `Connection::recv` may leave it in any state
its phase allows. A connection that is closed has no timeout and ignores
packets; closing one that was already closed answers `Done`. 0-RTT is not
enabled by `dtp_config_init`, so `is_in_early_data` is always false. In
`DtpServer`, `dirty` means data of `dtp_send` that no write pass has seen yet:
what a blocked socket or congestion control holds back after that is sent on a
later timer of quiche. In `DtpClient`, `dirty` means anything left to send, also the
data behind a blocked send and the close that an error of quiche's `send` brings about
(client.rs 119-132); `gaveUp` says that the last write loop left something behind in
one of these ways. Then the loop sleeps over it, with a timeout: `NeverSleepsOverWork`
allows that and nothing else.

A panic unwinds the thread and poisons the mutexes it holds (`held`, `poisoned`);
whoever locks one of them panics too. Locking a mutex the thread already
holds blocks for ever (`pc = "stuck"`, `stuck`). `logLevel` is a variable because
arguments of a log macro are evaluated only when the level is enabled, and two of
them do harm; `"error"` stands for all levels at which `error!` but not `debug!`
is enabled.

In `DtpApi`, each call that holds the registry throughout is an action;
`dtp_close` is six, and connections and threads move on between them. There
`CloseSend` merges the test of `is_established` with the close and the wake, since a
connection that is established stays so; `DtpClient` has the wake apart, and
the whole loop.

`DtpStream`: `dtp_send` and `dtp_recv` each hold the connection's mutex throughout
and are one action. `sent` is what `dtp_send` said was accepted, `flushed` what the
loop's write pass put into packets, `arrived` what the other end's quiche has, as
positions, so that frames can arrive in any order; `read` is what `dtp_recv`
handed out. `Runs` is the poll returning because of the waker (`woken`) or of
packets (`due`). The sender's loop is written after `client_loop`, the receiver's
after `server_loop`; a round of either is the same for stream data. Flow control
is quiche's: a limit is renewed when half of the window is used up, and a
blocked sender says so once per limit. Retransmission is quiche's as well: a frame
stays in `net` until it is delivered. Not in the model: data that quiche still sends
while it drains, and what a packet that does not fit the congestion window waits
for.

`Driver`: one action for each call of a client task or of a server's thread that
gets somewhere; calls that answer "not yet" and are repeated change nothing. A
client task holds a tokio worker from `Connect` to its end (`Running`) because it
never awaits. A connection has a phase at each end; `WindUp` is everything that
follows when an end has gone (the close packet, the draining timer, the idle
timer), `Expire` a connection in use that fails (`lost` remembers it).

`Writers`: `Responses` and `MsgLoop` have one action for each critical section and share
the variables of `SharedConn` (EXTENDS); `Writers` adds UNCHANGED for the other's.
`pend` and `flight` are bytes accepted and bytes sent but not acknowledged: quiche
accepts what the window has room for. `partial` is `PartialResponse.written` of
each stream, `written` what quiche has accepted of it; that they agree is a
property (`EntryAgrees`), not a definition. A connection closed in its handshake is
"aborting", then "aborted": `is_established` stays false for it, and the message loop
answers `DtpSendRetry` (message.rs 59-69). `handle_stream` is called by nothing;
it is modelled as the loop would call it, and its `debug!` and `info!` arguments,
which also lock the connection, are left out where they add no step.

## 3. Runs

Passing runs (states are distinct ones):

| Run | What it checks | Bounds |
|---|---|---|
| `server_faults` | `IInv`, `LiveHandleNotCollected`, `StatusCoversClients`, `NoLostWake`, refinement `Ownership` | 2 clients, 2 application threads (symmetric), 6 datagrams, 2 waiting, valid and refused tokens, all send results, quiche errors, logging off or at debug; 2.06 million states |
| `server_live` | under fairness `LoopProgress` (`NoHiddenWait` always, `ReadsAllPackets`, `WritePassEnds`), `SilentConnectionsClose`, `EveryConnectionAccepted`, `ConnectionsGivenBack` | 2 clients, 1 thread, 5 datagrams, also those of an unsupported version and those whose header does not parse; 195 000 states |
| `api_safety` | `IInv`, `TablesAgree`, `CloseJoinsItsThread`, `CloseIsFinal`, no fd twice (`FdsNeverReused`), refinement `ImplementsLife` | 2 sockets, 2 clients; 239 000 states |
| `client` | `IInv`, `NeverSleepsOverWork`, refinement `ImplementsLife`; under fairness `LoopProgress` (`NoHiddenWait` always, `ReadsAllPackets`), `CloseReturns`, `ThreadEnds` | 4 datagrams, 2 waiting, all send results, quiche errors, panics; 16 000 states |
| `stream` | `IInv`, `NothingVanishes`, `ResultTells`, refinement `ImplementsPipe`; under fairness `AcceptedIsRead`, `WholeIfWoken` | streams of 3 and 1 bytes, window 2, buffer 2, resets and closes, `c_int` of 7 bits and `usize` of 12; 150 000 states |
| `driver` | `IInv`, `AnswerNotCutOff`, refinement `ImplementsExchange`; under fairness `AllServed`, `ServerThreadsEnd` | 3 clients, 1 worker, expiry; 38 600 states |
| `writers` | `IInv`, of which `EntryAgrees` and `OneReply` are parts, `RestIsKept`, `RetryIsSafe`, refinement `ImplementsSending`; under fairness `RequestsAnswered`, `ResponsesComplete` | 2 streams, a response of 3 bytes, window 2, 2 callers on the other stream, channel of 1, failures; 619 000 states |

The bounds: a connection needs three datagrams (Initial, token, one more) to be
established, so six let an id live, be collected and be made again by a
replayed token while another is alive. Two threads suffice for a race of two
`dtp_accept` or of `dtp_accept` with `dtp_close`. Two datagrams waiting show what
an edge-triggered poll does with the second. Two clients and two
sockets allow a `dtp_connect` on the socket whose `dtp_close` is joining its
thread, two clients at once, and a server on the socket of a client or beside it
(the theorems hold for any number). A message of three
bytes through a window of two needs a renewed limit, and the other stream is the
traffic beside it; 7 bits for `c_int` are enough to hold the codes down to
-42 (the theorem `ResultsTell` has the real widths). One worker for three
clients makes two of them wait for the first, and one of those for the other. A response of three in a window of two
is stored after its first send and completed over several packets, while two
callers compete for the window and, with a channel of one, for the channel.
`CHECK_DEADLOCK FALSE`: the datagrams, connections and messages are limited, and a
loop with no timer may block in its poll for good, which is no error by itself.

Runs that show where the code does not do what its comments or documents say (each
checks one property and TLC violates it):

| Run | Claim | What happens |
|---|---|---|
| `find_marked_collected` | ffi.rs 590: a marked connection "will certainly be collected by server_loop because of a timeout" | `dtp_close` does not wake the loop, and a closed connection has no timeout: with no other traffic the loop sleeps for ever |
| `find_recv_deadlock` | server.rs 98-99: reads until there are no more packets | a refused packet makes the loop lock, inside `error!`, the mutex the `match` at 274 still holds |
| `find_read_break` | the same | a Retry that would block leaves the read loop (205); the edge-triggered poll does not report the rest |
| `find_recv_no_wake` | ffi.rs 441: `dtp_recv` wakes the poll and sends data | the call of the waker is commented out (442-446): a sender that announced too early that it is blocked is never told of the room a `dtp_recv` made. With the windows of `dtp_config_init` (4 GiB) it takes as much data |
| `find_driver_polls` | readme.md 22: 500 lines of output in all | a client whose connection has closed polls for its answer for ever (main.rs 264-279), holding its worker |

Disagreements that need no run to see:

* client.rs 107-108 says that packets are sent "until quiche reports that there are no
  more packets to be sent". On an error of quiche's `send` the loop closes the connection
  and breaks (119-124), so the CONNECTION_CLOSE it has just queued stays unsent while the
  loop blocks in its poll, until a timer, a packet or a wake comes; a send that would block
  leaves data in the same way (129-132). This is why `NeverSleepsOverWork` excepts `gaveUp`.
* ffi.rs 511 says `dtp_close` returns 1 or -1. On the server a refused one
  panics at debug level, on the `sockid.unwrap()` of 584 (`DtpCloseRefused` in
  `DtpServer`); on a client it panics at 538 when the peer's close or a timer comes
  between its tests and its close (`CloseSend` in `DtpApi` and `DtpClient`).
* ffi.rs 271 says `dtp_connect` returns NULL on failure. It unwraps the
  constructor's Result with the registry locked (302), so a failure panics, and every
  later call does (`dtp_connect` in `DtpApi`).
* `next_fd` starts at 0, so the first `dtp_socket` returns 0 (lib.rs 141), where
  ffi.rs 101 says a socket is greater than 0.
* `dtp_connect` stores `Some(socket)` in `sock_map` (ffi.rs 309), where lib.rs 119 says
  that `None` marks the socket of a client.
* `dtp_close` leaves that clone of the UDP socket in the registry, so it stays
  open, where ffi.rs 560 says that every pointer to the client is dropped.
* `dtp_recv` and `dtp_send` answer any of the codes of `error_to_c` and `DtpError`,
  where ffi.rs 350 and 452 say -1; the stream id is a `c_int` at ffi.rs 359
  and a `uint64_t` in include/dtp_api.h 88.
* A collected connection keeps its entry, and through it its memory, in
  `client_status`: nothing removes entries. The comment at ffi.rs 596 leaves the
  release of resources to the server loop.

`PROJECT.json` names for every property of a passing run a mutant of the code (an
operator next to the definition it changes) that breaks it.

### Fairness

Each kind of fairness is an operator of its own: `LoopRuns`, `AppFair`, `TimerFair` in
`DtpServer`; `LoopRuns`, `CloseGoesOn` in `DtpClient`; `Fair(c)` for each client in
`Driver`; `Fairness` in the others. `NoHiddenWait`, the first part of `LoopProgress` in
`DtpServer` and `DtpClient`, says exactly when the steps promised there can be taken: a
thread waits for what the code makes it wait for and for nothing else.

* Weak fairness of a loop's steps: the thread is scheduled. It says nothing of a
  loop blocked in its poll with no event and no timeout, and it does not make
  the poll or the socket fail (a panic over a poisoned mutex it does cover).
* Strong fairness of expiry: whenever a connection's timers are looked at again
  and again, one day the idle or draining timer has expired. `dtp_config_init` and
  the driver set `max_idle_timeout`, so there is such a timer.
* On the server, an idle thread sits in `dtp_accept` and a thread whose `dtp_close` was
  refused calls it again until it succeeds (`CloseAgain`), as `src/main.rs` 185-193 and
  220-236 do. Nothing makes a thread call `dtp_close` for the first time: in `main.rs`
  one whose peer falls silent before its request polls at 197-211 for ever, and then its
  connection is never given back. So `ConnectionsGivenBack` speaks of threads that have
  begun, and `EveryConnectionAccepted` has as a premise that no thread stays without
  ever doing so (`AllComeToClose`). That run has one thread for everything,
  where `main.rs` has one per connection: the harder case, as it accepts only after closing.
* On the client, a `dtp_close` past its first test goes on; nothing makes an
  application call it. Expiry is no part of `FairSpec` there: `CloseReturns` has it as a
  premise (`TimersExpire`), and `ReadsAllPackets` must hold of a connection that lives on.
* `SilentConnectionsClose`, `EveryConnectionAccepted` and `ConnectionsGivenBack` are
  stated under `Quiet`, events cease: `on_timeout` is only called when the poll
  returned no event, so with traffic that never pauses the code does not promise them.
* `server_live` runs without failures, with `error!` off: the `find_` runs show that
  `ReadsAllPackets` fails otherwise.
* `DtpStream`: the loops run rounds when they have a reason to, a frame is delivered in
  the end (quiche sends it again), the handshake finishes, the sender offers the
  rest again and the receiver polls. A reason to run is not owed: `WholeIfWoken`
  states as its premise that the receiver's loop is woken again and again, and
  `find_recv_no_wake` shows that without it a message larger than the window may
  stop.
* `Driver`: threads that can go on do, packets arrive in the end, timers run. Strong
  fairness of `Connect`: a queued task gets a worker that becomes free again and
  again. No connection has to expire: `AllServed` is stated for behaviours in which
  none does, `ServerThreadsEnd` for all.
* `Writers`: threads and the loop run when they can; packets and timers are not
  owed, so `ResponsesComplete` has packets that keep coming as its premise. Both
  liveness properties hold up to `stuck`, the self-deadlock of
  `handle_stream` (server.rs 531-536).

## 4. Proofs

All safety theorems hold for every value of the constants (any sets of clients,
threads, streams and callers, any number of datagrams, sockets, connections and
bytes, with or without failures) under the assumptions on the constants alone, which
each module names (`ServerAssumption`, `ApiAssumption`, ...); `ResultsTell` in
addition takes the widths of a 64-bit machine.

`DtpServerProofs`. The safety properties are not inductive. `IInv` strengthens them by
`TableInv` (a client's entry is the entry of that very object; Connected and
Accepted entries have a client; an entry marked Close whose client is still
there belongs to a closed connection), `HandleInv` (a thread with a handle is
the only one, its entry is Accepted and its client still served; a thread about
to mark has seen the connection closed, which is stable), `WorkInv` (the datagram
in hand and the rest of the write pass belong to clients), `WakeInv` (unseen
data has its wake pending or a write pass still to come) and `PollInv` (the poll is armed
while a connection is open, and a loop that runs keeps no mutex). So a collection, which
needs a closed connection with a Close entry, cannot hit an Accepted one; and an
entry is overwritten only when its id has no client, hence no handle.
From it follow `HandlesStayServed`, `SingleOwner` (`OneOwner`, which the runs check
through `Ownership`), `GcFindsStatus`, `WakesAreKept`, and `Refinement`: every step of
the server is a step of `ConnOwnership` or a stutter.

`DtpApiProofs`. `IInv` ties the server tables to each other, sockets in use to their
entries, fds not yet handed out to having none, and every unfinished `dtp_close` to
the handle registered under its socket. The handle stays because `dtp_connect`
refuses a socket that has one and only the `dtp_close` of its client removes it.
Theorems `CloseJoins`, `RegistryConsistent`. `FdsHandedOutOnce` is an action property: an
entry of `sock_map` comes from `dtp_socket` alone, and every other call that writes one
finds it there, so a closed fd stays without a socket. `CloseFinal` is inductive together
with `IInv`: a closed connection stays closed, and a thread that has
ended stays so. `RegistryImplementsLife` maps every client to its connection
(`LifeChange` lists what a step may do to one); it needs `CloseJoinsItsThread`, for
`ClientLife` joins a connection's own thread.

`DtpClientProofs`. `IInv` says where the loop may be when the connection is closed
(`ClosedInv`), when there is something to send (`DirtyInv`) and when datagrams wait
(`UnreadInv`), and that its poll has a timeout; the two tests of `is_closed` are what makes `ClosedInv` inductive.
Theorems `SleepsOverNothing` and `LoopImplementsLife`; the latter needs besides that an
open connection is established and that the mutex is poisoned by a panic only (`LifeInv`).

`DtpStreamProofs`. `IInv` orders what is read, flushed, accepted and granted
(`WithinWindow`), bounds what is in flight by it (`FlightInv`, `SenderInv`), and
contains `NothingVanishes`: a position leaves "not flushed" only by a write pass that
puts its frame into `net`, and `net` only by a delivery that puts it into
`arrived`. From it follow `AcceptedIsCarried` and `PipeImplemented`: `dtp_recv` hands
out positions that arrived without a gap, which are at most `sent`, and nothing
of a stream in `dead`. `ResultsTell` rests on `CastKeeps`: a number of `c_int` range
survives the casts to `usize` and back.

`DriverProofs`. `IInv` says of each connection that the client goes first: the
server's end is closing only when the client's is, or the connection was lost, and the
client's only when its answer is printed, or it was lost. `AnswersArrive` follows
because a server's `dtp_close` succeeds on a closed connection only. Nearly all of `IInv`
speaks of one connection at a time, so a step is proved for its own client and leaves the
others alone (`OwnPartSuffices`); what is left counts the workers in use.
`ExchangeImplemented` maps each client to a stage of `Exchange`. A request is read once
because the server asks for it only before it answers, and a thread that ends has found its
connection closed, hence the answer printed or the connection lost.

`WritersProofs`. `IInv` is the conjunction of the four safety properties with the types
and `EntryInv` and `RequestInv`: an entry is incomplete, there is none before the
handler's store, and a request in the task's hands is no longer in the channel and
has sent nothing. One lemma per action; those of one writer are shown to leave the
other's part alone. Theorems `EntriesAgree`, `RestsAreKept`,
`RequestsAreAnsweredOnce`, `RetriesAreSafe`. `SendingImplemented` needs `EntryAgrees`, or the
loop would offer a part of a response again or leave one out, `EntryInv`, for a response that
is over stays so, and `OneReply` with `RequestInv`, so that an answer meets a caller who
waits and for whom nothing has been sent.

`RetryToken`. A token validates for its address and gives back its id
(`MintedIsValid`), a token that validates is one minted for that address
(`ValidIsMinted`), and one minted for another address of the same family is refused
(`OtherAddressRefused`). Nothing is said of addresses of different families: the
format does not keep them apart. As pure functions on octets these have no run.

### Liveness

The provers treat `ENABLED` as opaque, and can neither count nor do induction in a temporal
formula. What they can do is the argument around it, for any number of clients,
threads, workers, callers and datagrams. The liveness theorems are therefore
implications: `FairSpec` and premises that are themselves properties of a passing
run, or facts about `ENABLED`, imply the property. The premises are

* `[]NoHiddenWait`: where the fair steps can be taken, stated without `ENABLED` on one side.
  It follows from the definitions of the actions alone, but not within reach of the
  provers. In `server_live` and `client` TLC evaluates it as part of `LoopProgress`; in
  `DriverProofs` and `WritersProofs`, which define it next to the theorems that
  take it, it only restates guards and is no property of a run;
* `LoopProgress`, on the server and the client: `[]NoHiddenWait` together with
  `ReadsAllPackets` and, on the server, `WritePassEnds`. These two hold because datagrams
  are read one by one and clients visited one by one, a variant that would have to be
  counted down;
* `[]Alright`, on the server: nothing has panicked or locked itself out.
  `NobodyPanics` proves it without logging and without failures of the socket and of
  quiche, the setting of `server_live`.

`DtpServerLiveness`. Once events cease, the loop cannot stay in the read or the write
pass, and its poll is armed as long as a connection is open (`PollInv`), so it comes
to `OnTimeout` again and again, and by strong fairness each connection expires in the end
(`SilenceCloses`). A thread that has begun to call `dtp_close` repeats it; once the
connection is closed nothing holds the call up, and it marks the entry and lets go
(`GivenBack`): `HandleInv` says that the entry it marks is its own. Of a thread that never
comes to its `dtp_close` nothing is said.

`DtpClientProofs`. `CloseInv` (a `dtp_close` past its close has a connection that closes)
is part of `IInv`. Once the connection is closed the loop finds it at the next of its two
tests and ends (`ClosedThreadEnds`); while it drains, the loop's poll returns again and
again and the draining timer, which the theorem assumes to run (`TimersExpire`), expires; so the thread
ends and the join of `dtp_close` returns (`DtpCloseReturns`).

`DriverProofs`. `IInv` contains `WaitInv` (what a thread that waits waits for) and that no
more clients run than there are workers. A server's thread that has answered ends: the
connection winds up or expires, whatever the client does (`ServerThreadsFinish`). If no
connection is lost, a worker becomes free again and again, as each client that has one goes
through the exchange; so every queued client gets one and is served (`EachServed`).
The theorem takes `[]AllFair`, which is `AllFair`: fairness of a behaviour is fairness of
its every suffix, but the provers have to be told under a quantifier. That all of them
are served is `AllServed`, a conjunction over the clients at one moment, and stays with
TLC.

`WritersProofs`. The request the task works on is answered, or its caller panics
(`RequestInHandIsAnswered`), and one that waits in the channel moves up a place
(`RequestsMoveUp`); both hold up to `stuck`. `RequestsAnswered` is their repeated use, as
often as the channel has places, which is an induction.

Only model-checked: `LoopProgress` for the reasons above;
`EveryConnectionAccepted`, which counts the connections ahead of the one in question;
`AllServed` and `RequestsAnswered` as said; `ResponsesComplete`, `AcceptedIsRead` and
`WholeIfWoken`, which count bytes. Every invariant that does not mention `ENABLED`, every
action property and every refinement of the runs is proved.

## 5. Not modelled

* Inside quiche: TLS, packet formats, congestion control beyond a window, frames that
  are sent while a connection drains. External to `src/`.
* The bytes of packets, and of the request that `handle_stream` parses.
* Widths of counters: `next_fd` overflows after 2^31 sockets.
* Use of a `DtpConnection` after `dtp_close` consumed it (the API forbids it), and
  calls with NULL pointers (they answer -404 and change nothing).
* A stream that ends with an empty frame: `dtp_recv` answers 0 for it as for no data,
  and only `fin` differs.
* Configuration setters, stubs and C headers have no behaviour; the examples use the
  API as `main.rs` does, or do not use it.

## 6. Plan

Done, in this order: `DtpServer` with `ConnOwnership`; `DtpApi`; `DtpClient`;
`DtpStream` with `BytePipe` and the error codes; `Driver`; `Responses`, `MsgLoop` and
their composition `Writers`; `RetryToken`; `ClientLife` and the two refinements of it; `Exchange` and `Sending`;
and the proofs of each, of their invariants and refinements first, then of the
liveness properties that need no counting.

Left:

1. `LockOrder`: the mutexes (registry, table, connection, waker, socket) and the order
   in which each call takes them; no cyclic wait apart from the self-deadlocks of
   section 3.
2. `DtpStream` with a congestion window, and data sent while a connection drains.
