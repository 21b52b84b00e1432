# TLA+ models of hslib

hslib is a small C library: a non-blocking TCP client (*connector*), two TCP
servers (a `select()` *acceptor* and an edge-triggered `epoll` *server*), the
byte buffers they share, a few containers, RC4 and a layer over ODBC. This
directory models its network library - the part where the order of events,
partial transfers, callbacks and failures make the behaviour hard to test - and
its ring buffer and hash map. TLC checks the models on small instances. TLAPS proves
their safety properties and refinements for every size of buffers, tables and
sets of clients and descriptors; section 6 names the hypotheses.

Everything runs in a single thread. What makes it concurrent is that the kernel
and the peers act between any two system calls, and that the application is
called back in the middle of the library and may call the library again.

## 1. Inventory

| Component | State | Operations | Hard behaviour | What makes it correct | Modelled |
|---|---|---|---|---|---|
| send buffer `hs_sendbuff.c` | block, length, write and read offset | init, clear, write (all or nothing), send | partial sends; room comes back only when drained | nothing lost, doubled or reordered; a drained buffer is whole again; what is accepted is sent | yes |
| receive buffer `hs_recvbuff.c` | block, length, write and read offset | init, clear, writeto, data_handle | the handler uses part of its offer, or gives up the connection inside the call | the same for the other direction; used room is room | yes |
| connector `hs_net_connector.c` | state (5 values), socket, buffers, retry timer, callbacks | connect, reconnect, disconnect, write, run | asynchronous connect, refusals, retries, resets, re-entrant callbacks, reuse of the buffers and of descriptor numbers | no byte crosses connections; the application knows what it has; no live connection is forgotten; run closes only its own descriptor; retries are paced and happen | yes |
| acceptor `hs_net_acceptor.c` | listening socket, array of agents, callbacks | init, run, uninit | agents destroyed under the loop's index, descriptors and memory used again at once, clients at the limit, blocking sends | agents and connections one to one; each agent its turn; no crosstalk; the loop goes on | yes |
| agent `hs_net_agent.c` | socket, two buffers | new, write, close | close is called from six paths of the server and by the application | its buffers are freed once, and it is unknown to everybody then | yes |
| array `hs_array.c` | cells, number, capacity | push (doubles), get, delete, iterate | deletion under an index, empty array | a sequence | what the acceptor uses |
| epoll server `hs_net_server.c` | listening socket, epoll, hash map of agents, batch of events | run, process_event, close | edge triggering, events older than what happened since, reuse of descriptors in a batch | map, agents, descriptors and application agree; no event lost; no crosstalk; every client accepted, served and let go | all but accept and recv for single events |
| hash map `hs_hashmap.c` | buckets of 8 pairs | insert (rehash), find, delete, iterate | deletion followed by insertion, full bucket, iterator | a stack of values for each key | yes |
| ring buffer `hs_ringbuffer.c` | block, two offsets, full flag | can_write, write, can_read, read | wrap mark, two-byte length, full against empty, pointers into the block | a queue of messages | yes |
| list `hs_list.c` | nodes, head, tail, number | push, delete, iterate | deleting the head, the only node, during a walk | a sequence | planned |
| rc4 `hs_rc4.c` | permutation of 256 | init, crypt | signed key bytes | a permutation; decrypts what it encrypts | planned |
| odbc `hs_odbc.c` | three driver handles | connect, execute, fetch, disconnect | asynchronous execution, order of release | handles used while allocated | planned |
| others | | | | | no: see section 7 |

The connector and the agents own one send and one receive buffer each and call
them directly. The acceptor keeps its agents in an array, the server in a hash
map. All three call the application through `handle_conn`, `handle_data` and
`handle_disconn`, and the application calls `hs_net_connector_write`,
`hs_net_agent_write` and `hs_net_connector_disconnect` from its main loop or
from inside these callbacks. Connector and acceptor meet over TCP only.

`PROJECT.json` lists the hazards, each at its line, with the properties that
watch it, and the definitions with the lines they stand for.

## 2. Modules

| Module | Contents |
|---|---|
| `Memory` | `malloc`, `memcpy`, `memmove` on blocks of cells; a fresh cell holds `NoByte` |
| `SendBuff`, `RecvBuff` | the buffers as operators on the records of the source; no variables, so that every other module can hold any number of buffers |
| `BytePipe` | abstract specification: a bounded pipe that can be reset |
| `SendBuffStream`, `RecvBuffStream` | one buffer with its callers, as state machines with history variables for the streams on both sides; each refines `BytePipe` |
| `MCSendBuffStream`, `MCRecvBuffStream` | the same with bounded streams, for TLC |
| `BufferLemmas` | what copies into memory do to the window of a stream; what the operators of `SendBuff` and `RecvBuff` do to a buffer whose bytes are tags of connections; what `RemoveAt` leaves; the least free descriptor |
| `SendBuffProofs`, `RecvBuffProofs` | the theorems about the two buffers |
| `Connector` | the connector, its application, the kernel and the peer |
| `Array` | the array of pointers, as operators |
| `NetAgent` | an agent: a socket and its two buffers, as operators |
| `Acceptor`, `MCAcceptor` | the acceptor with its agents, the application, the kernel and the clients |
| `HashMap` | the hash map as operators on values of `struct hs_hashmap` |
| `KeyedStacks` | abstract specification: a stack of values for each key |
| `HashMapUse` | a program that uses one hash map in any way; refines `KeyedStacks` |
| `Server`, `MCServer` | the epoll server with its map of agents, the application, the kernel and the clients |
| `MessageQueue` | abstract specification: a queue of messages |
| `RingBuffer`, `MCRingBuffer` | the ring buffer, its writer and its reader; refines `MessageQueue` |
| `ConnectorProofs`, `AcceptorProofs`, `ServerProofs`, `HashMapProofs`, `RingBufferProofs` | the theorems about `Connector`, `Acceptor`, `Server` with its map, `HashMapUse` and `RingBuffer` |

Definitions keep the names of the source where there is one. `pc` says who has
control: the application between calls (`"app"`), the application inside a
callback (`"conn"`, `"handler"`, `"disconn"`), or the library at the next point
where another party could have acted. A path through `hs_net_connector_run` is
therefore one action from one system call or callback to the next, with
everything in between (the whole of `hs_net_connector_disconnect`, for example)
part of it.

Each module has a few *faulty variants*: definitions nothing uses, which stand
for mistakes that could be made in the code. Every property of every passing run
fails when one of them takes the place of the definition it belongs to.

## 3. What is modelled, and how

**Buffers.** A block is a function from `0 .. len-1` to bytes. `CanWrite`
follows the branches of `hs_sendbuff_write`, with the branch the source reports
as an error kept as "no room". `Sent` is what `hs_sendbuff_send` does when
`send()` has taken `s` bytes, `1 <= s <= CanSend`; failures leave the buffer as
it is. `send()` is called with three arguments, and no prototype is in scope, so
its flags are undefined: whatever they are it takes bytes or fails, which `Send`
allows for. With `MSG_OOB` in them a peer does not receive the last byte with
the others; the model ends where the kernel takes the bytes.
`Handled` takes the buffer *as the handler leaves it*, because a handler may
clear it, which is how `hs_recvbuff_data_handle` behaves when it is re-entered.
`printf` of buffer content and `buff_state`, which is never read, are left out.

**Connector.** `Init` is the zeroed structure of `hs_net_connector_init`, in
which the state is 0, that is `CONNECTING`, and the socket 0, that is the
standard input (`sock[0] = "foreign"`). `connect()` may be in progress, fail at
once, or succeed at once. A failed attempt that select() reports is either
refused, which the code treats apart, or failed otherwise. `recv()` may deliver
any part of what arrived, the end, an error or EAGAIN. `waited` is the time since
`reconnect_start_time`, saturated at `INTERVAL`. Bytes are tagged with the parity
of their connection, a history variable that changes (`Tag`) whenever the state
leaves `CONNECTED` and whenever the connector is disconnected, on whatever path
and whether or not the buffers are cleared there. `disconnect` closes the number
the structure holds, as the source does, also when that is the 0 of a connector
without a socket: the application may disconnect at any time and as often as it
likes, also after `run` returned -1 (`AppCloses`), and 0 may then be the
descriptor of the next connection. Assumptions about the application, those of
`test/connect_test.c`: it runs the connector only after connecting; it connects
only a connector that has no connection; the three callbacks are registered; the
disconnection callback does not disconnect; a handler that disconnected returns 0
or an error (`RecvBuffStream` covers the other case). `Fresh` is a connector
nobody has connected yet; `run` is not called for it. Which address is stored for
reconnecting is left out.

**Acceptor.** One run is `Listen` (at most one client accepted or turned away)
followed by one visit of every agent. `_agent_destroy` is one action up to the
disconnection callback; the deletion by index follows when the callback returns,
as in `hs_net_acceptor_run`. It also looks for a socket number among the agent
pointers (`WithoutSocket`): no pointer equals one, and the models say so because
agents and descriptors are different values. `live` and `heap` are the allocated
agents and their content. `known` is what the application has been told: it
forgets an agent when the callback names its socket. Accepted sockets block, so
`AgentSends` waits for room. Clients connect, send, read, close and reset at any
time, also before they are accepted. `accept()` may fail. Assumptions: callbacks
are registered and do not uninitialise the acceptor; descriptor 0 is never
accepted; `malloc()` succeeds; no agent has the address of a small number
(`AcceptorAssumption`), which is what keeps the look for a socket number among
the pointers from finding one. Both buffer lengths are constants of the model
(the source ignores the two lengths it is given and takes its defaults).

**Hash map.** A table is a function from `0 .. size-1` to buckets, a bucket
`NULL` or a function from slots to pairs, and `hm.size` is rounded up as in the
source. Cells of a new table are taken to be `NULL`: `hs_hashmap_init` does not
set them (`hs_hashmap.c:19`), so that with memory that was used before nothing
can be said. A full bucket sets `dangling`, because `_rehash` gives the larger
map to the parameter of `hs_hashmap_insert` and leaves the caller with the map
it freed. The iterator stays on the first slot, because `hs_hashmap_iter_next`
does not store how far it came; what it answers is "more", "none" or "crashes".
Keys are natural numbers, and `NULL` is no value, pair or bucket
(`HashMapUseAssumption`).
The abstract specification is not a function from keys to values: an insertion
takes the first free slot, so that after a deletion in front of a pair the same
key can be inserted once more, is then found with the newer value, and is found
with the older one again after the newer was deleted.

**Epoll server.** `WaitEvents` is the wait with everything up to the first
system call or callback of the batch; each further action goes from one of them
to the next, through `Process`, which looks up the agent of each event and skips
the events that have no effect any more. The kernel keeps the list of descriptors
with news (`ready`). An event puts a descriptor on it, a wait that reports the
descriptor takes it off, and the mask is that of the moment of the wait; a
descriptor is closed with `close()`, which takes it off too. `recv()` and
`send()` take all there is or all there is room for. `accept()` fails when no
descriptor is left or when its client has gone, and is interrupted when `Signals`
is set, as is `recv()`. `Walk` is all of `hs_net_server_close`, up to the point
where it returns, crashes, or repeats itself for ever. `hs_net_agent_close` frees
the buffers and never the struct, so that each close leaks one; `live` are the
agents whose buffers are allocated, and `AgentsAreConnections` does not count
structs. An `Agent` that was closed is used again here, to keep agents few, where
`malloc()` gives another address: the model has the behaviours of the code and
more. (`_agent_destroy` of the acceptor does free the struct.) Assumptions:
callbacks are registered; a handler closes other agents but not its own; the
disconnection callback only notes that the socket it names is gone; descriptors
stay below 8 for a bucket (`EachHasASlot`), which with 128 buckets means below
1024, the usual limit of a process; `malloc()` and `epoll_ctl()` succeed, so
that there are as many agents as there can be connections; `NULL` is no client,
agent, pair or bucket; descriptors and clients are finitely many
(`ServerAssumption`). The kernel walks its list from the oldest descriptor on
until the batch is full, and takes those with nothing to report from the list.

**Ring buffer.** `hs_ringbuffer_can_write` sets the wrap mark while it answers,
so `Marked` is part of every question and of every write, refused ones included.
`SignByte` is what `(c >> 8) & 0xff` makes of a signed `char`, and a limit below 2
is, as in the source, compared as a large unsigned number. `Base` scales a byte
down: 256 in the source, where lengths of 256 and more are the ones
`RingBufferLong` is about. `Read` returns an offset into the block (`lent`), as
the code returns a pointer. `unread` is a history variable, what was written and
neither read nor cleared, and is what the refinement maps to the queue of
`MessageQueue`. `Stored` is not kept beside the ring but computed from the block,
by reading until the reader is refused, or `Length` times, which no ring needs:
`StoredIsUnread` ties the block to what was written, so that a message that is
lost, or a full ring that is taken for an empty one, is a violation.

## 4. Runs

| Run | Bounds | What it shows |
|---|---|---|
| `SendBuffStream` | length 3, 2 bytes, messages up to 4, streams up to 7 | type, `NothingLost`, `EmptyIsAllFree`, refinement `IsAPipe`, liveness `AcceptedIsSent` |
| `RecvBuffStream` | see the cfg; streams of more than twice the length | type, `NothingLost`, `UsedRoomIsRoom`, refinement `IsAPipe` |
| `Connector` | 3 descriptors beside 0, receive buffer 2, send buffer 1, interval 2 | `NoStaleBytes`, `AppKnows`, `NoForgottenConnection`, `RunClosesItsOwn`, `AnnouncedIsEstablished`, `RetriesArePaced` |
| `ConnectorLive` | 2 descriptors beside 0, buffers of 1, all outcomes of connect() | `RetriesWhileDescriptorsLast`, `EndIsNoticedWithRoom` |
| `Acceptor` | 3 clients, 2 agents, 3 descriptors, buffers and kernel room of 1 | `AgentsAreConnections`, `EachHasItsTurn`, `KnownAreLive`, `NoCrossTalk`, `NothingIsLeft` |
| `AcceptorLive` | 2 clients, 2 agents, 2 descriptors; the application writes in the handler | `RunReturns`, `EndIsNoticed` |
| `HashMap` | 4 buckets of 3 slots, 4 keys of one bucket and one of another, 2 values | refinement `IsKeyedStacks` |
| `Server` | 3 clients, 2 agents, 2 descriptors, one bucket each, buffers and kernel room of 1, 1 byte sent; all callbacks write and close; signals | `TypeOK`, `AgentsAreConnections`, `NoCrossTalk` |
| `ServerLive` | 2 clients, 2 agents, 3 descriptors of one bucket, 2 bytes sent; the handler answers, the main loop closes; no signals | `NothingIsMissed`, `ClosedForCause`, `WaitingIsAccepted`, `EndIsNoticed`, `WrittenIsSent` |
| `RingBuffer` | length 10, messages of 0, 1, 3 and 5 bytes that are all 1 or all like the mark, bytes of 16 values | type, `StoredIsUnread`, `LentIsIntact`, `EmptyTakesHalf`, refinement `IsAQueue` |
| `ServerCloses` | as `Server` | violation: closing a server crashes or does not end |
| `RingBufferLong` | bytes of 4 values, so that a message of 4 bytes needs the second length byte | violation: a reader does not find what was written |

Why the bounds are enough to be interesting: buffers are filled, drained and
wrapped back to the start several times in the stream runs, with sends that end
inside, at the end of and between messages; the composed runs need only tell
"no room", "some", "all used", and take lengths of 1 or 2. Two or three
descriptors let a descriptor be used again while an older one is still open. In
`Acceptor` the third client comes while both agents exist (it is turned away) or
takes the descriptor and memory of one that left; two agents are the least for
which a deletion moves a neighbour under the loop's index. An interval of 2 tells
"too early" from "due". `InqBound` and `KernelRoom` bound what waits in the
kernel. The ring of 10 holds one large message or several small ones, is filled to the
last cell with and without a return to the start, and meets each length of the
room behind the last message, 0 and 1 included. In `HashMap` a bucket is
filled and lost, and holds the same key twice and three times, with a free slot
in front of, between and behind its pairs. In `Server` the third client finds no
descriptor and takes the server down, or takes one that a connection callback
closed in the same batch, whose event is then processed for it; a batch holds
two events, so that a third descriptor waits for the next. The descriptors of
`ServerLive` share one bucket. The send buffer of `ServerLive` has
one byte, so that its sends are whole: partial sends are the matter of
`SendBuffStream`. `MaxSends` bounds what
clients send over the connections they have, and starts again with a new
connection. Clients and agents are interchangeable:
`Acceptor` and `Server` use that symmetry, `AcceptorLive` and `ServerLive` do not.

These findings are not runs of their own.

* A callback that closes the agent of another client leaves that client's event
  in the batch, and a client accepted in between may get its descriptor number:
  the old event then closes the new connection. `ClosedForCause` is about
  applications that close agents between runs only; with `"conn"` in
  `ClosesFrom`, three clients and three descriptors it fails, and with `"handler"`
  or `"again"` when a batch has room for three events (`agent_size = 3`).
* While a client sends faster than it is read, `_recv_event` does not return
  (`hs_net_server.c:227`): the liveness of the server is that of clients that
  send a bounded number of bytes.
* A signal that interrupts `accept()` ends the loop of `_accept_event`, and the
  clients that wait have no further event until another one comes; one that
  interrupts `recv()` costs the connection. `NothingIsMissed` fails with
  `Signals = TRUE`. The comment at `hs_net_server.c:151` says that it was not
  seen with non-blocking sockets.
* Bytes that are written outside the data handler of their own agent wait for
  its next event, which may never come: `WrittenIsSent` is about answers.
* After `run` has failed it has closed the server; `test/server.c:43` closes it
  again, and with it the descriptor numbers it had.
* A data handler that disconnects a connector and then returns the number of
  bytes it used leaves the receive buffer with a negative write offset and more
  room than it has (`hs_recvbuff.c:116`): with other values than 0 in
  `ReturnsAfterClear` the type invariant of `RecvBuffStream` fails.
* A connector without reconnection whose `connect()` fails at once keeps its first
  state, 0, which is `CONNECTING`: the next run finds the unconnected socket
  writable and without error, and calls `handle_conn` (`hs_net_connector.c:109`).
  With `is_reconnect = FALSE` the property `AnnouncedIsEstablished` fails.
* The acceptor's test of the writable set is commented out
  (`hs_net_acceptor.c:233`): agents are sent to on blocking sockets, writable or
  not, so that a client that does not read stops the loop for all. Under
  `FairSpec` in place of `ReadersSpec` the property `RunReturns` fails.

And of the connector. With the outcome `"ok"` of `connect()`
the property `AppKnows` fails: `hs_net_connector_connect` goes to `CONNECTED` and
`handle_conn` is never called, so `Connector` has only the other two outcomes,
and `ConnectorLive` all three. When the connection the application asked for is
refused, the first retry follows at once, since `hs_net_connector.c:211` sets no
timer and the timer of a new connector is 0: `RetriesArePaced` counts the retries
of the loop only. A caller that takes the advice of `hs_net_connector.c:173` to
close after -1 closes descriptor 0, because on most paths `run` has closed already
and left 0 behind, and `disconnect` does not look: the invariant `pc = "failed" =>
sock[socket] # "foreign"` fails under `Connector.cfg`. One is outside the model: the address is copied without its terminator, so that after "10.0.0.10"
the address "10.0.0.2" is stored as "10.0.0.20" and reconnecting goes there.

Two properties of `ConnectorLive` state the exceptions the code has. A refused
socket stays open and is overwritten by the next attempt
(`hs_net_connector.c:211`), so that after enough refusals no descriptor is left
and the connector never connects again (`RetriesWhileDescriptorsLast`). And
with a full receive buffer `run` neither receives nor calls the handler again
(`hs_net_connector.c:240`; the acceptor does call it), so that the end of the
connection is never noticed (`EndIsNoticedWithRoom`). Without the exceptions
both fail.

An empty ring buffer stays where it is and may refuse for ever a message that
fits an empty block; `EmptyTakesHalf` says how much it is sure to take.

With `DisconnConnects = TRUE` the connection a disconnection callback makes is
lost when `run` overwrites the state (`hs_net_connector.c:254`):
`NoForgottenConnection` is about applications that do not connect there. If
`connect()` may also succeed at once, what was written for that connection goes
out on the next, and `NoStaleBytes` fails; it holds when either is excluded.

## 5. Fairness

* `SendBuffStream`: `WF(Send)`. The header asks for `hs_sendbuff_send` to be
  called in the main loop, so that there is room to write (`hs_sendbuff.h:44`), and a connection that stays up
  takes bytes again and again.
* `Connector`: weak fairness of `Run`, of callbacks returning, of time and of
  connection attempts ending, which TCP does with an answer or a timeout. None of
  the peer, and none of the application beyond its main loop.
* `Acceptor`: weak fairness of the run and of uninit, once started, and strong
  fairness of accepting, since `accept()` does not fail for ever.
  `ReadersSpec` adds that clients read what they are sent; without it
  `RunReturns` does not hold, because a send on a blocking socket waits.
  `EndIsNoticed` has the exception the code has: a handler that never uses
  anything leaves a full buffer that is not received into.
* `Server`: weak fairness of `Run` together with `RecvFails`, since the main loop
  of `test/server.c` calls run for ever and callbacks return, and clients read
  what they are sent. Nothing is assumed of what clients send, of when they end,
  or of errors. Connections that wait are accepted although `Accept` has no
  fairness of its own, because `_accept_event` goes on until there are none.

## 6. Proofs

TLAPS proves the following for every value of the constants: every number of
clients, agents and descriptors, every length of the buffers, every set of
messages. The assumptions are those the modules state (`...Assumption`) and the
hypotheses named here.

| Theorem | Module | States |
|---|---|---|
| `TypeCorrect` | `SendBuffProofs`, `RecvBuffProofs` | `[]TypeOK`: offsets stay inside the block, so no copy leaves it |
| `Conservation` | both | `[]NothingLost` |
| `DrainedIsWhole` | `SendBuffProofs` | `[]EmptyIsAllFree`: the error branch of `hs_sendbuff_write` is unreachable |
| `RoomComesBack` | `RecvBuffProofs` | `[]UsedRoomIsRoom` |
| `ImplementsPipe` | both | `IsAPipe`: every step is a step of `BytePipe` or a stutter |
| `TypeCorrect` | `ConnectorProofs` | `[]TypeOK` |
| `RunClosesWhatItOpened` | | `RunClosesItsOwn`, an action property |
| `InputIsCurrent` | | `[]NoStaleInput`, the half of `NoStaleBytes` about what the handler is offered |
| `BytesAreCurrent` | | `[]NoStaleBytes`, if the disconnection callback does not connect or `connect()` does not succeed at once |
| `AttemptsArePaced` | | `RetriesArePaced`, an action property: two retries of the loop |
| `NothingForgotten` | | `[]NoForgottenConnection`, if the disconnection callback does not connect |
| `AppIsTold` | | `[]AppKnows`, if `connect()` does not succeed at once |
| `AnnouncedConnections` | | `AnnouncedIsEstablished`, an action property, if the connector reconnects or `connect()` does not fail at once |
| `TypeCorrect` | `AcceptorProofs` | `[]TypeOK` |
| `AgentsMatchConnections` | | `[]AgentsAreConnections` |
| `EachIsServedOnce` | | `[]EachHasItsTurn` |
| `TheKnownLive`, `NoByteGoesAstray`, `EverythingIsReturned` | | `[]KnownAreLive`, `[]NoCrossTalk`, `[]NothingIsLeft` |
| `TypeCorrect` | `ServerProofs` | `[]TypeOK`: no bucket fills and no map is lost, no batch leaves its array |
| `AgentsMatchConnections` | | `[]AgentsAreConnections` |
| `NoByteGoesAstray` | | `[]NoCrossTalk` |
| `NothingGoesUnheard` | | `[]NothingIsMissed`, without signals |
| `ClosedWithCause` | | `ClosedForCause`, an action property, without signals, if the application closes agents between runs only |
| `TypeCorrect` | `HashMapProofs` | `[]TypeOK` |
| `ImplementsStacks` | | `IsKeyedStacks`: every call is a call of `KeyedStacks`, with the same answer |
| `TypeCorrect` | `RingBufferProofs` | `[]TypeOK` |
| `LentStaysIntact`, `HalfAlwaysFits` | | `[]LentIsIntact`, `[]EmptyTakesHalf` |
| `EveryReaderIsServed` | | `hs_ringbuffer_can_read` says yes exactly when something is unread |
| `UnreadIsFound` | | `[]StoredIsUnread`: reading on finds what was written and not yet read |
| `RingIsAQueue` | | `IsAQueue`: every step is a step of `MessageQueue` or a stutter |

Hypotheses. Those of `RecvBuffProofs` hold under `ReturnsAfterClear \subseteq
{0}`, without which the type invariant fails. The four conditional theorems of
`ConnectorProofs` exclude just the behaviours for which section 4 names a
counterexample. All of `RingBufferProofs` is under `ShortMessages`: a message
is shorter than `Base` bytes. `RingBufferLong` is the counterexample without it.
The theorems about the acceptor and the hash map have none, nor have the first
three about the server. `NothingGoesUnheard` and `ClosedWithCause` are about a server without
signals, the latter also about `ClosesFrom \subseteq {"app"}`: section 4 names
what happens otherwise, and `ServerLive` has the values that satisfy both.

**Buffers.** `NothingLost` equates sequences and is hard to carry over a copy into memory.
The inductive invariant `Inv` says the same cell by cell: `Window(in, out, block,
at, n)` holds when the stream in is n longer than the stream out and cell `at + i`
holds byte `Len(out) + i + 1` of the stream in. `BufferLemmas` shows what the
operations of `Memory` do to a window: a copy behind it extends it, taking a
prefix shrinks it, moving it keeps it, and a window gives back the equation of
sequences. Each action then has one lemma. `Inv` also says where the offsets can
be between calls: the write offset is behind the read offset or both are 0 (send
buffer), the read offset is 0 (receive buffer); without these the branch
"offsets met elsewhere" could not be excluded.

**Connector.** A byte is the tag of its connection here, so that no streams need
to be compared: `RecvHolds(b, len, p)` and `SendHolds(b, len, p)` of `BufferLemmas`
say that the offsets are where `Inv` of the buffers has them and that each cell
between them holds `p`. `InputOfOne` says it of the receive buffer and, while there
is a connection, of what the kernel has, for the parity of the present connection.
Every path that ends a connection must keep it although the parity changes there,
and does because it clears the buffers - but for the end of a connection that a
disconnection callback made, which `run` overwrites: there the receive buffer is
empty, which `InputOfOne` says too, and the send buffer may not be, which is why
the invariant of the latter (`OutputOfOne`) has a hypothesis. `OwnSocket` says that
the socket of a connected connector, and what `select()` left in its set, is the
library's; with it no `disconnect` inside `run` closes another descriptor, though
the application may have closed 0 and got it for a connection. With `waited <= sinceTry` the timer gives the distance of attempts. The
conditional properties each have an invariant of their own on top (`Forgets`,
`Knows`, `Attempted`). `Forgets` needs that the descriptor `connect` overwrites is
a dead one, and that inside the disconnection callback the connector is
disconnected.

**Acceptor.** `Inv` has three parts, each proved with the ones before. `InOrder`
is about the array and the loops over it: no agent is in it twice, the allocated
agents are those at certain places (`LivePlaces`: all of them; all but the one at
the index while its disconnection callback runs; those behind the index during
uninit), and the agents in front of the index had one turn, the others none. That
deleting under the index keeps this is a lemma about `RemoveAt`. `Paired` makes
agents, open descriptors, connected clients and what the application was told
correspond one to one, with waiting clients on no descriptor. `Tagged` gives
every buffer and every byte in the kernel to the client at the other end.

**Epoll server.** The first part of `ServerProofs` is about the map: after an
insertion `hs_hashmap_find` returns the new agent for its descriptor and what it
returned before for any other (`Inserted`), after a deletion nothing (`Deleted`),
and what the iterator stands on is in the map (`FirstIsFound`). That an
insertion finds a slot is a pigeonhole: the pairs of a bucket have different keys
with one remainder, and `EachHasASlot` says there are no more of these than slots
(`HasAPlace`). The rest uses the map through these lemmas only. That `malloc()`
has an agent left is a second one, over agents, descriptors and clients
(`AnAgentIsFree`). `Inv` has five parts. `Mapped`: the map gives each open descriptor
an allocated agent with that socket, and closed ones none. `Paired`: each client
is at one descriptor or at one place in the queue, and the application knows the
allocated agents. `Tagged`: buffers and bytes belong to the client at the other
end. `Waiting`: the list of the kernel names open descriptors, once each.
`InBatch`: while an event is processed its agent is the one the map has, whatever
callbacks closed in between. The events still to come may name descriptors
that are closed or belong to somebody else by then, and nothing needs to be said
about them: the agent is looked up when their turn comes.

For `NothingIsMissed` the invariant `Heard` says where news is while a batch is
processed: on the list of the kernel or in the part of the batch that is still
to come (`Due`), with the event at hand counting until `recv()` has answered
EAGAIN or the buffer is full, or until `accept()` has. `Enumerated` and
`BatchTaken` show that a wait moves news from the list to the batch and drops
none, also when the batch is smaller than the list; `SkippedIsNotDue` shows that
events `Process` passes over had nothing to say; `OneEach` and
`CloseDisturbsNoOther` keep the news of the others when an agent is closed.

`ClosedForCause` needs the converse, that what an event of the batch says is still
so when its turn comes. This is about applications that do not close agents during
a batch; with the others a stale event may close the connection of a later owner
of its descriptor, and the theorem says nothing. `Grounded` says that no two events name one descriptor
(`OneEventEach`), that each names one that is open, whose client has ended if
the event said so (`Stands`), and that has room if the event said so
(`HasRoom`). The last is lost for the event at hand once it was sent for, hence the
index in `Grounds`. It is inductive because only the event at hand has its
connection closed (other closings come when the batch is empty), because a
descriptor accept takes was free and so named by none, and because clients do not
take back an end or take away room.

**Hash map.** `HashMapProofs` is about a program that inserts as it likes, so a key
may be several times in its bucket, and buckets of any size fill up; the
invariant is only that each pair lies in the bucket of its key (`MapOK`). What has
to be shown is what the refinement mapping makes of it. `Under` lists the values
of a key in the order of their slots, which is their order by rank
(`RankGrows`, `PlaceIs`). The scan of `hs_hashmap_insert` stops in front of every
pair of its key, and a slot in front of all others becomes the first place and
moves the others by one (`PlacesBehind`), so the value lies on top (`Pushed`);
`_hashmap_get` takes the first pair, and deleting it uncovers the next (`Popped`).
Neither disturbs the order under another key. In a full bucket without the
key each slot is exactly one place in one stack of the group (`FullBucket`), which
is when `KeyedStacks` allows the map to be lost. `ServerProofs` has lemmas of
its own about the map, because the server never inserts a key twice and then
needs to know more: that the map is a function, and no bucket ever full.

**Ring buffer.** `Layout` says where the unread messages lie
in the block. Either they are chained, frame behind frame, from the read to the
write offset (`Straight`), or from the read offset to a cell with the mark and
from the start of the block to the write offset (`Wrapped`), and only then can
the ring be full. `ChainGrows` and `ChainShrinks` say what a write behind and a
read in front do to a chain, `OldestIsRead` and `NewestIsWritten` what they do to
the layout. `Lent` says that what a reader was lent lies in front of the read
offset, where only a write that succeeds puts anything.
That `Stored` is `unread` then takes two inductions, which are arguments about
the least number that fails (`LeastOf`) because the prover cannot use the
library's: there is a function as `AtMost` is defined (`AtMostExists`), and reading
on empties every layout (`AllAreRead`), in at most `Length` reads, since a
chain takes a cell for each message (`LaidFits`).

Only model-checked: the liveness properties (`AcceptedIsSent`,
`RetriesWhileDescriptorsLast`, `EndIsNoticedWithRoom`, `RunReturns`,
`EndIsNoticed`, `WaitingIsAccepted`, `WrittenIsSent`), because liveness under
fairness is beyond this prover, as is ENABLED. And the two violations, which are
counterexamples.

## 7. Not modelled

`hs_ringbuffer2.c`, `hs_continuousbuffer.c` and `hs_net_channel.c` are unfinished
(in no Makefile, or not compilable); `hs_db` and `hs_log.h` are empty;
`hs_net_util.c` is one `fcntl()` call whose effect is in the models;
`server_test.c` is an example that does not use the library.
`hs_net_server_accept` and `hs_net_server_recv` are a second way through a batch
that nothing uses: it neither sends, nor closes, nor sees that a client has left.
`hs_list.c`, `hs_rc4.c`, `hs_odbc.c` and the operations of `hs_array.c` the
acceptor does not use are planned (section 8). Failures of
`malloc()`, `bind()` and `listen()`, descriptors above the size of an `fd_set`,
`SIGPIPE`, a clock that goes backwards and NULL arguments are left out.

## 8. Plan

1. `hs_net_server_accept` and `hs_net_server_recv`, and the rest of `Array`
   (`find_first`, `delete_elems`, the iterator).
2. `List`, `RC4` over a small modulus, and `ODBC` with the driver external, for
   which the containers and the server leave little room among the runs.
3. `Link`: a connector and an acceptor over two byte streams, end to end.
