# Formal model of the exchange simulator

TLA+ modules, TLC configurations and TLAPS proofs for the exchange server in
`src/`. The code is the reference: each definition is a translation of the
lines that `PROJECT.json` gives for it.

## The system

The server has four kinds of threads and three shared structures.

| Part | State | Operations | Talks to |
|---|---|---|---|
| Accept thread, login threads (`thread_accept.cpp`, `tcp_server.cpp`) | the listening socket; one detached thread per connection | accept; read login, answer, register session, make socket non-blocking, register with epoll | session manager, epoll |
| Epoll thread (`thread_epoll.cpp`, `epoll_mgr.cpp`), the main thread | epoll interest list; receive buffer of each session | read all data, frame it, push raw messages; on disconnect drop session and descriptor | session manager, SPSC queue |
| Session manager (`session_manager.hpp`) | `sessions` (fd to session), `traderToFd` | `add`, `remove`, `getSession`, `getTraderId`, `getFd`, `getAllFds`, each under one mutex | login, epoll and matching threads |
| SPSC queue (`spsc_queue.hpp`) | `head_`, `tail_`, `buffer_` | `try_push`, `try_pop`, `push`, `pop`, observers | epoll thread to matching thread |
| Matching thread (`thread_matching.cpp`) | the engine, vectors of confirmations and updates | pop, parse, dispatch, send confirmations, multicast updates, update market state | queue, engine, session manager, market state |
| Matching engine (`matching_engine.*`) | one book per symbol, `nextOrderId` | `onOrder`, `onCancel`, `onModify` | order books |
| Order book (`order_book.*`, `price_level.hpp`) | `bids`, `asks`, `orderMap`, `orderDetails` | `addOrder` with `matchAgainst`, `cancelOrder`, `modifyOrder` | |
| Market state, GUI thread (`market_state.hpp`, `thread_gui.cpp`) | one row per instrument | `update`, `get`, `snapshot` under a mutex | matching thread to terminal |
| Start-up and shutdown (`main.cpp`) | `gRunning` | start threads, signal handler, joins | all threads |
| Client (`client/src/main.cpp`) | map from internal to exchange order ids | terminal commands, receive thread | server over TCP |

What is hard to test here: the order of calls on a book (three containers and
a running total that every operation has to keep in step), the lock-free
queue, the interleaving of login, epoll and matching threads around
descriptors that the kernel hands out again, edge-triggered notification, and
back-pressure. `PROJECT.json` lists these hazards line by line with the
properties that watch over them.

What makes each part correct:

- *order book*: containers agree; price, then time priority; trades inside
  both limits and never with oneself; an order rests only when nothing crosses
  it; only its owner moves an order; every change is reported; calls return;
- *engine*: order ids are unique; requests are answered;
- *queue*: no data race; a bounded FIFO; neither side waits for ever;
- *sessions*: a session belongs to the connection that has its descriptor now;
  requests enter the queue in order, complete and under the right trader;
  confirmations reach their trader and nobody else; no descriptor leaks;
- *framing*: whatever the network does to the stream, the queue gets the
  messages that were sent, whole and all of them;
- *market state*: the rows show the books as they are between two requests;
- *client*: a modify or cancel names the order the user means; it can be left;
- *shutdown*: a signal ends the server.

## Modules

| Module | Models | Checked by |
|---|---|---|
| `OrderBook` | price level and order book as a record and operators | through `MatchingEngine` |
| `MatchingEngine` | engine as a state machine | `engine`, `market_state`, `trade_totals` |
| `MarketDataReplay` | `MatchingEngine` with a subscriber and traders that follow the messages | `engine` |
| `MarketState` | `MatchingEngine` with the rows of the market state and their refresh | `market_state` |
| `BoundedFifo` | what a queue promises | refined by `SPSCQueue` |
| `SPSCQueue` | ring buffer, load by load and store by store | `spsc_queue` |
| `Gateway` | kernel, clients, accept, login, session manager, epoll thread | `gateway`, `double_login`, `last_frames` |
| `Delivery` | `Gateway` composed with the matching thread as a sender | `delivery`, `private_confirms` |
| `Framing` | the byte stream of one connection, login read and framing loop | `framing` |
| `Client` | both threads of the client, the wire conversions, a server that routes by trader and may lose or cut messages | `client` |
| `Lifecycle` | the server's threads, their flags, signal and joins | `shutdown` |
| `OrderBookProofs`, `MatchingEngineProofs` | lemmas and theorems about the books and the engine | TLAPS |
| `ObserverProofs` | theorems about `MarketState` and `MarketDataReplay` | TLAPS |
| `SPSCQueueProofs`, `FramingProofs`, `GatewayProofs`, `DeliveryProofs`, `ClientProofs` | theorems about the module each is named after | TLAPS |

`MC*.tla` only extend the module they check; the constants are in the `.cfg`
files. Operators named `F_Fault` are faulty variants of `F`, used to show that
each property can fail (`mutants` in `PROJECT.json`).

### Order book and engine

A book is a record with both level maps, `orderMap` and `orderDetails`. A
`BookElement*` is represented by the order's id, since an element belongs to
one order and ids are not reused: an id in a level without an entry in
`orderMap` is a dangling pointer. `Quantity` arithmetic wraps (`% QtyMod`).
`onCancel` and `onModify` are one step; `onOrder` accepts the order, then each
iteration of the inner loop of `matchAgainst` is a step, then the rest is put
into the book. The two template instances (buy, sell) are one operator with the
side as argument. Timestamps, client order ids and the symbol inside a report
are left out, as no property tells them apart.

### Market state

`publish` is the end of an iteration of the matching thread
(`thread_matching.cpp:130-150`): read the row, apply the trades among the
confirmations in order, then the best prices and quantities of the engine, and
write it back. It is one step because the matching thread is the only writer;
`pending` keeps the next request from starting before it. The rows are what
`snapshot` returns. `traded` records, independently of the confirmations, what
changed hands.

### Queue

`try_push` and `try_pop` are three steps each: the test, the copy, the release
store. An acquire load may return an old value; `tailSeen` and `headSeen` are
what has reached the other thread and follow the atomics store by store. The
refinement maps `items` to the slots from `tail_` to `head_`, `taken` to the
last popped item and `Slots` to `capacity()`.

### Gateway and delivery

Each system call and each section under the mutex is a step. The kernel is
external: lowest free descriptor, one report per arrival on a watched
descriptor (also for what had arrived when it was added), descriptors leave
epoll when closed. Clients connect, send, close in good order or reset at any
moment, under any trader id, also the same one twice. The stream is in units of
whole messages. `frame_freed` is the loop over the erased session
(`thread_epoll.cpp:42`), undefined behaviour in C++: the memory may be intact,
the loop may push what it finds there, or end at once. What it finds in memory
that is no longer intact is one message that counts as no client's, whatever
its bytes, under any trader id; `RequestsInOrder` does not judge it, and
`last_frames` is the run about that path.

`login_watch_fails` is the failure of `EPOLL_CTL_ADD`, which `EpollMgr::add`
only logs. The session stays (`"unwatched"`), and nobody reads from its
connection or closes its descriptor; `RequestsArrive` and
`DescriptorsReleased` except such connections and hold for all others.

In `Delivery` the answers of the engine are any of: none, one to the sender,
one to the sender and one to another trader, with or without a market update.
A lookup records which connection had the descriptor at that moment (`out`); a
send reaches the connection that has the descriptor when it happens, or nobody.

### Framing

A byte is its offset in the stream, so that a message is an interval and
"whole" means that the interval pushed is one the client sent. `arrive` lets
any non-empty part of what is outstanding reach the server. `login_recv` is the
single read of the login handler, which drops the connection when it gets less
than a whole request. Where no message starts at the front of the buffer, the
header could say anything (`HeaderLengths`); `WholeMessages` shows that this
never happens. Lengths below that of a header are not sent: no struct of
`protocol.hpp` has one.

### Client

The main thread's loop is split at the loop test, `getline`, and `send`, the
receive thread's at the loop test and `recv`. A terminal line is the request it
stands for. The server side is the matching thread as far as this client can
tell: it issues ids, answers as `Answers` says, and its unchecked `send` may
deliver, lose or cut a message.

Confirmations are routed by trader, as in `thread_matching.cpp:89`: `route` is
the entry of `traderToFd` for the client's trader, set by every login
(`login_add`, `rival_login`) and erased when any session of the trader is
removed (`rival_leave`, `server_close`). The *rival* is another session of the
trader, there before the client or not, with internal ids of its own. In one
kind of initial state the matching thread has looked up the descriptor for the
connection that had it before (`StaleLookup`), the race of `private_confirms`.
Hence a client may be sent, and enters into its map, ids of orders it did not
enter. `MapOwned` says when: only if another session of its trader was
registered before it, or a stale lookup brings a confirmation of another
connection; never those of a session that logs in later, which takes the route
away.

After a cut the client reads its stream out of
step, and what it enters into its map is arbitrary (`StrayId`); the same goes
for a body that the end of the connection interrupts, which `recvThreadFunc`
uses as if it were complete.

### Lifecycle

One variable for each flag (`gRunning`, `EpollMgr::running`,
`TcpServer::running`) and where each thread is in its loop. The raw queue is a
counter, because the main thread can block in `push` once nobody pops.

## Runs

Passing runs:

- `engine` — one symbol, two traders, two prices, three new orders,
  quantities that allow partial fills, any cancels and modifies between them.
  Three orders give queues of two against an incoming order, which is what
  time priority, best price and self-trade prevention need. Checks types,
  consistency of the containers at every iteration, `NoQueueJump`,
  `BestExecution`, `RestsUncrossed`, `MatchProgress`; which operations keep the
  total of a level (`TotalsKept`) and that an order left in place never grows
  beyond what it was entered with (`OpenWithinEntered`); and that the messages
  alone determine the books (`MdReplayExact`) and each trader's open quantities
  (`OwnerViewExact`). Orders of quantity 0 would take the run past its time;
  for them there are the theorems, which do not restrict `Qtys` (`Progress`).
- `market_state` — the same bounds with two listed symbols and an unlisted one,
  up to the published row: `RowsCurrent`, `LastTradeShown`, `VolumeTwice`
  (modulo 3, so that it wraps), `IdsUnique`, `OwnersOnly`.
- `spsc_queue` — four slots and two values: the indices wrap many times, the
  queue is full and empty, views lag by up to the whole contents.
- `gateway` — two connections, two trader ids, two descriptors, two messages
  each. Two connections are enough for one descriptor to be used again and for
  one trader to be logged in twice.
- `delivery` — all threads together, two connections that follow one another
  on one descriptor, and a queue of one slot: a message being answered, one in
  the queue and one that the epoll thread cannot push are enough for
  back-pressure, one descriptor used twice for a lookup that goes stale.
  `LookupCurrent`, `PushesReturn`, `RequestsArrive`, `DescriptorsReleased`.
  (Two descriptors at once are in `private_confirms`.)
- `framing` — header 2, login 3, requests of 2 to 5 bytes with a limit of 4 and
  reads of at most 4: a header alone, the limit itself, one byte more, a read
  shorter than what is there; three requests, so that one read can end inside
  the second after the first.
- `client` — one internal id, two orders, one message in flight each way and
  one rival: the id can be used twice by the client, or once by the client and
  once by the rival or the connection before it, with the route going from one
  to the other in between; or another trader's order takes one of the exchange
  ids. The id is 0, which is no exchange id. Several internal ids are left to
  the theorems. `MapOwned`, `MapCurrent`, `Exits`.

Deadlock is checked except where the system may really stop: in `Gateway` and
`Delivery` the server waits for clients that may all have left, in `Framing`
for a client that has sent everything, and the `Client` exits.

Violation runs, each a disagreement between the code and what the repository
says (`findings` in `PROJECT.json` quotes it):

| Run | What the code does |
|---|---|
| `trade_totals` | a filled order leaves its last fill in the total of its level |
| `double_login` | closing the older of two sessions of a trader cuts off the newer one |
| `last_frames` | what arrives together with the end of the stream is framed from freed memory |
| `private_confirms` | a confirmation can go to the client that got the descriptor after the lookup |
| `shutdown` | a signal stops the matching and GUI threads, and main never leaves the epoll loop |

Seen while modelling, without a run of their own:

- a modify to a crossing price rests without matching (`order_book.cpp:231`),
  so that the book stays crossed, although `order_book.hpp:23` speaks of
  "cancel + re-insert";
- after a partial fill an order can be made larger than what is open and keep
  its place, since `orderDetails.quantity` is not reduced by trades
  (`order_book.cpp:213`); `OpenWithinEntered` gives the limit;
- a modify in place does not move the total of its level
  (`order_book.cpp:215`; `TotalsKept` exempts it);
- a modify to quantity 0 leaves the order in the book, and meeting it is
  reported, and shown, as a trade of quantity 0;
- a request on an unlisted symbol is not answered (`matching_engine.cpp:14`)
  and a quantity of zero is accepted, although `RejectReason` has values for
  both (`types.hpp:55`, `types.hpp:57`);
- the volume shown counts every trade twice (`VolumeTwice`);
- of two sessions of a trader, the one that logged in last gets all the
  acknowledgements (`session_manager.hpp:22`, `thread_matching.cpp:89`). The
  older one cannot resolve its new orders; the newer one enters the older
  one's under the internal ids of that session (`client/src/main.cpp:137`), so
  that its cancel may name an order it never entered, and the check of the
  owner (`order_book.cpp:157`) accepts it, as the trader is the same;
- when `EPOLL_CTL_ADD` fails (`epoll_mgr.cpp:27-29`), the session stays
  registered, its requests are never read and its descriptor never closed;
- `types.hpp:8` says that prices are `int64_t` fixed-point, they are `uint32_t`.

## Fairness

- `SPSCQueue!FairSpec`: both threads keep running (they spin), and a store
  becomes visible to the other thread in finite time. Nothing obliges the
  epoll thread to push.
- `Delivery!DeliveryFairSpec`: the epoll thread, the matching thread, accept
  and each login thread keep running. Clients are free. The matching thread's
  `send` is taken not to block; between `sessions.add` and `setNonBlocking`
  (`thread_accept.cpp:40-43`) it could, if the client's socket were already
  full, which would take more unread updates than that window lets in.
- `Framing!FairSpec`: the network delivers what was sent; login and epoll
  threads run.
- `Client!ClientFairSpec`: both threads of the client run, and the server's
  matching thread. The user need not type anything, the server need not close.
- `Lifecycle!LifeFairSpec`: every thread keeps running and clients keep
  connecting, so that `accept` returns; the counterexample of `shutdown` is not
  a thread that merely stops.

## Proofs

Assumptions on constants: `MaxPrice` is a natural number, `QtyMod` one above 1,
`Symbols` a subset of `AllSymbols`, `Qtys` of `Quantity`, `MaxOrders` a natural
number; listed symbols are below `MAX_INSTRUMENTS` (`market_state.hpp` indexes an
array by them); `Capacity` at least 2 (`spsc_queue.hpp:15`); descriptors are
natural numbers and the queue has a slot (`Gateway`); a message is at least as
long as a header and a read asks for at least one byte (`Framing`); internal
ids are natural numbers, zero among them, and a message fits on the wire
(`Client`). Numbers of traders, symbols, orders, connections,
descriptors and messages are arbitrary.

- *Engine.* The inductive invariant `IInv` is types, `BooksConsistent` and
  `IdsUnique` together: resting an order keeps a book consistent only when its
  id is new, and the types of what a step reports need the order first in line
  to exist. `OrderBookProofs` shows for each operation that it maps a sound
  book to a sound one; the core is `StoreKeepsInv`, that a book which differs
  in one level is sound if that level's queue holds what the details place
  there. From `IInv` follow `TypeCorrect`, `Consistency`, `UniqueIds`, and the
  action properties `Progress`, `NoMissedTrade`, `TradesAtBest` (the order
  `matchAgainst` looks at is first in line at the best price) and
  `PriorityKept` (each operation keeps the relation "before" of a level's
  queue, but for the order that the owner modifies). `NeverAboveEntered` adds
  `OpenWithinEntered` itself to `IInv`. `TotalsStayKept` compares `mTotalQty`,
  which wraps, with the sum over a level's queue: what appending an order and
  taking one out of the middle does to the sum (`SumAppend`, `SumRemove`) is
  shown by the least position at which two tables of partial sums differ, and
  `ModAdd` carries it over to the wrapped total.
- *Market state.* `RowsCurrent` is about the best prices; the quantities shown
  are those of `mTotalQty` and go wrong with it (`trade_totals`).
  `RowsCurrent`, `VolumeTwice` and `LastTradeShown` only speak of the time
  between two requests. `MInv` says what holds in between: rows of
  symbols without a pending request are settled, and the row of the pending
  one *would* show what was traded if the confirmations reported so far were
  applied to it. `ApplyTrades` is a loop over a vector; what it does to a
  longer vector (`ApplyTradesAppend`) is shown by the least index at which two
  runs of the loop differ. The volume is a sum modulo `QtyMod`, hence
  `ModAdd`. `OwnersAlone` is an action property from `IInv`.
- *Replay.* Both views are compared with `Live`, the set of open orders of all
  books together with the one being matched, and every step with what it does
  to that set: an order is dropped, or takes the place of the one with its id
  (`Drop`, `Renew`). `VInv` is `IInv` and that both views show `Live`. A trade
  renews two orders with two messages, and the step in which the order being
  matched comes to rest sends none, which is why the views must be exact in
  the middle of a request too. Results: `MdReplayIsExact`, `OwnerViewIsExact`.
- *Queue.* `QInv` adds to the types that the distances from `tailSeen` over
  `tail_` and `headSeen` to `head_` add up to at most `Capacity - 1`
  (`ViewsOrdered`), that a producer past its test has room and a consumer past
  its test an item (neither follows from the current indices alone, since the
  tests used old ones), and that the slots in use hold items. `StepSimulation`
  shows that each step keeps it and is a `Push`, a `Pop` or a stutter of
  `BoundedFifo`; hence `QueueTypes`, `ViewsStayOrdered`, `RaceFree` and
  `FifoImplemented`.
- *Gateway.* `SInv` is types, `SessionsCurrent` and where every descriptor is:
  which connections, login threads and callbacks hold one, that a descriptor
  open on the server belongs to one connection, and that no session is left
  when the descriptor is closed. `RInv` adds, for each connection, how many of
  its messages were read, framed and pushed, with the state of the data
  callback that is running, the one that reads an erased session included:
  the buffer goes on where the queue ends (`Continues`). `RequestsInOrder` is
  part of it and `NothingLost` a consequence.
- *Delivery.* `DInv` adds to `SInv` what the matching thread has looked up. The
  steps of the gateway keep it because a connection's trader never changes
  once its login is read.
- *Framing.* `FInv` is the three properties and what they rest on: the front of
  the buffer is where a message ends and never inside one, so that the header
  read there is the next message's; what was pushed lies before it; nothing is
  read before the login is done. It holds for every set of message lengths.
- *Client.* `CInv` follows an order from the server to the map: ids are issued
  once, a stream without a cut carries the acknowledgements with growing ids,
  the map is behind the stream and the stream behind what is to be sent, and
  as long as nothing is lost each order is in the map or on its way there.
  `Routed` ties the route to the logins: if no rival was registered before the
  client, the route leads to the client only while no rival has logged in, so
  that every acknowledgement on the stream was entered (`Entered`) by the
  client itself. `MapOwned` and `MapCurrent` are consequences.

Only model-checked: liveness (`PushReturns`, `ItemsDelivered`,
`RequestsArrive`, `DescriptorsReleased`, `PushesReturn`, `AllFramed`, `Exits`),
which is outside the prover. The five violations are counterexamples and need
no proof.

Some definitions have their form because of the proofs: `ApplyTrades`,
`ReplayMd`, `ReplayConfirms` and `LevelSum` are recursive functions over the
positions of a vector, and `RequestsInOrder` and `NothingLost` speak of positions of the
queue (`From`) and not of a filtered sequence.

## Not modelled

Formatting, parsing of terminal lines and logging; socket options; packing and
byte order of the wire structs; `getTraderId` and `Timestamp`, which nothing
reads; the text the GUI prints. Header lengths below that of a header (see
`Framing`). `MAX_CLIENTS` is declared (`types.hpp:31`) and not used by the code.

## Plan

Done: every component in the table above; all invariants and all action
properties of the passing runs, and the refinement of the queue, are proved.

Next: `RequestsInOrder` and `NothingLost` for the composition in `Delivery`.
