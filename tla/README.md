# A verification project for the COMP 429 network programs

The repository holds three programs of a course on computer networks:

* `project1` - a TCP ping-pong server and client; the server has a www mode;
* `project2` - `sendfile` and `recvfile`, a reliable file transfer over UDP;
* `project3` - a distance-vector router that runs in a network simulator.

This directory models them in TLA+, checks the models with TLC on small
instances, and proves the main results with TLAPS for every value of the
constants. Of the three the file transfer makes the strongest promise
(`project2/README.txt:1`: "data is delivered in order, without duplicates,
missing data, or errors"): it is modelled in most detail and proved furthest.

## Inventory

### project2, the file transfer

| part | state | operations |
|---|---|---|
| sequence space (`util.h`) | none | `between`, `map_to_window`, `mod` |
| `sendfile.c` | `la_seq`, `i`, `alarm_list[].is_set`, the queue `root`, `packet_id`, `last_window`, `last_ack_time`, `timeout` | send the file name until it is acknowledged; `check_timeout`; take an acknowledgement and slide; pass over the window: read and send, send again |
| `recvfile.c` | `la_seq`, `received[]`, `last_id`, the queue `root`, the file, `ready_exit`, `last_window` | take the file name, open the file; take a packet: stale, ignored or accepted, write the run it completes and slide; acknowledge every turn; 400 acknowledgements after the file is closed |
| queue (`fix_queue.h`) | a linked list | `Enqueue`, `Dequeue`, `GetK` |
| CRC-16 (`crc16.h`) | none | `calc_crc16` |

The two programs share nothing but two directions of UDP datagrams. What is
hard: 16 sequence numbers are reused for ever while packets and
acknowledgements are lost, doubled, delayed and reordered; the window, the alarm
table and the queue of `sendfile` are three structures that must stay aligned;
`recvfile` has a flag per sequence number and a reassembly queue that must; a
reordered acknowledgement is told from a new one by a clock of 32 bits only; and
the end of the file has to be recognised on both sides, among numbers that
wrap. Correct means: the file is a prefix of what was sent at any time, nothing
is forgotten before it is written, completion is reported only when all is
written, and over a path that is not cut off for ever the file is completed and
both programs end.

### project3, the router and its simulator

| part | state | operations |
|---|---|---|
| `RoutingProtocolImpl.cc` | `ports`, `direct_neighbors`, `dv_map`, `forwarding_table` | `init`, alarms: ping (10 s), refresh (1 s), update (30 s); `recv` |
| `PingPongImpl.cc` | the same | answer a PING; on a PONG measure the link, repair the table, announce changes |
| `DVImpl.cc` | the same | `recvDV`, `sendDVUpdate`, `updateDVTable` |
| `FwdDataImpl.cc` | the same | forward a DATA packet |
| `Simulator::init` | the tables of nodes and links, `link_vector`, `stop_time` | read the sections `nodes`, `links`, `events` of the configuration file |
| `Simulator::run`, `Event` | `event_q`, `global_time` | dispatch the top event, pop it, stop |
| `Link`, `Node` | `is_alive`, `delay`, `loss_prob`, the ports | delay or lose a packet; die, come up, change the delay |

Hard: four tables that must agree after every handler, expiry racing late PONGs,
DV packets that arrive before the first PONG, costs that are 32 bits wide in a
cell and 16 in a packet, and count-to-infinity. Correct means: the forwarding
table is `dv_map` with the costs left out, every next hop is a direct neighbour,
no router routes to itself, and routes converge when links stop changing. In the
simulator, `run` dispatches the top of a heap and pops afterwards, so what a handler
pushes must never take the place of the top; alarms keep themselves going; and the
file is read by code that trusts its order and its names.

### project1, ping-pong and web server

| part | state | operations |
|---|---|---|
| `server.c`, `util.c` | a list of nodes: `buffer`, `added_pos`, `len_buffer`, `pending_data` | a `select` loop: accept and `add`, `serverSending`, `serverRecieving`, `dump` |
| `client.c` | `cnt`, `num_tests` | send a message, receive it back, `count` times |
| `web.c` | the request, the file | read one request, decide, answer it in parts, close |
| `name_addr.c` | none | one DNS query |

Hard: TCP may send and receive any part of a message; one position serves reading
and writing; a node is freed in the middle of a turn of the loop; in www mode the
one thread blocks on a browser, and looks at the file three times. Correct means:
a client gets its own message back, whole, every time; the list holds exactly the
connected clients; no client is starved, and a client that goes away harms no other;
a browser gets one whole answer, the one its request is due, "either the error message or
file content" (`README.txt:31`).

## Modules

```
SeqSpace  <-  UdpChannel  <-  SendFile, RecvFile  <-  FileTransfer  <-  FileTransferProofs
    ^------------------------  SeqSpaceProofs  <-----------------------------'
ReliableTransfer  <- (INSTANCE, refinement)  FileTransfer

FixQueue, Crc16, SeqSpace  <-  AckPath  <-  MCAckPath
AckChannel  <- (INSTANCE, refinement)  AckPath  <-  AckPathProofs  ->  SeqSpaceProofs

LinkLayer  <-  Router  <-  DvNetwork  <-  MCDvNetwork
                               ^-------  DvNetworkProofs  <-  DvPacketsProofs  <-  DvRoutesProofs
EventQueue  <-  ConfigFile  <-  Simulation  <-  MCSimulation
                                    ^-------  SimulationProofs

TcpPath  <-  PingClient  <-  PingServer  <-  WebServer  <-  PingPong  <-  MCPingPong
                                                            ^-------  PingPongProofs
```

### The file transfer

| module | models |
|---|---|
| `SeqSpace` | `util.h`: the window and sequence lengths as CONSTANTS (8 and 16 in the code), `between`, `map_to_window`, `mod` with C's remainder |
| `UdpChannel` | the path. `data_net` is a set of packets, each of which may be received again and again or never; `ack_net` the acknowledgements `sendfile` can still use |
| `SendFile` | `sendfile.c`. One step is one `recvfrom` with `check_timeout` before it and all the code does about its result, or one turn of the `for` loop over the window |
| `RecvFile` | `recvfile.c`. One step is one turn of its loops, with the acknowledgement that ends it |
| `FileTransfer` | both programs, their safety and liveness properties |
| `ReliableTransfer` | what the transfer promises, without packets, windows or numbers |
| `FixQueue` | `fix_queue.h`, down to nodes that are allocated and freed |
| `Crc16` | `crc16.h`, bit by bit, and what damage to an acknowledgement its checksum lets pass |
| `AckPath` | the acknowledgements alone, with timestamps, checksum and list: what `FileTransfer` takes for granted of them |
| `AckChannel` | the channel that `UdpChannel` gives to `FileTransfer`, which `AckPath` implements |
| `SeqSpaceProofs`, `FileTransferProofs`, `AckPathProofs` | the theorems |

How the state corresponds: `s_la`, `s_i`, `is_set`, `s_root`, `packet_id`,
`s_last` are `la_seq`, `i`, `alarm_list[].is_set`, `root`, `packet_id`,
`last_window` of `sendfile.c`; `r_la`, `received`, `last_id`, `r_root`,
`ready_exit`, `r_last`, `r_count` those of `recvfile.c` (`received` is the set of
indices whose flag is 1). `s_pc` and `r_pc` say which loop a program is in. In
`AckPath`, `acked` counts the acknowledged packets, of which `la_seq` is the
remainder; `heard` is a history variable.

What is abstracted:

* A chunk is named by its place in the file; the contents do not matter. The last
  chunk is the one that is shorter than `BUFLEN`, possibly empty, as `fread`
  returns it, so a file always has one.
* In `FileTransfer` a corrupt datagram fails the CRC and both programs go on as if
  nothing had arrived: corruption is a loss. `AckPath` has the checksum itself.
  The checksum is linear, so what an error does to it does not depend on the data.
* Time. `check_timeout` may find any set of the window's alarms expired, so
  the round-trip estimate, which only moves the moment, is left out.
  `last_ack_time` is the reason why an acknowledgement is useless once a newer
  one was taken: `ack_net` is ordered by the timestamps and taking one
  removes the older ones. `AckPath` has the clock, and shows that this is so.
* In `SendFile` and `RecvFile` the linked queue is a sequence; `GetK(root, k)` is its
  element k+1. `FixQueue` has the pointers.
* Sockets, argument parsing, printing and `mkdir`.

### The router and its simulator

| module | models |
|---|---|
| `LinkLayer` | what `Simulator`, `Event`, `Link` and `Node` do to packets: `wire[l][r]` is the queue of link `l` towards router `r`; loss, overtaking, and the events that end, revive or slow a link |
| `Router` | `RoutingProtocolImpl`. One step is one call of `recv` or `handle_alarm`, which the simulator runs to its end |
| `DvNetwork` | routers and links together, and the properties |
| `MCDvNetwork` | a line, a ring, and a pair of parallel links for TLC |
| `EventQueue` | the clock and the heap of events: which may be at its top |
| `ConfigFile` | `Simulator::init`: one step reads one line |
| `Simulation` | `run` and `dispatch`, links and ports, and of the routers what depends on time |
| `MCSimulation` | seventeen configuration files for TLC |
| `SimulationProofs` | the theorems about the simulator: types and ports, the clock, the alarms, PING and PONG |
| `DvNetworkProofs`, `DvPacketsProofs`, `DvRoutesProofs` | the theorems: the four tables; what is under way and what is announced; that routes rest on shorter ones |

How the state corresponds: `direct_neighbors`, `dv_map` and `forwarding_table` are
the maps of that name, as functions whose domain is the set of keys; `connected[r]` the
ports whose `connected` is true, `port_cost` their `cost`. A port is named by its
link, so `ports[p].to` is `Far(r, l)` once a PONG has set it, and what it was before
is never looked at. A vector has the costs it names and, in `again`, those that it names
a second time: `recvDV` (`DVImpl.cc:96-97`) pushes some pairs twice and
`handlePingPong` may. The second entry can undo the first, so both are modelled.
In `Simulation`, `event_q` is a bag, `top` what the heap has at its top, `curr_event`
what `run` has dispatched and not yet popped; `pc` says what the program is doing, and
how it ended.

The router is modelled twice, for two questions. `DvNetwork` has all of its tables and
no clock. `Simulation` has the clock, the alarms, the ports and their expiry, and shows
what `DvNetwork` takes for granted of them (`ExpiryNeedsLoss`, `OneAlarmEach`).

What is abstracted:

* Time, in `DvNetwork`. The clock is left out but for two things. The answers to a
  round of PINGs are in or lost before the next round (`PingAlarm`). A port that expires
  has lost a PING or PONG since its last PONG, and a route that gets old belongs to a neighbour
  without a connected port that sent no PONG since it lost one: `silent` records
  what was lost, and `RefreshDV` may find any of these expired, or not yet. This holds for
  delays that are short against 10 s. `handle_alarm` sets the alarm again at its end, so an
  alarm can always go off.
* `updated` of cells, which only dates these expiries.
* An overtaking counts as a fault although two packets of the same
  millisecond may be swapped at any time by the priority queue (`Simulator.h:9-13` has no rule for
  equal times). `rt_live` has no faults, so it says nothing of networks in which this happens.
* The time a PONG measures (`PingPongImpl.cc:25`) is the delay of the link at the PING and
  that at the PONG. `rtts` remembers the round-trip times that a link has had, and `RoundTrips` allows the mean
  of any two of them.
* `NNCell.cost` is not initialised when a vector comes from an unknown router and
  does not name the receiver (`DVImpl.cc:11-20`): any value of the constant `Garbage`.
* In `Simulation` time is in seconds, where the code counts milliseconds: a delay of 1 or 2 s
  stands for a shorter one, and all periods of the code are whole seconds. A line of the
  file is a record of its words, and of what `atoi` makes of each, as the loop over the nodes takes
  every line for a line of nodes; a loss probability is never, sometimes or always; the order
  in which a heap takes events of one time is any.

### The ping-pong program

| module | models |
|---|---|
| `TcpPath` | two bounded byte streams per client, reliable and in order |
| `PingClient` | `client.c`: `c_pc` is the place in the loop, `cnt` and `num_tests` its counters, `cbuf` its buffer |
| `PingServer` | the `select` loop of `server.c` with `util.c` |
| `WebServer` | `web.c` and the www branch of the loop, with browsers and a file that may change |
| `PingPong` | the whole, and the properties |
| `MCPingPong` | the requests that browsers make, and the states of the file |
| `PingPongProofs` | the theorems |

A step of the server is the `select`, the `accept`, or one half of the visit of a
node (`serverSending`, then `serverRecieving`); in www mode it is one system call on the
socket or on the file. The clients run between. `nodes` is
the linked list, `todo` what the walk has still to visit, `read_set` and `write_set`
what the last `select` returned, used over the whole walk as in the code. `buffer`,
`added_pos`, `len_buffer` and `pending_data` are the fields of `struct node`. A byte
is named by its message and its place there. Of the web server `cmmd_dir` is what was
received, `left` the parts of the answer not sent yet, `disk` the file.

These constants name what TCP, the clients, the environment or undefined behaviour in
the code allow, so that a run can say what goes wrong with each: `Modes` (the server's
command line), `Narrow` (the sets of clients whose path takes at most `ROOM` bytes at a time, so
that every call sends and receives portions), `SPLIT_HEADER` (the first byte of a message of a narrow client
may arrive alone), `CLIENT_CRASH` (clients are killed), `FREED_FAULTS` (reading a node after
`dump` has freed it may end the program), `CALLS_FAIL` (`select`, `accept` or `fcntl` may fail, which ends it),
`SPLIT_REQUEST` (a request of a browser may come in two pieces), `Disks` (what the file is at first) and
`FILE_CHANGES` (how often it appears, goes away or is emptied). The server receives its bytes in any portions in
every run.

When the length of a message was misread, `added_pos` may pass `len_buffer`, and the length that `send` is called
with (`util.c:109`) is negative, as a `size_t` a very large one. The model goes on: `send` takes all that the path has room
for (`Taken`), what lies behind the buffer is bytes of no message (`Behind`), and the position is set to their
number. `ServerAssumption` wants `ROOM` to be at most `MSG_MAX`, as with more the position could lie
beyond the buffer, and `recv` with it, where the behaviour of the program is not defined.

## Runs

| run | question | instance |
|---|---|---|
| `ft_safety` | are packets written in order, forgotten late enough, and is `ReliableTransfer` implemented, whatever the path does and with errors of `sendto` and `fopen`? Is the invariant of the proofs true? | window 3, sequence space 4, 7 chunks, 3 packets and 2 acknowledgements in flight: about 407 000 states |
| `ft_live` | is the file completed, and does `recvfile` close it and exit, when the last window does not wrap? | window 2, sequence space 3, 5 chunks, fair lossy path |
| `ft_wrap_hang` | the same when it wraps: **no** | 4 chunks |
| `ft_wrap_exit` | does `recvfile` recognise the end when the last batch wraps? **no** | 4 chunks |
| `ack` | do timestamps, checksum and list together give the channel that `FileTransfer` uses? | window 2, 4 packets, a clock of 16 ticks and seconds of 5, 5 points of time, 2 acknowledgements in flight: about 337 000 states |
| `rt_safety` | do the tables agree, are next hops neighbours, is one port per neighbour connected, does no router list itself or name itself in a vector, and is every change announced? | 3 routers in a line, two parallel links between the first two, one of them with two possible delays, 1 fault: about 332 000 states |
| `rt_live` | do the routers find the shortest routes and keep them, without a circle on the way, and does every DATA packet leave the network? | a ring of 3 routers without faults, 1 DATA packet at a time, alarms with up to 2 packets under way: about 154 000 states |
| `rt_poison` | are two routers never each other's next hop? **no** | a line of 3 routers, 1 fault |
| `sim` | does `run` pop the event it dispatched, do alarms go on, do ports follow their links and only expire for a loss, and does a proper file lead to the end? | seventeen configuration files, up to 41 s: about 141 000 states |
| `ping_pong` | does every client get its messages back, whole, and is the list right, whoever is killed and when? Is nothing written beyond a node's buffer when lengths are misread and echoes sent in portions? Does a browser get the parts of the one answer that it is due, and for which reasons only does the server end on it? | 2 clients, 2 messages of 3 bytes, received in any portions; one path may have room for 2; 2 browsers, requests in 1 or 2 pieces, a file and 1 change of it: about 1 370 000 states, under 3 minutes |
| `pp_partial_send` | are echoes in order when `send` takes portions? **no** | 1 narrow client, a message of 3 bytes, room for 2 |
| `pp_freed_node` | does the server survive the end of a client while another is connected? **no** | 2 clients |

Bounds. `WINDOW_LEN`, `SEQ_LEN` and `NCHUNKS` are small, and chosen as hard as
the code allows: a sequence space of window + 1 numbers makes the numbers come
round after every window, and 7 chunks go round it almost twice. `DATA_CAP` and
`ACK_CAP` bound what is in flight; a full path loses what is sent, which it may do
anyway, so the bounds only leave out that many old packets in flight at once.
`FINAL_ACKS` is 400 in the code and 2 here: a lost one may be followed by
another, which is all the number decides. The proofs use none of these bounds.

In `ack`, `WORD` stands for 2^32 and `MILLION` for 10^6; from `START` 18 to `END` 22 the
seconds change once and the stamps, 2 to 6, run through half a cycle: the transfer lies within one
cycle of the clock (`ClockAssumption`). Two acknowledgements in flight can be in either
order. `Damage` holds every error of one or two bits of the 128 of an acknowledgement, and
every burst of up to 8: checks that are enough for the CRC of an acknowledgement to be told from
one that is not the polynomial of the code. The CRC of a data packet is the same
function of more bytes and was not run.

The parallel links of `rt_safety` are what `handlePingPong` has its loop over the other
ports for; the line behind them makes routes that are not direct. The ring of `rt_live` is the
smallest network in which a router has a choice of routes, and its
direct link between `a` and `c` is longer than the way over `b`, so the first route to
be found is replaced. `FAULTS` bounds the losses, overtakings and changes of links
together; one is enough to close a port, to let a vector come before the first PONG, or
to withdraw a route, and each may happen at any moment. `ALARM_CAP` lets an alarm go off only
when at most that many packets are under way. This bounds the runs and is not so in the code: `init` sets the alarms of all
routers at one `global_time` (`RoutingProtocolImpl.cc:36-38`), so an alarm may find what that of another router has just
sent. `rt_safety` has 0, `rt_live` has 2. `COST_MOD` stands for 2^16; it is 16, above every sum of
round-trip times. `Garbage` holds 0 and a value above `COST_MOD`. None of these
bounds is used by the proofs.

The files of `sim` have a link that dies and comes back, losses by chance (`LOSS_CAP` 2) or
always, a delay that changes, parallel links, a router with two ports, and eleven that
have a section missing or out of order, or name what they do not define. In one of them the title of
the links is missing, and their lines are read as nodes. The
longest runs 41 s, which is past every period and every expiry. `TIME_MOD` is 1000, far
above: the wrap of the 32-bit clock (49.7 days of milliseconds) is not reached. `Boot`
is {0}, see below.

Of `ping_pong`, 2 clients are the smallest list whose order matters, and 3 bytes are a
header and something after it, in up to three portions. One client may be narrow beside one
that is not, and what is promised of messages is promised to the latter. Room for 2 bytes of 3 is the smallest with which
`added_pos` passes `len_buffer`: after a misread length a portion of 2 bytes is sent, and a byte is received behind it. With
room for 1, every byte comes alone and meets the end.

Five runs are expected to fail, each for one property:

* `ft_wrap_hang`: `sendfile.c:199` compares `i`, which runs from `la_seq` up without
  being reduced, with `last_window`, which is reduced. With a wrapped last window
  the pass stops before its first slots are reached, so their packets are sent once
  and never again. For 16 numbers and a window of 8 this can happen to every file
  whose last packet has a number below 7.
* `ft_wrap_exit`: `recvfile.c:217` has the same mistake on the other side.
* `rt_poison`: `sendDVUpdate` and `updateDVTable` send the same costs on every port.
  `project3/README.txt:1` says that poison reverse is used; a router whose route was
  withdrawn takes the route of a neighbour that leads back to it. From there the
  two count up together. Every step is a change and is announced, so they do so at the
  speed of the link, and as round-trip times are even numbers and `INFINITY_COST` is odd,
  the sum passes it and starts again at a small cost.
* `pp_partial_send`: `util.c:111` sets `added_pos` to the result of `send` instead of
  adding it.
* `pp_freed_node`: `server.c:181`, `:203` and `:225` read the node that `dump` has freed. In the run one client has come
  to its end and the other is connected when the server ends.

### Known limits

These follow from the code as it is modelled, and no run is spent on them:

* `sendfile` need not end. It stops only at an acknowledgement of its last packet, and
  `recvfile` leaves after 400 final ones, all of which may be lost. `count_last_packet`
  (`sendfile.c:43`, "if >100, consider the server ends") is declared for this and never used.
* The clock of `sendfile.c:132, 164` wraps every 71.6 minutes. When it does during a
  transfer, every acknowledgement has a smaller stamp than the last one taken, and none is taken for
  as long as the old cycle had lasted. `ClockAssumption` excludes this, and is needed.
* Three defects of the ping-pong program are in the model. `client.c:82` replaces the count of received bytes by the result of `recv`: a client whose
  echo arrives in portions forgets the earlier ones and waits for ever. `util.c:129` reads the length of a message when one of
  its two bytes may be missing: the messages of a narrow client may be mixed up, and its node dumped while it lives. And the second
  `send` to a client that has gone, after a portion of its echo, raises SIGPIPE, which ends the server. `EchoIntact`, `OneMessage`,
  `ListKept` and `EveryClientFinishes` leave narrow clients out.
* Of a part of a request (one `recv` is taken for the whole, `web.c:20`) the command or the path may be missing: a NULL string is
  compared and the server ends. What cannot be read, a directory or a file that is empty or went away after the checks,
  is found by `sendingValidFile` only, behind the header 200 (`web.c:92-96`), and ends the server.
  `README.txt:31` ("Either the error message or file content should be visualized") does not hold in these cases, and
  `WebAnswers` names them.
* www mode. While one browser is served all others wait; a browser that connects and sends nothing
  blocks the server for ever. No property could hold of it: `EveryClientFinishes` assumes that a connected browser sends its request
  or goes away. 500 is answered only if the file changes between `fopen` and `access`.
* A sender whose file the receiver cannot open goes on for ever: the name is acknowledged before `fopen` (`recvfile.c:93, 127`).
  `Reliable`, which is safety only, allows it.
* A direct neighbour that `recvDV` added stays for ever if no PONG ever comes from
  it: `refreshDV` erases neighbours of connected ports only.
* With parallel links every PONG makes its own port that of the neighbour, and its cost that of
  the link: routes follow the link that answered last and need not settle. `Converges` and `RoutesBacked`
  are checked on the ring, where links are single.
* A configuration file whose last section is `[nodes]` is read for ever; sections out of order are
  skipped silently; a node that is only named by an `xmit` event, and a link that is only named by its
  death, are NULL pointers that are used. In section `[nodes]` every line without a bracket is read as nodes, so a
  missing `[links]` makes nodes of the links. The run has such files; `RunEnds` claims an end of well-formed ones only.
* `set_alarm` uses `global_time` before `run` sets it (`Simulator.cc:30`). `Boot` names what it may
  hold; 0 is what a fresh page of the heap has. With a large value the first alarms come late.

### Fairness

`FairSpec` is used by the liveness runs only. In `FileTransfer`, `LoopFairness`: both programs
spin in their loops without blocking (`MSG_DONTWAIT`), and an alarm that is
armed again and again is found expired again and again, because `sendfile` waits
at most 5 ms. `PathFairness`: a datagram that is sent again and again gets through
again and again, one the receiver waits for is received, and an acknowledgement
is taken before all newer ones are lost. Nothing is assumed of a datagram that is sent
once, and nothing of which alarm or packet comes first. The final
acknowledgements are finite in number, so nothing is assumed of them either.

The router's `FairSpec` says only that a packet under way arrives, which the event
queue guarantees when nothing is lost. Nothing is assumed of the alarms: the updates
sent at changes are enough for `Converges`. `Simulation` is one thread that goes on
(`WF_vars(Next)`). In `PingPong` the server repeats its loop (`WF_vars(MainLoop)`) and every
client goes on until it is done or killed (`WF_vars(ClientGoesOn(c))`), which of a browser
means that, once connected, it sends its request or goes away.

## Proofs

### The file transfer

The theorems hold for every `WINDOW_LEN >= 1`, `SEQ_LEN > WINDOW_LEN`,
`NCHUNKS >= 1` and all channel bounds (`WindowAssumption`, `ChannelAssumption`,
`FinalAcksAssumption`). They cover the wrapped windows too: the two defects above
cost liveness, never safety.

`Spec => []IInv` (`Invariance`) by induction, one lemma per action. None of the
safety properties is inductive: that the right chunk is written rests on what
is in flight, that on what was read and kept, and that on acknowledgements telling the
truth. `IInv` ties the modular numbers to absolute ones:

* `QueueInv`, `AlarmInv`, `PassInv`: the queue holds the packets `Acked+1 ..
  packet_id`; `la_seq` is `Acked % SEQ_LEN`; exactly their alarms are set;
* `WrittenInv`, `BufferInv`, `ExitInv`: `Acked <= last_id <= packet_id`; the file is
  the chunks `1 .. last_id`; a flagged slot d steps after `la_seq` holds chunk
  `last_id+d+1`, and the slot of the next chunk is never flagged; the exit flag is 2
  only when all is written;
* `DataInv`: in flight are the file name and packets that were read;
* `AckInv`: there is an assignment of levels, growing along `ack_net` and between
  `Acked` and `last_id`, such that the j-th acknowledgement is the number of its
  level.

The key lemmas: `FreshPacket` (a packet with `packet_id > last_id` is within a
window of the next one, so its sequence number names it) and `PollNewAckInv` (a
number inside the window, sent at a level between `Acked` and `last_id`, is that
level: exactly the packets up to it are dropped). From `IInv`: `TypeCorrect`,
`DeliveryInOrder`, `NothingForgotten`, `CompletionIsTrue`, `QueueAndAlarms`, `BufferOrder`,
`ReadsOnlyTheFile`. `ImplementsReliable` proves the refinement: an accepted packet is
`Deliver(c)` or a stutter, a new acknowledgement `Forget`, the last one `Finish`.

`ClosesUnlessWrapped` proves `AllWrittenCloses` where it is true: if the numbers of the last
window do not begin again at 0, or if the file has at most `SEQ_LEN` chunks (`LastWindowFits`), `recvfile`
leaves its loop (`ready_exit = 2`) when it has written everything. The invariant beside `IInv` is `LastNoted`: once
the last chunk is in the reassembly queue, `ready_exit` is set. The test at `recvfile.c:217` compares a sum
that is not reduced with the number of the last packet; `LastTest` shows that under the hypothesis the sum needs no
reduction. `ft_wrap_exit` shows that the hypothesis is needed.

`SeqSpaceProofs` derives what it needs of `%` by a non-constant modulus from
division with remainder, and that `MapToWindow(x, (x + e) % SEQ_LEN) = e`.

### The acknowledgements

`AckPathProofs` proves for every clock, window, file and path, and every number of list
nodes, four things that build on one another.

`AcksInOrder`: each acknowledgement that is taken was sent later than the one before (`InOrder`). The
invariant `AckInv` (`StampsGenuine`) says that every acknowledgement under way and the
last one taken were stamped at some time between `START` and now, and that
`last_ack_time` is the stamp of the latter. From the two words of a genuine acknowledgement
its time is got back, and within a cycle of the clock the remainders are ordered as
the times are (`OrderInCycle`), so a greater stamp is a later one. This is where
`ClockAssumption` is used; the order in which the path delivers is not.

`AckTypes` (`TypeOK`): what is acknowledged has arrived, and what has arrived was sent. An
acknowledgement carries a remainder; which packet it means depends on when it was sent. `WindowInv` gives
each one under way its level, the number of packets that had arrived: none is above `arrived`, one that was sent later
has no lower level, and one that is newer than the last one taken is not below `acked` (`Levels`). So the level of
one that passes the test of the timestamps is within a window of `acked`, and the slide of `sendfile` ends at that
level and no other.

`ListKept` (`QueueKept`): the linked list of `fix_queue.h`, followed from the root, is the packets that are
not acknowledged, in order; it ends, none of its nodes is freed, and none that is not in it is allocated
(`NodesAssumption`: memory is finite and `NULL` is no node of it). Following pointers is a recursion (`Steps`), and
the induction theorems of the library cannot be used for it. The proof has an induction over sets instead: of
the lengths for which a claim fails there would be a least one (`LeastElement`, from the well-foundedness of inclusion of
finite sets). With it `Enqueue`, which follows the list to its end, and `Dequeue` are shown to keep it
(`EnqueueKeepsList`, `DequeueKeepsList`).

`ImplementsChannel` (`Implements`): the whole implements `AckChannel`, step by step. The abstract channel holds
the numbers of the acknowledgements newer than the last one taken. As those under way stand in the order in which
they were sent (`OrderInv`), the newer ones are the last ones of the path (`FreshAreLast`); taking one removes all
before it, as `last_ack_time` does.

### The router

The theorems hold for every set of routers, every network of links, any
number of faults and all costs (`LinkAssumption`, `GarbageAssumption`).

`DvNetworkProofs` proves that `TablesAgree`, `NextHopKnown` and `OnePortEach` hold in
every reachable state. A router's maps are changed by its own handlers only, so the
invariant is one condition `Good` on the maps of one router (`OneRouter`), and each handler is shown to keep
it: `RecvPongInv`, `RecvDVInv` (by `HeardGood`, used for each of the two readings of a
vector) and `RefreshDVInv`. The parts need each other: a refresh
erases a neighbour with one of its ports, which is right only because no other port
to it is connected, and redirects the routes over the ports it closes, which leaves no
dangling next hop only because next hops were neighbours before.

`DvPacketsProofs` adds what is under way: `PacketInv` says that the queue towards one end of
a link holds packets that the other end may send (`Sendable`), whose vectors do not name it,
and that tables and costs keep their types. It is inductive relative to the
invariant above, which gives that packets leave by ports of the router.
From it: `TypesKept` (`TypeOK`) and `NobodyRoutesToSelf` (`NoRouteToSelf`).

The second half of the module proves `NoSilentChange`: no handler changes a route without its new
cost being the last word of what it sends (`ChangesAnnounced`). A vector is put together while
the handler is still at work, and may name a destination twice, so the lemmas follow what has been said
of it beside what the table holds: `HeardTells` for one reading of a vector, then the two
readings of `recvDV`, `handlePingPong` with its redirected routes, and `refreshDV`.

`DvRoutesProofs` proves `RoutesAreBacked` (`RoutesBacked`): until the first fault every route over a neighbour rests
on a shorter one of that neighbour, so packets never go round in a circle, however many vectors are under
way and in whatever order handlers run. It has two hypotheses, on constants, and `rt_live` meets both (`W` = 6):
`SingleLinks`, no two links connect the same routers; and `CostsFit(W)`, round-trip times are between 1 and `W` and a
path through all routers, each hop of cost `W`, costs less than `INFINITY_COST`. They are not for the prover's sake. TLC finds the property violated
if `rt_live` is given the parallel links of `rt_safety` and their times (the PONG of the longer link raises the cost of a
route that others rest on already), or `COST_MOD` 4 (a cost of 4 is said as 0); and if a link may take
0 ms, the route of the next hop need not be shorter, only not longer.

What a router knows of its neighbour was true some time ago, so the inductive invariant, `RoutesInv(W)`, is
about the packets under way between each two neighbours, and has parts that need each other:
* `Spoken`. `Current`: what is under way was true when it was sent and is not better than the sender's table now;
  of two packets the later one is not worse. `RestOn`: a route rests on the table of its next hop, and on every packet still
  under way from there. So whatever order packets are read in, a cost never rises (`RecvDVRests`).
* `Met`, the handshake. A vector is never read on a port that no PONG has measured (`Shaken`): a PONG is in front
  of it, or the neighbour has still to answer the PING. Otherwise `recvDV` would take the cost
  of the link from the packet or from nowhere (`LinkCosts`), and the first PONG could raise it.
* `ListedPaths` and `SaidPaths`. Each cost, listed or said, is at most that of a path on which no router comes
  twice (`Path`: all routers on it have a route that is not longer, so a router whose own route is longer is not
  on it, `PathLonger`). So no cost reaches `INFINITY_COST`, nothing is cut to 16 bits and no route is withdrawn (`PathFits`).

Each handler is shown to make a `RoutesMove`, which changes routes only to better ones of these three kinds, and to
send what is in its table then (`Moved`, `TrueOf`); `RoutesStep` is the rest, once for all handlers.

### The ping-pong program

`PingPongProofs` proves `OneMessage`, `EchoIntact` and `ListKept` for any set of clients,
any lengths of messages and buffers (`PathAssumption`, `ServerAssumption`), clients that are
killed at any time, and both modes. As the properties say, clients whose paths are narrow
are left out: for them the code breaks the first two (`pp_partial_send`), and can break the third.

The invariant has two halves that need each other. `Lists` and `Walk`: no client is twice in
the list or the backlog, or in both; what the walk has still to visit is in the list, once;
and `write_set`, as old as the last `select`, is right of every node not visited since
(`ToldRight`), because only the visit of a node makes it less ready, and an accepted client
is not in the set. `Exchange`: the message of a client is `Coming`, `Complete` or `Returning`,
with its bytes. `serverSending` looks at nothing but `write_set`, so it sends a whole
message only because of the first half (`ServerSendInv`); and `serverRecieving` dumps the node
of a live client whose buffer is full, which never happens only because of the second
(`DumpInv`). Portions of a message are followed by `WrittenPiece`, `SplitPiece` and `JoinPieces`.

`TypesAreKept` proves `TypeOK` for any clients, narrow ones too: no position leaves its buffer, and nothing is
written beyond a node's buffer, though lengths are misread, echoes are sent in portions and killed clients leave bytes
on the way. The one hypothesis is `ROOM <= MSG_MAX` (`ServerAssumption`, see above). The first invariant says nothing of the node
of a client that was killed, which the server goes on with: it receives what is still on the way and may send the message to
nobody. `TypeInv` therefore follows each message beyond its client's end (`Held`): the node has the first bytes of one message and
the stream has those that follow, or the node has all of it and the stream is empty.

The www mode. `BrowsersAreAnswered` proves `WebAnswers` for any number of browsers, any requests and
any changes of the file: what is sent is the beginning of one answer; if the request came whole with the one `recv` and
its socket is to be closed, that answer is one the request is due; a socket is closed only when all four parts were
sent or the browser has gone; and the server ends on a browser only if that one has gone, its request came
in pieces, or there is nothing to be read behind its path: a directory, or a file that is empty or missing. It does
not say that the answer is whole in these three cases, as there may be no answer, or the header 200 with nothing behind
it. The invariant `WInv` follows `web.c`: the server
works on one browser at a time, whose socket is open and not in the backlog (`Served`); what it has received of a
whole request is that request, and the tests it is past have held, or the file has changed since (`Decided`); what it
has sent and what it has still to send make up one answer, unless the browser has gone (`Answering`).

### The simulator

`SimulationProofs` takes any configuration files (`FilesAssumption`: a file is a sequence of lines with
natural numbers and times that fit the clock), so any network, orders of sections and events, and any
delays and losses.

`SimulationTypes` (`TypeOK`) and `EveryPortIsFound` (`PortsFound`) need nothing else. `SimInv` says what the
tables and the queue hold: `link_table` and `link_vector` name links that exist, a link is in the
`link_vector` of both its ends, nodes that a link names are defined (else the program has crashed), and every event is
`Placed`: its node, link and port exist. Lines are read and events pushed by one function per kind, so the
lemmas follow them: `ReadLinkKeeps`, `BootPlaced` (all that `init_routing_protocol` pushes), `OnLinkPlaced`,
`PongPlaced`, `AlarmEventsPlaced`.

The rest depends on time, and has three hypotheses. `Boot = {0}`: the clock starts at 0, as memory that is
fresh does, though `Simulator.cc:30` does not see to it. `[]ClockFits`: neither an alarm nor a packet is due beyond
the end of the clock's range, which is 49.7 days away; past it `run` could pop what it did not dispatch. And
for ports, `[]DelaysFit`: no delay is above `MaxDelay`, so that a round trip of PING and PONG takes
at most 4 s, less than the 5 s between the period of PINGs and the age at which a port is dead. The code trusts
the file with this, as it does with the rest. Each hypothesis is a condition on states, and holds in
all states of the run `sim`.

* `PopsWhatItDispatched` (`PoppedIsDispatched`). `HeapInv`: the queue is a bag and its top has the least
  time. `ClockInv`: nothing in the queue is late, and between dispatch and `pop` the top is the event dispatched, which
  holds as no handler pushes anything for a time before its own (`DispatchPushes`) and an equal time does not
  displace the top (`lteve`).
* `AlarmsKeepGoing` (`OneAlarmEach`). `AlarmInv`: besides the alarm that is being handled each node has one of
  each kind in the queue, once, and due within its period. While an alarm is handled there are two of its kind,
  the second set by the handler, so the invariant has to count with `Handled` taken out.
* `ExpiryAfterLoss` (`ExpiryNeedsLoss`, an action property) and `PortsFollow` (`PortsFollowLinks`). Both follow
  from one invariant, `WatchInv`, which dates what is known of a port or link by the next alarm for PINGs,
  `a`. The last PINGs left at `a.time - 10`. A connected port that has lost nothing has either been refreshed
  since then, or its PING or PONG is on its way (`Waiting`) and it was refreshed since `a.time - 20`
  (`PortWatched`). A link that has been clean since `a.time - 10` has either connected its ends
  since then, on one of the links between them, or the packet is on its way (`LinkWatched`). A
  packet on its way is at most 4 s old: `PacketInv` says that a packet goes from one end of its link to the
  other and is no later than its stamp plus `MaxDelay` for each time it crossed (`Hops`). So at the
  alarm, when all of the last round must have come back, the claims for `a.time - 10` become those for
  `a.time - 20` of the next one; and the youngest PONG of a port that lost nothing is never more than 14 s old, while
  `refreshDV` wants 15 (`WatchUntil`). A PONG may disconnect a parallel port to its node, but only while it
  connects its own, so that `LinkWatched` speaks of any port to the neighbour (`WatchPong`).

These are what `Router` and `DvNetwork` take for granted of time.

### What is only model-checked

* Liveness (out of reach of the prover, as is ENABLED): `EventuallyWritten`, `ReceiverExits`, `Converges`,
  `DataLeaves`, `RunEnds`, `EveryClientFinishes`, `ServerTidies`.
* `AckIntact`: what damage the CRC lets pass. It is about the bits of one polynomial, and
  a computation, not an argument; its loop over the bytes is an induction over data.

## Not modelled

* The timeout estimate (`sendfile.c:190`): `check_timeout` may find any alarm expired at any
  time, so no property depends on it. The bits of data packets, and `BUFLEN`.
* The latency that the client measures and prints, the aborts of start-up, parsing of arguments.
* The wrap of the simulator's clock; convergence of routes
  after a failure, which the missing poison reverse prevents in general.
* `name_addr.c` (one library call), `chksum` and `getDir`, which nothing calls, the
  link-state protocol, which is named in the headers and not written, Makefiles, logs and test inputs.

## What is left open

1. The router after a failure: from which ones it recovers, with fair alarms.
