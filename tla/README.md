# Verification of codebackup

This directory models the programs of the repository in TLA+, checks the models
with TLC and proves the main properties of the core modules with TLAPS. The
repository is a collection of small programs in C for embedded systems; each is
treated as a system of its own.

## Inventory

| component | files | state | operations |
|---|---|---|---|
| property service | `property/property_service.c` | `rmutex`, `wmutex`, `read_count` | `load_all_props`, `release_all_props`, `get_property`, `set_property` |
| shell command | `property/property_cmd.c` | the static buffers `prop_key`, `prop_value` | `property get`, `property set` |
| property store | `property/system_properties.c` | the tree, the file `/data/build.prop` | `__system_property_add/get/set/list`, `op_prop_file`, `__prop_memory_*` |
| value map | `property/rbtree/map.c`, `memPool.h` | `cur_pool`, `pool`, the nodes' `val` pointers | `put`, `get`, `realloc_value_memory`, `memory_init/destroy` |
| red-black tree | `property/rbtree/rbtree.c`, `rbtree.h` | parent, kids and colour of each node | `rb_insert_color`, `rb_erase`, `rb_first/last/next/prev` |
| battery percentage | `battery_detect/battery.c` | last voltage and percentage, mode, window of samples, the saved percentage | detect thread, USB callback |
| battery timer | `battery_detect/battery.c` | `time_interval`, the count of records, the semaphore | detect thread, USB callback, timer callback |
| echo server | `iperf/echoserver.c` | the listening pcb, per connection state and its queue of pbufs | the lwIP callbacks, `echoserver <port>`, `echoserver stop` |
| iperf command | `iperf/iperf.c` | the lwiperf handler | `iperf server`, `client`, `stop` |
| echo server with sockets | `iperf/echoserver-socket.c` | two descriptors and a port for as long as the command runs | the command |
| leak detector | `memleak/typeMacroDefine/main.c` | one file per block in a directory that outlives the program | `my_malloc`, `my_free` |
| malloc hook | `memleak/typeHook/myHookLib.c` | `gmalloc` and `gfree`, the C library's functions once they are looked up | `malloc`, `free`, `hook_init` |
| mplayer slave | `mplayerInterface/mplayer_slave.c` | the descriptor of the FIFO to mplayer | the thread that starts it, `player_stop` and the like |

How they interact: the shell command calls the service, which calls the store
under its locks; the store keeps the properties in the value map, whose nodes
hang in the red-black tree and whose strings lie in the memory pool, and writes
`persist.` properties through to the file that the next load reads. The echo
server and the iperf command share lwIP: its pools of pcbs and its ports. The
other programs are independent of each other; they meet the outside world through
callbacks (lwIP, USB, the timer), the file system, the C library and the kernel.

Not listed above, and not modelled: the bpftrace demonstration and the examples
of the book on C (no state), and `tools/` (third-party vim plugins and editor
settings). `property/rbtree/test_map.c` is a caller of the value map.

### What is hard in each, and what makes it correct

- **Property service.** Several threads get, set and release at once; a value is
  copied character by character. Readers share `wmutex`, which the first one
  locks and the last one unlocks. Correct means: a writer is alone, no get returns
  halves of two values, the whole looks like one atomic register, gets return.
  Two paths stop the service for good: a refused name returns with `wmutex`
  locked (`property_service.c:172`), and a release waits for `wmutex` with `rmutex`
  in its hand (`:135-136`).
- **Value map.** A block of bytes from which strings are cut and never given back;
  when it is used up every live string moves to a fresh block, while the tree points
  into both. Correct means: every pointer leads to a whole string in a block that is
  there, strings never overlap, the move never runs out of room, and from outside it
  is a map whose puts may be refused.
- **Red-black tree.** The repair loops of insertion and erasure. Correct means: search
  order and parent links hold in every round, the colours hold but at the node under
  repair, no null pointer is followed, the walks visit every key once, the loops end.
- **Store and file.** A persistent property is written to the file first and to the
  tree second; the file is emptied, then written, and the place to write is the first
  place where the characters of the key stand. Power cuts may come at any step.
  Correct means: the next boot brings back what the tree held, lengths stay inside
  the file, and what is read-only stays.
- **Shell command.** Static buffers outlive a command, and a `set` with too few
  arguments runs with what they hold.
- **Battery percentage.** The voltage is smoothed, looked up in a curve and limited;
  the USB callback changes the mode between two reads of it; a reboot goes on from the
  saved percentage. Correct means: the percentage moves in the direction of the mode,
  the smoothing neither overshoots nor gets stuck, a reboot does not jump.
- **Battery timer.** An interval of 64 bits, computed from the samples in `int`
  arithmetic and limited in four accesses, with two callbacks that read it and write it
  in between, on a processor that moves one word at a time. Correct means: the interval
  that is left is in range, a plug is not lost, the thread measures again.
- **Echo server.** lwIP calls back in any order that its protocol allows, also with
  errors and without memory; pbufs are counted by reference. Correct means: every pbuf
  is echoed or freed once, in order, and the queue drains although each callback
  sends only what the buffer takes.
- **Start and stop of the servers.** The shell runs between the callbacks, each command
  makes several calls of lwIP, and `tcp_echoserver_pcb` survives what it pointed to.
  Correct means: the pointer leads to the server that runs, and a stop closes it and
  nothing else.
- **Echo server with sockets.** Errors are printed and passed over. Correct means:
  descriptors come back, however often the command is given.
- **Leak detector.** Its record is a directory of files, which an earlier run or the
  report of a double free may have left. Correct means: every leak is reported and a
  second free does not reach the C library.
- **Malloc hook.** Threads look the functions up at the same time, without a lock.
  Correct means: nothing is called before it is known.
- **Mplayer slave.** A FIFO whose two ends wait for each other.

## Modules

| module | models | how it corresponds to the code |
|---|---|---|
| `PropertyRegister` | what the service promises | one property: a get may return any value it held between call and return |
| `PropertyLock` | `property_service.c:120-176` | one action per line of `get_property`, `set_property`, `release_all_props` and a `pc` per thread; `strcpy` and `strncpy` are two steps of one character each |
| `PropertyLock_proofs` | | the theorems about it |
| `ValueMap` | what the map promises | a put is done or refused |
| `ValuePool` | `map.c`, `memPool.h` | pools of `Block` addresses, `used` is `pvalue`, `ptr` the nodes' `val`; a put in place, a put that allocates, a refused put and the remap node by node; the tree is the set `nodes` |
| `ValuePool_proofs` | | the theorems about it |
| `KeySet` | what the tree promises | a set with insertion and removal |
| `RBTree` | `rbtree.c`, the search of `map.c` | the heap of nodes as functions `color`, `parent`, `kid`; one action per round of each loop, the search of `rb_erase` for the successor included; a case that the code writes once for each side has the side as a parameter |
| `RBTreeWalks` | `rb_first`, `rb_last`, `rb_next`, `rb_prev` | each of their loops as a recursive function on the nodes of the tree |
| `RBTree_proofs` | | the theorems about both |
| `PropertyText` | `load_properties`, `op_prop_file` | pure operators on a file, a sequence of characters in which the prefixes that the code compares as a whole are one token; the loop over the lines is a function of the places where one starts (`Starts`, `LineAt`), its result what the last put of each name leaves (`Latest`) |
| `PropertyStore` | `system_properties.c`, `property_cmd.c` | the tree as a function `mem`, `disk` for `build.prop`, `ota` for `recovery.conf`, the name in the one static buffer, the bytes of the other (`Nul` is the terminator, `Value` the string in it), and the steps of a set: truncation, writing, put; a set copies `ValueMax` bytes from where the typed value begins, so that what lies behind it (`Leftovers`) is in the buffer too |
| `PropertyStore_proofs` | | the theorems about it |
| `Battery` | `battery.c` without its timer | the curve as a table, its functions as operators; one action per step of the detect thread between two points where the callback can come |
| `BatteryTimer` | `battery.c:89-126`, `:155-159`, `:236-259`, `:332-345` | `time_interval` as two words; one action per read or write of a word by the thread, per test, and per callback; the `int` product modulo 2^32; the voltages are inputs (a span and a drop between two records) |
| `Battery_proofs` | | the theorems about both |
| `EchoStream` | what the echo server promises | what was echoed is the beginning of what came in, until an error ends the connection |
| `EchoServer` | `echoserver.c:72-297`, the callbacks | one action per callback, one per round of the send loop; `chain` is `es->p` and what hangs on it, `ref` the counts of the pbufs, `unacked` and `unread` the buffers and the window |
| `EchoServer_proofs` | | the theorems about it |
| `NetServers` | `echoserver.c:32-108`, `:298-317`, `iperf.c` | one action per call of lwIP that a command makes, over the pool of pcbs and that of listening pcbs; connections come and go in between |
| `NetServers_proofs` | | the theorems about it |
| `SocketServer` | `echoserver-socket.c` | one action per system call of the command; the table of descriptors, the ports in TIME_WAIT |
| `LeakDetector` | `memleak/typeMacroDefine/main.c` | `files` is the directory; one action per path through `my_malloc` and `my_free`; the program that calls them does so in any order, and is killed and started again |
| `MallocHook` | `memleak/typeHook/myHookLib.c` | a `pc` per thread; one action per test and per assignment of `hook_init` |
| `MplayerSlave` | `mplayer_slave.c` | the thread's steps; a command to a FIFO that is not open, is read, or has lost its reader; a FIFO that is made at any time |
| `MCSmallPrograms` | | `LeakDetector`, `MallocHook`, `MplayerSlave` and `SocketServer` for one run: an initial choice says which of them runs, since they share nothing |
| `SmallPrograms_proofs` | | the theorems about the four |
| other `MC...` | | the values TLC uses |

How they fit together: `PropertyLock` is the service with one property;
`PropertyStore` is the service with one thread, and takes from `ValuePool` that a put
may be dropped when it needs room and from `RBTree` that the tree is a map.
`Battery` and `BatteryTimer` are two views of one thread: what it computes, and when.
`EchoServer` is one connection in full, `NetServers` all connections as elements of a
pool; a connection ends in `NetServers` (`Disconnect`) in whichever way `EchoServer` ends
it. `PropertyLock` implements `PropertyRegister`, `ValuePool` implements `ValueMap`,
`RBTree` implements `KeySet`, and `EchoServer` implements `EchoStream`; each is stated as
`INSTANCE ... WITH` a mapping and checked as a PROPERTY.

What stands outside the repository is modelled from its use: `struct mutex` (a flag
that `lock` waits for and that anybody may unlock), the C library, the file system
(what is written before a power cut stays; `fopen(..., "wb")` empties the file),
`ds_write`/`ds_read` (atomic), and

- lwIP: it calls back one at a time, never inside a callback, and only with the pcb of a
  connection that it has not aborted; `pbuf_free` goes down a chain as long as counts
  fall to zero; `tcp_write` may fail; a pcb that is wanted when the pool is empty is taken
  from a connection of the lowest priority, which `tcp_setprio(newpcb, TCP_PRIO_MIN)`
  makes the echo connections (`echoserver.c:81`); `tcp_listen` frees the pcb it is given
  and returns another; `tcp_close` of a freed pcb breaks the pool. `RecvDropped`, data with
  an error or after the end of the stream, is for the code's branches `:134-140` and `:177-184`:
  a present lwIP does not take them.
- lwiperf: it takes a pcb and a listening pcb, or frees what it took and returns NULL.
- the kernel: a FIFO opened for writing waits for a reader, a write without a reader
  kills the program; a bound port stays in TIME_WAIT after a server that closed first.
- the timer of the battery: its callback runs when it runs out, at any time; one that is
  started for more than half a million years (`hi` = 1) does not.
- `dlsym`: it finds what the C library has (`Libraries`), and may be called by several threads.

A module may hold operators marked `Mutant`: variants of an operator of the code with
a plausible mistake, each named after the original. Every property of a run has one that
breaks it.

## The runs

| run | instance | what it shows |
|---|---|---|
| `lock` | 3 threads, get, set, release, illegal names | the register; that a refusal, or a release that meets a reader, stops the service, and that nothing else makes all threads wait for each other; without those every get returns, and every set if the readers leave again and again |
| `pool` | 3 keys, values of 0 to 2 characters, a block of 7 bytes | pointers, the remap, the map |
| `pool_retry` | the same | *violated*: the retry that the message asks for is refused again |
| `tree` | 7 keys | order, colours, null pointers, walks, the set; every round of a loop leaves fewer nodes ahead; termination |
| `store` | 4 names (one the beginning of another, one too long), 3 values (one too long), 3 things that lie behind a typed word, 9 files and none, 2 overriding files | when file and tree part, lengths, read-only properties, what a get prints |
| `shell_usage` | the same with the legal names only | *violated*: a usage message stops the service |
| `battery` | 3 voltages (empty, 3640 mV, nearly full) | types, direction, bounds, smoothing and restart of the percentage |
| `battery_timer` | spans of 0, 30 s, one below and one above the overflow, 600 s; drops of 0, 1, 8, 400 mV; 2 records | the interval, the plug, the next measurement |
| `echo` | 6 pbufs, alone and in pairs, a send buffer of 2, a window of 4 | reference counts, what is lost, order, the queue drains |
| `net` | 3 pcbs, 2 listening pcbs, 2 ports | the iperf handler, the pointer to the echo server |
| `net_running` | the same | *violated*: "Iperf server is running" means that one is |
| `programs` | leak detector: 2 addresses and NULL, every directory; hook: 3 threads, C libraries with both functions, with `free` only, with neither; mplayer: 4 commands, a FIFO of 2 that is there or is made later; sockets: 4 descriptors, 2 ports | leaks and second frees are reported; nothing is called unknown; who reads the FIFO first; descriptors come back |

Why the bounds are enough:

- Three threads have two readers and a writer, a first and a last reader that differ,
  and a release against both. One value next to the absent one is enough: a value that
  is half written is told from both.
- Seven bytes hold three one-character strings with their terminators and one byte
  more: blocks fill exactly, one byte short and with waste, values grow and shrink
  in place, and remaps follow each other.
- Seven keys reach trees of black height three and every case of both repair loops:
  all actions of the model are taken.
- The files of `store` have a longer name first, a comment, blanks, an unfinished line
  and an import, and each makes a rewrite go wrong in its own way; `MaxText` = 10
  bounds the length of a file to which a further set is applied, and lets three lines
  be appended. `KeyMax` = 4 and `ValueMax` = 3: one name and one value are the
  longest that are let through, and one of each is a token too long. Behind a typed word
  lie only zeros, a further argument, or the end of an older line with a blank in it: buffers
  that are full to the last byte, and values with a blank at the end, come of them.
- The voltage takes every path between the three measured ones: the smoothed voltage
  passes through more than a thousand values, and the percentage through the whole
  scale, and -1 and 101.
- The spans of `battery_timer` reach a product that is 0, one that fits, the largest one
  that fits, one that overflows to a negative number and one that overflows to a
  positive one; with two records the thread computes the interval in every second round.
- Six pbufs are three pairs: a chain of three or four with the heads of two receives in
  it, a full window, a full send buffer, and pbufs of a connection that is gone next to
  those of the next one.
- Three pcbs are a server in the making, a connection and a free one; two listening pcbs
  are both servers, or none is left; two ports are the same or another.
- Two addresses are one that comes back and one that stays.
- Three threads in `hook_init` are one before, one after and one between the two lookups.
  Four descriptors are a table that two failed accepts and one command fill.

`CHECK_DEADLOCK FALSE` stands where the program really stops (a frozen service, a
crash) or where the liveness properties say more (the callers need not call).

### Fairness

- `PropertyLock!FairSpec`: a thread inside the service keeps running (weak fairness of
  its steps, which nothing disables), and the kernel's mutex does not pass over a
  waiting thread for ever (strong fairness of the lock steps). No caller has to call.
  `Undisturbed` is the premise of both liveness properties: no refused name and no
  release, which stop the service as `RefusalStopsService` and `ReleaseDeadlock` say. A set
  needs the premise that the readers leave again and again: without it readers that
  overlap for ever starve the writer.
- `RBTree`: weak fairness of the running operation only; nobody has to start one.
- `EchoServer!FairSpec`: a callback that has begun returns (weak fairness of `Send`);
  `tcp_write` has memory now and then (strong fairness of `SendRound`, whose alternative is
  `SendFails`); the peer acknowledges what it was sent, and lwIP's slow timer polls
  (strong fairness of `AnySent` and `Poll`, which the other callbacks disable while they
  run). The peer need not send, and connections need not end.
- `BatteryTimer!FairSpec`: weak fairness of the detect thread, since
  `semaphore_wait_timeout` returns after `MAX_INTERVAL` at the latest. Nothing is asked of
  the timer or of the plug.

### What the properties say that one might not expect

- `NoOtherStandstill`: the lines of the code take `rmutex` and `wmutex` in more than one order,
  a first reader and a release one in the hand of the other, a leaving reader the other
  way round. Only the two standstills that `RefusalStopsService` and `ReleaseDeadlock` show
  come of it.
- `FileFollowsMemory` holds only under conditions, which the module spells out
  (`HitsItsLine`, `EndsItsLine`, a value that a boot does not trim, a put that is not dropped):
  each of them is needed,
  and without it a set leaves a file behind whose next boot gives other values.
  Between the truncation and the writing of the file a power cut loses everything.
- `GetShowsTheValue`: what the shell's get prints begins with the value it owes. A tail may
  follow, since `strncpy` copies no terminator (`system_properties.c:140`); it is what stood
  at those places of the buffer, be it the end of a longer value or, as `memcpy` copies
  `PROP_VALUE_MAX` bytes from the typed word on (`property_cmd.c:28`), a further argument or
  whatever else lay behind it. A get right after a set prints what was set; where nothing
  is owed nothing is printed.
- `MovesWithTheMode`, `OnTheSafeSide`: the gradient limit of `battery.c:326-327` is
  applied away from the last percentage. The percentage can therefore jump, by any
  amount, and be -1 or 101; a -1 is shown and not saved until the next change.
  Direction and safe side hold nevertheless, but for the race with the USB callback.
- `RestoreAgrees` leaves out 9%: `9 % hysteresis` is 0 in the row with hysteresis 9, so
  that a reboot at 9% starts from the voltage of 1%.
- `SmoothingApproaches` is about one step: the smoothed voltage moves towards the measured
  one and not past it, and stands still only within 4 mV of it; a voltage that stands
  still is therefore reached.
- `IntervalInRange` needs both limits: ten records at 30 s span 300 s, and the product
  overflows at 268 s. In the short window before the limits the timer's callback can
  start the timer with the raw quotient, and a negative one is an interval for which the
  timer does not fire again. From then on only the timeout of the semaphore makes the
  thread measure (`MeasuresAgain`).
- `PbufsCounted` allows one leak, which the code has: the pbufs that are queued when an
  error strikes, or when data come with one, are never freed.
- `ServerReachable` holds as long as the commands are orderly. A start
  while a server runs overwrites the pointer, so that the first server cannot be stopped; a
  stop without one closes whatever is in the freed place of the pool, be it a
  connection or iperf's server.
- `FdsReturned` counts: an accept that fails leaves the listening socket open.
- `SecondFreeReported` and, of `FilesTellLeaks`, `LeaksReported` hold over any directory; only
  the other half, `OnlyLeaksReported`, needs a new one.
- `NeverTheFirst`: with a FIFO the thread waits in `open` for the reader that it would
  itself start three lines below; without one it goes on, and a FIFO that is made after
  that is read by its mplayer but gets no command from it.

### Disagreements with what the code says of itself

| run | the code says | it does |
|---|---|---|
| `pool_retry` | "Complete memory remap! Please retry property set!" (`map.c:51`) | the retry can be refused for ever |
| `shell_usage` | "Usage : property set <prop_key> <prop_value>" (`property_cmd.c:25`) | the set runs, with an empty name, and `wmutex` stays locked |
| `net_running` | "Iperf server is running" (`iperf.c:37`) | it was stopped; the handler stays, and no server can be started again |

The models contain further ones, each a path that a property leaves out or an action
spells out, without a run of its own:

- `test_map.c:27` puts, and `:38-41` gets and prints, where nobody has called `memory_init`:
  the put crashes (`PutWithoutPool`).
- `LWIP_ASSERT("tcp echoserver close err", err == ERR_OK)` (`echoserver.c:69`) fails at a stop
  without a server, which closes NULL (`pc` is `"assert"`).
- "unable to get free symbol!" (`myHookLib.c:25`) is never printed: line 24 tests this library's
  own `free`. With a C library that has `malloc` and no `free`, which `programs` leaves
  out, `gfree` is called as NULL.
- The command of `echoserver-socket.c` prints "Binding error" and waits for a client at a port
  of the kernel's choice (`Bind`, `Listen`).
- A free of NULL is reported as a double free, and the third free of a block reaches
  the C library (`FreeReported` leaves a file that `Free` takes for that of a live block).

## What is proved

All proofs hold for every value of the constants under the assumptions that the modules
name (`LockAssumption`, `PoolAssumption`, `TreeAssumption`, `TextAssumption` and so on; TLC
evaluates them in the runs). `NullIsNeverCalled` has a hypothesis of its own, given below.

- `PropertyLock_proofs`: an inductive invariant `IInv` of five parts: types; at most
  one thread owns `rmutex`; `wmutex` is owned by one writer, or by the readers
  together, or by nobody who will unlock it (`leaked`); `read_count` is the number of
  readers inside; the value is whole except in the middle of one set. Exclusion is not
  inductive by itself: that the last reader may unlock `wmutex` depends on the count, and
  the count on who is between which lines. From it follow `TypeOK`, `Exclusion`,
  `NoTornGet`, `RefusalStopsService`, the action property `ReleaseDeadlock`, and the
  refinement `ImplementsRegister`. For `NoOtherStandstill` the invariant is turned round: a
  mutex that is locked has an owner among the threads, or `wmutex` is leaked (`OwnedR`,
  `OwnedW`). In a standstill each owner waits for the other mutex, and the only pair that can
  is a release in front of a reader (`StandstillMeans`).
- `ValuePool_proofs`: pointers lead to whole strings, strings of one pool are apart,
  and during a remap what is still to be moved fits in what is left of the fresh pool,
  because strings that do not overlap in a block of the same size take no more than
  the block: cardinalities of sets of addresses. From it follow `TypeOK`, `NoDangling`,
  `Disjoint`, `RemapFits`, `RefusedAgainOnlyWhenFull` and the refinement `ImplementsMap`.
- `RBTree_proofs`: the inductive invariant `Inv` says that there are ghosts `T`, the nodes of
  the tree, `B`, the nodes of each subtree, and `H`, the black height of each node, such that
  (`Good`)
  - the heap has the `Shape` of a tree: each node is the parent of its kids, its subtree is
    made of it and theirs, and their keys lie on their sides of it;
  - the `Heights` are the same on both sides of every node, where in `__rb_erase_color` the
    one link that hangs the short paths up is credited with a black node (`Debtor`);
  - red nodes are `Apart`, but for the one at which `rb_insert_color` (`Inserting`) or
    `__rb_erase_color` (`Repairing`) is;
  - a search has left its key below the link it has come to (`Searching`), and the search for
    the successor has left behind only what is larger (`Succeeding`).

  Each of the properties of `RBTree` needs the others. That the loops follow no null pointer
  rests on the heights (a node short of a black one has a sibling, since that one's paths
  are longer) and on the colours (a red parent is not the root); the rotations need those
  pointers to keep the order; and the order is what makes a subtree that is cut out and hung
  in elsewhere fit. The steps are taken apart along the code: a rotation (`RotatedShape`), the
  five cases of the two loops on any tree (`RecolorKeeps`, `TurnEndsClash`, `TurnOutwards`,
  `SiblingTurnsUp`, `RecolorPasses`, `NephewTurnsOut`, `TurnPays`), linking a leaf (`LinkKeeps`),
  cutting out a node with one kid at most (`CutKeeps`). `rb_erase` of a node with two kids, a
  dozen assignments in one go, is shown to be the cutting out of the successor followed by a
  renaming of the erased node to it (`ReplacedIs`, `RenamedShape`).
  `BelowIs` and `PathsAre` tie the ghosts to the tree that the properties speak of: what the links
  lead to, and the black nodes counted on each path. Hence `SearchTree`, `RedBlack`, the
  refinement `ImplementsKeySet`, and `Traversal`.
  That every round leaves fewer nodes ahead (`EveryRoundAdvances`) is the variant of the loops:
  those that go down keep to a subtree of the one they are in; those that go up take the parent
  or the grandparent into what is behind them (`ClimbAdvances`), also where the sibling has been
  turned up in between, which leaves the links below the node as they were (`SameBelow`); and a
  round that ends in a rotation makes the test of its loop fail (`LastRound`).
  Induction over a tree is by contradiction, on the set of the nodes for which a claim
  fails: one of them has no kid in it (`Lowest`), or no parent in it (`Highest`). The walks are
  recursive functions, so that it must be shown that they exist: `UtmostIs` and `ClimbIs` show that
  the key nearest in order solves the equation, and that any solution is that key.
- `PropertyStore_proofs`: the invariant `StoreInv`. What is on its way to the tree through the
  file is a persistent property with a legal name and a value that fits (`WritesPersistent`);
  as long as nothing has parted file and tree, their values are such as a boot does not
  trim (`Trimmed`); what `op_prop_file` has
  read before it empties the file is what the next boot would have read
  (`ReadFollowsMemory`). `FileFollowsMemory` is not inductive without the last, as the file is
  empty in between. What a file puts is taken apart line by line (`LoadedPieces`): the puts before a
  line, its own, and those after it. So a rewrite that has hit its line changes that property
  and no other (`RewrittenLine`), and a line added behind a finished one is the last put of
  its name (`AppendedLine`). Hence `TypeOK`, `FileFollowsMemory`, `RewriteInBounds`; and, since no name
  is both persistent and read-only and every other way to the tree has tested the
  prefix, `ReadOnlyKept`; and `GetShowsTheValue`, which rests on
  where the string in a buffer ends (`EndsAt`): a longer one than the value goes on with
  bytes that are not `Nul`, and these are the buffer's (`ShowsOver`), also after a `memset` of
  the string, which leaves what lies behind it (`ClearedIs`).
- `Battery_proofs`, the percentage: the search of the curve halves the range of rows and never
  leaves out the one that holds the voltage (`Narrows`), so that it finds it in the rounds it
  has (`Found`) and the rounding stays within 0 and 100 (`PercentType`). `PercentInv` adds to
  `TypeOK` and `OnTheSafeSide` what the thread holds between the two reads of the mode
  (`Limiting`). Hence these two, `MovesWithTheMode`, `SmoothingApproaches` (by the stride of the row,
  for any measured voltage) and `RestoreAgrees` (row by row, `ThereAndBack`), for every supply,
  where TLC has three voltages.
- `Battery_proofs`, the timer: a word that the thread has stored is there, or the default's word
  is, after a plug (`StoredOrPlugged`); so it is with the words it has loaded
  (`LoadedOrPlugged`); what is stored last is one of the two limits (`LimitsStored`); and
  after the first test the interval is not 0 (`NotZero`). Mixed words are harmless, since
  the upper word of the default is that of every interval in range. Hence
  `IntervalInRange`, `RestartedInRange` and `PlugKeepsDefault`, none of which is inductive by
  itself: each is silent about the points at which the words are on their way.
- `EchoServer_proofs`: the queue is always the latest pbufs that have arrived, one after
  the other (`Latest`), so that no pbuf is in it twice and one round of the loop frees the
  head and nothing else. With it `PbufsCounted`, then `InOrder`, `EndAccounts` and the
  refinement `ImplementsStream`.
- `NetServers_proofs`: a pcb that is neither bound nor a connection is the pointer's, in
  the middle of a command (`NewIsHeld`); at most one listening pcb is iperf's, and the
  handler says so (`OneIperf`); where the pointer leads at each step of an orderly command
  (`EchoHeld`). Hence `NoPcbLost`, `IperfKnown`, `ServerReachable`.
- `SmallPrograms_proofs`, the leak detector: a pointer not freed since it was handed out is
  that of a live block (`UnfreedLives`), and a block freed once has no file (`FreedHasNoFile`),
  whatever the directory held before. Hence `SecondFreeReported`,
  `LeaksReported` and `OnlyLeaksReported`, together `FilesTellLeaks`.
- The hook: what one thread has found all find (`LookedUp`), and how far a thread
  is in `hook_init` says what is not NULL (`ThreadOK`). Hence `NeverCallsNull`, for C libraries
  that do not have `malloc` without `free`: `hook_init` does not test whether it found `free`.
- The mplayer slave: it has the FIFO open only where somebody has come to read (`ReadBefore`). Hence
  `NeverTheFirst`.
- The echo server with sockets: which descriptors are open at each step (`ServerOpen`,
  `ClientOpen`), and that there are as many as the failed accepts and the running command
  account for (`OpenCounted`), by the cardinality of a set that one call changes by one.
  Hence `FdsReturned`.

The other modules' `TypeOK`, `Exclusion`, `NoTornGet`, `Disjoint`, `InOrder`, `NoPcbLost` and
`RestartedInRange` are proved and are not properties of a run: the refinements, or the
invariants of the run, fail where they would.

Only model-checked: liveness (`GetReturns`, `SetReturns`, `OperationsEnd`, `MeasuresAgain`,
`Drains`), which is out of the prover's reach; of `OperationsEnd` the prover has the variant,
`EveryRoundAdvances`, and TLC the rest. Every other property of a passing run is a
theorem, for every value of the constants. `RetryStores`, `NeverFrozen` and
`RunningMeansRuns` are violated.

## Abstractions

- `PropertyLock` has one property and two characters; `get_property`'s default value is
  not modelled (the shell passes NULL).
- `PropertyStore` is sequential. A name is a sequence of characters and prefix tokens, so
  that the only dots are those at the end of `persist.` and `ro.`. Imported files import
  nothing themselves, and they do not change. `read_file` and `malloc` do not fail. The
  search of `op_prop_file` reads a few bytes behind the text it has allocated; that
  they complete the key is left out. What lies behind a typed word is any of `Leftovers`
  each time (the shell's memory is not in the repository). A buffer without a terminator,
  when a further argument fills it, ends behind its last byte, where the name may or may not
  begin: `CmdGet` lets the `memset` clear the name or not, and what `printf` shows past the
  buffer is left out.
- `Battery` leaves out when the thread is woken, which is `BatteryTimer`'s business, and
  `BatteryTimer` the voltages: a span and a drop are any of the given ones.
- `rb_replace_node` and `rb_augment_*` have no caller and are left out of `RBTree`.
- `EchoServer` counts pbufs, not bytes: a `tcp_write` takes a pbuf or not. What the first
  receive prints (`echoserver.c:151-155`, a copy without a terminator) is left out.
- `NetServers`: a command with too few arguments falls through to `argv[1]`
  (`echoserver.c:306-310`, `iperf.c:35`), which is not modelled; nor is the pcb of an accepted
  connection without memory for `es`, which is closed at once.
- `SocketServer` leaves out the bytes, and with them that a failed `recv` hands -1 to `send`.
- `MallocHook` leaves out printing (which may itself allocate) and what runs at exit.
- `MplayerSlave`: the command that `popen` gets is empty in the code, to be filled in (Step 2);
  what it starts may or may not read the FIFO. A FIFO that is removed again is left out. Two mplayers that read the same FIFO
  count as one.

## Not modelled

The bpftrace demonstration and the examples of the book have no state of their own to
speak of, and `tools/` is third-party. Of the modelled programs what remains is named under
Abstractions.

One extension would be worth its while if this code is developed further: several
properties over several threads (a service composed of `PropertyLock` and `PropertyStore`,
with a second `load_all_props`).
