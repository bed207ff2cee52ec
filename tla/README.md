# A TLA+ model of network-stack

`network-stack` is a key-value network stack in two variants.  The *two-sided*
variant (`client_server_twosided/src`) sends encrypted get/put/delete requests
over eRPC to a server that calls a KV-store; the *one-sided* variant
(`client_server_onesided/src`) lets clients read and write encrypted blocks of
the server's memory through librpma.  This directory holds TLA+ modules that
model both variants from their source, TLC configurations that check them, and
theorems checked by TLAPS.

## 1. Inventory

| Component | State | Operations | Hard behaviours |
|---|---|---|---|
| client: `Client.cpp`, `PendingRequestQueue.cpp`, `sent_message_tag.cpp` | random 54-bit sequence number, ring of 1024 message tags indexed by it, session, thread-local `connected` | `connect`, `get`, `put`, `del`, `prepare_disconnect`, `disconnect`, continuation `decrypt_cont_func`, `queue_full` | busy-wait for one slot; responses in any order, undecryptable, late or missing; a session that cannot be destroyed; wrap of the number; buffers owned by eRPC while a request is outstanding |
| server thread: `ServerThread.cpp`, `req_handler` in `Server.cpp` | `next_seq`, `stay_connected`, rpc object | `req_handler` and the four response functions, `is_seq_valid`, `get_next_seq`, `terminate`, `connect_and_work` | reordered requests against the threshold; silent drops; disconnect while requests are on their way |
| server life-cycle: `Server.cpp` | Nexus, vector of threads | `init`, `host_server`, `close_connection`, `terminate` | threads stopping in any order; deletion under a running thread; `uint8_t` arithmetic; waiting for clients |
| message codec: `client_server_common.{h,cpp}` | global `iv` | seq_op macros, `encrypt_message`, `decrypt_message` | packed fields; failure after part of the output is written; `iv` shared by threads |
| KV-store behind the server (supplied by the application; `tests/untrusted_kv.cpp`) | map from keys to encrypted values | `kv_get`, `kv_put`, `kv_delete` | lookup outside the lock |
| one-sided store: `onesided_*.c`, `client_server_utils.c` | shared memory region, the client's `local_buf`, per-key sequence numbers on both sides, the connection's queues | `rdma_get`, `rdma_put`, `server_get`, `server_put`, `setup_kv_store` | writers without coordination, reads and writes that overlap within a block, writes that fail after they took effect, numbers taken back and used again, completions left behind |
| one-sided end points: the same files | peer, endpoint, memory regions, connection, buffers | `rdma_client_connect`, `rdma_disconnect`, `host_server`, `accept_client`, `shutdown_rdma_server` | release of what a half-finished set-up holds, releases that fail, either side first, a region freed before the connection, a client that connects again |
| eRPC, librpma, OpenSSL | external | | delivery, retransmission, session resets |

Client and server thread interact only through eRPC messages.  A client object
is driven by one thread, and callbacks run inside its calls to the event loop.
Each server thread serves one client; the threads share the KV-store, the
global `iv` and the functions that start and stop them.

What makes a component correct: the client must keep every accepted request in
exactly one slot, call it back once and match responses to requests; client
and server together must look like a KV-store that executes each request at
most once and reports what happened; requests must not be lost while both
sides are up; the server must not delete what its threads use.  In the
one-sided variant client and server share the memory region and, before any
client connects, the table of keys, offsets and first sequence numbers, and
nothing else: a get must return one whole value that is not older than it
should be, a put that reports success must be in the region, RDMA operations
must not meet memory that is freed, and both ends must release what they
acquired.  The hazards behind these properties are listed, at their lines, in `PROJECT.json`.

## 2. Modules

* `ClientServerCommon`: sequence numbers, operations and message formats shared
  by client and server.  A seq_op word is a record of three fields.
* `SeqOpLayout`: the macros on the packed word, as operators, and what they must
  do to the fields; checked by `MCClient` for all small words and proved in
  `SeqOpProofs` for every width.
* `Client`: the client.  `queue` is the ring of message tags, `currentSeq` is
  `current_seq_op`, `outstanding` are the requests whose continuation eRPC has
  still to run, `call` is where the application's thread stands.  `status`,
  `callbacks` and `userBuf` are what the application can observe of its calls,
  which it numbers 1, 2, ... (its `user_tag`).
* `ServerThread`: one server thread, with `ReqHandler` for the whole of
  `req_handler`.  `execs` is a history of what the KV-store executed.
* `TwoSided`: the composition of `Client` and `ServerThread`, which it extends,
  with eRPC between them.  `toServer` are the requests on their way; a step of
  the client is `ClientStep(A)` for an action `A` of `Client`.
* `KvService`: the abstract specification, a linearisable KV-store whose calls
  are accepted or refused, executed at most once and answered accordingly, and
  what is left of that promise after a fault (`AfterFault`).
* `ServerLifecycle`: starting and stopping the server with its threads.
* `OneSidedCommon`: the two processes and the connection between them.
* `OneSidedStore`: the operations on the shared memory region, by RDMA and in
  place, and the queues of the connection.
* `OneSidedEndpoint`: setting up and releasing the two ends.
* `OneSided`: the composition of the last two.  The store's operations run
  between set-up and release; deleting the client's connection discards its
  queues, freeing `local_buf` its content, and a lost connection fails what is
  posted.  A region that is freed under a connected client may be overwritten
  by anyone (`RegionReused`).
* `MCClient`, `MCTwoSided`, `MCOneSided`: the modules TLC is run on.
* `ClientProofs`, `SeqOpProofs`, `TwoSidedProofs`, `TwoSidedDelivery`,
  `ServerLifecycleProofs`, `OneSidedEndpointProofs`, `OneSidedStoreProofs`,
  `OneSidedValueProofs`: theorems.

Correspondence with the code (every definition's lines are in
`PROJECT.json`, "map"):

* `get`, `put` and `del` are two steps, `Call` and `SendRequest`.  Between them
  the thread is in `prepare_new_request`, running the event loop until its slot
  is free; `SendRequest` is all the rest: fill the slot, encrypt, advance the
  number, enqueue.  A failed encryption leaves a filled slot that is not in use.
* `DecryptContFunc(o, msg)` is the whole continuation: the value is written
  into the user's buffer first, then the response is compared with the slot's
  header, and `message_arrived` is called with the number *of the response*.
  For a message that does not decrypt that number is uninitialised or
  unauthenticated, hence any number.
* `disconnect` ignores the result of `destroy_session`.  `DestroySession` either
  ends the session or leaves it up, with all its requests at eRPC; every slot is
  freed and every pending call told TIMEOUT in both cases.
* `Faulty`: a response has failed to decrypt, or `destroy_session` has failed.
  These are the two events after which the client may free, and reuse, slots
  whose buffers eRPC still holds.  They happen in `Spec` like any other step;
  `Faulty` only appears in what is promised.  A reused buffer may also be
  retransmitted with its new content; this is not modelled, and nothing that it
  could change is promised after a fault.
* `ReqHandler(o, m)` is the whole handler.  `is_seq_valid` stores the received
  number in `next_seq`; as `get_next_seq` overwrites it in the same handler that
  intermediate value is not modelled.
* The KV-store is a map with atomic operations; `kv_put` may fail.
* Keys and values are atoms.  A put stores its own call number, so that every
  value is recognisable.  `CryptoMayFail` lets any en- or decryption fail, of
  requests and of responses; it also stands for a reply that is too long for
  its buffer.

* One-sided: a block is accessed in two parts, IV and sequence number first, then
  the value with its MAC, because that is the order in which
  `encrypt_key_value_data` and `decrypt_key_value_data` touch it and the least
  at which a block can be torn; the network cards transfer them in any order.
  A part is described by the put it comes from, `[key, seq, val]`, values being
  the numbers of the puts.  `Decrypts` is the check of `decrypt_key_value_data`:
  both parts from one encryption, for this key, under this side's number.
* `rdma_put` and `rdma_get` are two steps each, up to the wait for a completion
  (`RdmaPut`, `RdmaGet`) and from it to the return (`FetchCompletion`), as are
  `server_put` and `server_get`, one for each part.  `call` is the call a thread
  is in; `result`, `lastPut` and `log` are histories the properties speak of.
* `handles` are the pointers of `ep_data` that are not NULL.  librpma leaves a
  pointer as it is when an object cannot be deleted; such an object is `stuck`.
  `orphans` are the kinds of objects overwritten without an attempt
  to delete them.
* The repository has two server programs, and they release in different orders;
  the server's actions allow both.  The command line server
  (`cli_test/server_test_cli.c`) calls `shutdown_rdma_server` and then frees the
  region: `Shutdown`, `FreeConnection`, `FreeServer`, `FreeKvStore`.  The test
  server (`tests/onesided_test_server.c`) shuts down the same way after its tests
  without encryption, but `test_cleanup_enc` frees or unmaps the region first:
  `TestCleanupEnc`, `FreeConnection`, `FreeServer`.  It does so whatever
  `accept_client` or `wait_for_disconnect_event` returned; the history variable
  `hasty` records that the region was freed without RPMA_CONN_CLOSED having been
  seen.

librpma is modelled from how the code uses it: a connection executes one
operation after the other and queues one completion for each, successful while
the connection is up and with an error afterwards; deleting a connection ends
it even if that reports an error.

eRPC is modelled from how the code uses it: at-most-once delivery of a request,
one continuation per response, arbitrary order (the client retransmits lost
packets, so others overtake), loss only once the session is destroyed or the
server's rpc object is gone; a destroyed session runs no more continuations.
A request may overtake others sent up to `MaxOvertaken` before it: 0 is the order
of sending, and a number above that of all requests is any order.  Sessions that
eRPC itself resets are not modelled.

Definitions whose comment starts with "Seeded fault" are alternatives of the
definition after them, used to confirm that the properties notice the fault.

## 3. Runs

Passing:

* `client` (`MCClient.cfg`): the client alone; every outstanding request may be
  answered by any message at any time.  Ring of 2, sequence numbers modulo 8,
  both parities, two calls plus up to three disconnect messages, so the ring is
  used more than twice and the number wraps.  Checks the type invariant,
  `PendingHasOneSlot`, `CallbackExactlyOnce`, `WindowBound`,
  `OwnResponseCompletes`, and of the seq_op word `MacrosActOnFields` and
  `MaskedComparison`.
* `two_sided` (`MCTwoSided.cfg`): two calls of any kind and up to three disconnect
  messages on a ring of two, any order, a threshold smaller than the ring, any
  en- or decryption failing on either side, forced termination at any time.
  Checks the refinement `ImplementsKvService`, `BuffersBelongToErpc` and
  `DisconnectAcknowledged`.  One key is enough: operations on different keys do
  not interact in the store.
* `wrap` (`MCWrap.cfg`): in-order delivery and threshold 1; three gets or puts and
  the disconnect messages, from initial numbers of both parities from which the
  number passes through 0 at different messages; `destroy_session` may fail
  once, after which the application calls, and disconnects, again.  Checks
  `NoRequestStranded`, and, through the failure, `CallbackExactlyOnce` and
  `ImplementsKvService`; and the type invariant `SystemTypeOK`.
* `live` (`MCLive.cfg`): a ring of three and a threshold of two, smaller than the
  ring as in the code, and requests that overtake each other by one, half of the
  threshold.  Checks `NoRequestStranded`, `AcceptedIsCalledBack` and
  `CallsReturn`.
* `lifecycle` (`MCLifecycle.cfg`): `number_threads` from 0 to 3, `uint8_t` modulo
  4.  `HostedThreads` says which threads there are, `NoUseAfterDelete` and
  `CloseReturns` that they are stopped before they are deleted.
* `onesided` (`MCOneSided.cfg`): the one-sided store, encrypted, with two keys
  and two puts by either side in any combination with any number of gets,
  failing cryptography, failing posts, lost connections and clients that
  connect again.  Two puts are what it takes for one to overwrite, or to reuse
  the number of, another.  Checks `TypeOK`, `GetReturnsOwnPut`, `PutArrived`.
* `onesided_ends` (`MCOneSidedEnds.cfg`): the same system, encrypted and not,
  with one key and one put, where every release of an object may fail too, and
  the server may be either program.  Checks `LiveUnlessHasty`, `ReleasedOnce` and
  `PutsReturn`.

Runs in which TLC finds a violation, each of something the repository says of
itself (details in `PROJECT.json`, "findings"):

* `late_request`: with the threshold below the ring size, as in the code (64
  against 1024), an overtaken request is dropped without an answer.
* `garbled_response`: an undecryptable response frees a slot whose buffers eRPC
  still holds (`BuffersNeverReused`).
* `disconnect_hangs`: `disconnect()` may never return.
* `put_not_arrived`: once a completion could not be fetched it is taken for that
  of the next put, which then returns 0 before its value has arrived.
* `get_hangs`: `rdma_get` waits for a completion after `rpma_read` has failed.

Seen while modelling, without a run of their own:

* the documentation of `host_server`'s parameter `asynchronous`
  (`Server.cpp:54`) has its two values the wrong way round;
* `number_threads = 0` without `asynchronous` wraps to 255 and a server asked for
  no thread starts one for every value of a `uint8_t`; nothing in
  `host_server` or in the tests' argument parsing excludes it (`HostedThreads`
  states it as it is);
* a failed `destroy_session` (`Client.cpp:130`) violates `BuffersNeverReused` as
  well: with `MaxDestroyFails = 1` and `CryptoMayFail = FALSE` TLC finds all slots
  free while eRPC holds a request of a session that is still up.  Status TIMEOUT
  then also clears `connected`, since `disconnect_callback` does not look at it;
  so does INVALID_RESPONSE;
* the test server's `test_cleanup_enc` (`tests/onesided_test_server.c:218`) frees
  the region under a client that is still connected if
  `wait_for_disconnect_event` fails or sees another event: its result is not
  looked at (line 277).  `LiveUnlessHasty` says that nothing else leads there,
  and `GetReturnsOwnPut` is checked with the freed region being overwritten;
* the sequence number check (`Server.cpp:281`) accepts numbers already served,
  so at-most-once execution rests on eRPC delivering each request once;
* `queue_full` (`PendingRequestQueue.cpp:122`) looks at one slot and is true
  although others are free;
* a disconnect message may be lost with its session, and the server thread then
  runs until it is closed by force;
* after a client's put, `server_get` of that key fails until the server puts it
  again: the server's number is never updated, though the comment at
  `client_server_utils.c:397` says "checked and updated";
* the early returns of `rdma_client_connect` keep the peer, and the next attempt
  overwrites it.  `ReleasedOnce` says that this is all that is left behind: it
  does not protect the peer;
* a completion left behind (see `put_not_arrived`) can also make `rdma_get`
  return what an earlier operation left in `local_buf`; `GetReturnsOwnPut` is
  therefore checked and proved without failing waits.

Deadlock is not checked: an application may stop calling, a session ends, and a
server that has shut down does not start again.

Bounds, by name: `MaxRequests` calls; `MaxDestroyFails` failures of
`destroy_session`; `MaxOvertaken` (see section 2); `MaxPending` slots; `SeqMod`
numbers; `AppOps` the operations used; `prepare_disconnect` is used once (guard
`loops = 0`); one session per client object; one `host_server` per process.
One-sided: `MaxPuts` puts of both sides together, `Modes` encrypted or not,
`Seq0` the first sequence number; gets, connects and connection losses are not
bounded. `CryptoMayFail`, `WaitMayFail` and `ReleaseMayFail` switch classes of
failures on; posts, set-up calls and the network may always fail. Sequence
numbers are natural numbers: the code compares the 64-bit counter for equality
only, so its wrap after 2^64 puts of a key adds nothing that can be told apart.

Fairness (`TwoSided!Fairness`, `ServerLifecycle!Fairness`): weak fairness of
the client's thread inside a call, of the server thread's polling loop, of the
delivery of a request and of a response for each slot, and of the steps of
`close_connection`.  Delivery takes eRPC's retransmissions, which last as
long as session and rpc object exist, and an event loop that is run: inside a
call the code does that, and outside of one the application is assumed to go on
calling `run_event_loop_n_times` while it has requests pending, as the
repository's tests do.  `AcceptedIsCalledBack` and `CallsReturn` also need the
bound on overtaking, without which requests are dropped (`late_request`).
`OneSided!Fairness`: the network cards work off what is posted, and a thread
blocked in `rpma_conn_completion_wait` gets a completion that is there.  Nothing
is assumed about which calls an application makes, about clients disconnecting
or about messages being lost.

## 4. Proofs

`ClientProofs` proves, from `CommonAssumption` alone (positive ring size,
number range a multiple of twice the ring size) and for the client in an
arbitrary environment:

* `TypeCorrect`: `[]TypeOK`;
* `RequestsKeepTheirSlot`: `[]PendingHasOneSlot`;
* `CallbackOnce`: `[]CallbackExactlyOnce`;
* `OwnResponses`: the action property `OwnResponseCompletes`;
* `WindowTheorem`: `[]WindowBound`.

The inductive invariant `IInv` adds to them `CallOrder` (calls are made in
order and only the latest can be waiting for a slot, so a new call's number is
in no slot), `SlotOfSeq` and `SlotOfOutstanding` (a slot in use, or known to
eRPC, carries a number that maps to it).  The lemmas `InvalidateKeepsBooks`,
`MessageArrivedKeepsBooks` and `InvalidateAllKeepsBooks` show that ending
requests preserves it, `FillAndSendEffect` that taking a slot does, and one
lemma per action puts them together.  `OwnResponses` rests on `PrevOfNext`:
PREV_SEQ undoes NEXT_SEQ also at the wrap, so that the slot derived from the
response is the slot of the continuation.  `WindowTheorem` needs modular
arithmetic: the ring index has period twice the ring size also across the wrap
(`IndexPeriod`, from `SeqMod % (2 * MaxPending) = 0`), so the number that would
leave the window when the next one is sent belongs to the slot that
`prepare_new_request` has been waiting for, which is not in use.

`SeqOpProofs` proves `MacrosTheorem` (`[]MacrosActOnFields`) and `MaskTheorem`
(`[]MaskedComparison`) for every range of ids and numbers, the code's 2^8 and
2^54 included; the runs use 2 and 8.  Every word is `Low * s + 4 * i + o` for one
number, id and op (`WordsHaveFields`, `Split`), and adding or subtracting `Low`
modulo the word size changes `s` alone, modulo its own range (`StepsOfWord`).

`TwoSidedProofs` is about client and server thread together, for every delivery
order, every threshold and with or without failing en- and decryption and
failing `destroy_session`:

* `SystemTypeCorrect`, `BuffersTheorem`, `DisconnectTheorem`: the invariants
  `SystemTypeOK`, `BuffersBelongToErpc` and `DisconnectAcknowledged`, the last two
  of which hold up to the first fault;
* `Refinement`: `Spec => ImplementsKvService`.

All follow from one inductive invariant `SInv`.  It contains `IInv`, since every
step of the system is a step of the client in an arbitrary environment
(`SystemStepIsClientStep`), and says what that environment really does.  With
and without faults:

* `SessionOrder`: only a connected client is inside a call or has requests at
  eRPC;
* `CallHasKey`, `RequestsMatchCalls`, `BuffersOfGets`: a request at eRPC carries
  operation, key and number of the call that sent it, and a slot points to no
  buffer but that of a get.

Up to the first fault (`~Faulty => Clean`):

* `BuffersHeld`: the slot of a request at eRPC is in use for it.  A response that
  arrives therefore matches, and its continuation frees this slot and no other
  (`ContinuationEndsItsRequest`);
* `OneAnswer`: a request is on its way, or its response is, never both, and
  there is at most one response;
* `ExecutedOnce`: a call has been executed at most once, and not at all while
  its request is still on its way;
* `ResponsesTruthful`: a response reports the outcome of that execution;
* `Acknowledged`: `connected` is cleared by the server's answer.

The refinement maps `exec` to the first execution in the history (`execBar`),
`returned` to the user's buffer and `faulty` to `Faulty`.  `Call` and
`CallWithoutKey` map to `Invoke`, `SendRequest` to `Return` (the call is accepted
or refused), `Serve` to `Execute` if the request passes the checks, the
continuation of a get, put or delete to `Complete`, `DestroySession` to `TimeOut`
of all pending calls, which is also the fault if it fails, and the first
response that does not decrypt to `Garble`: at most one call ends, with
INVALID_RESPONSE, and at most one get's buffer is spoilt, possibly that of a get
that has been called back.  Every other step, a dropped or lost request
included, is a stuttering step.  After the fault every step maps to `AfterFault`,
which promises what an application still can rely on: each call returns once
and ends once, and what it was told first stays.  More cannot be promised: a
stale continuation may then write to, and end, the request that has taken over
its slot.

`TwoSidedDelivery` says when `req_handler` drops no request of its own client
(`[]NoRequestStranded`), if neither cryptography nor `destroy_session` fails:

* `InOrderDelivery`: requests arrive in the order they are sent.  Any threshold
  will do, and the number may wrap; `2 * MaxPending < SeqMod` keeps a full ring
  apart from an empty one.  `LatestOnTheWay` is the invariant: the requests on
  their way are the latest `n` ones, and the oldest of them is the one the server
  expects.
* `BoundedOvertaking`: requests overtake others sent up to `MaxOvertaken` before
  them, `2 * MaxOvertaken <= SeqThreshold`, and the number does not wrap
  (`NoWrap`), for every ring size.  For the code's constants: a threshold of 64
  tolerates that requests overtake up to 32 others, with 1024 in the ring.
  `OvertakenInBound` is the invariant: there is a point behind which no request
  on its way, and none handled last, is more than `MaxOvertaken` late, and
  everything sent after that point is still on its way.  The hypotheses are
  needed: with a ring of 4, TLC finds a dropped request for a threshold of 3 and
  overtaking by 2, and for a threshold of 1 and overtaking by 1; and around the
  wrap for a threshold of 2 and overtaking by 1, because the check compares
  numbers without wrapping.

`ServerLifecycleProofs` proves `DeletedOnlyWhenStopped` (`[]NoUseAfterDelete`) and
`HostServerThreads` (`[]HostedThreads`) for every `number_threads`, 0 included.
The invariant says which objects exist in each phase of `host_server` and that
only threads not yet joined may run.

`OneSidedEndpointProofs` proves `LiveMemory` (`[]LiveUnlessHasty`) and
`NothingLeftBehind` (`[]ReleasedOnce`), whichever calls fail and whichever server
program runs.  `EndInv` says which pointers each side holds in each phase, and
that a connection that is up implies a `connection` pointer on both sides: each
side deletes its connection before it deregisters its memory, and frees it
last, which is why the other's memory cannot vanish under it.  The test server's
`test_cleanup_enc` is the exception, and the theorem says how far it goes: the
region only, and only after `accept_client` or `wait_for_disconnect_event` has
failed.

`OneSidedStoreProofs` proves `TypeCorrect` (`[]TypeOK`), which is not only a
matter of types: a failed put decrements the sequence number, and `SeqInv`
shows that it only takes back what it has itself advanced.  The lemmas
`...Cases` say what each call does, case by case, and are used again in

`OneSidedValueProofs`, which proves `OwnPuts` (`[]GetReturnsOwnPut`) and
`PutsArrive` (`[]PutArrived`) for any number of keys and puts, assuming
`WaitMayFail = FALSE`.  A number that was taken back is used again, so that two
different values can exist under one key and number; the invariant has to say
why none of them is ever mistaken.  Its parts:

* `QueueInv`: there is at most one operation or completion, and it is that of
  the client's current call (this is what fails when a wait can fail);
* `Good`, for every part in the region and in `local_buf` (`MemInv`, `BufInv`):
  under the first number it is a value of the server, under the number of the
  client's last successful put it is that put's value, and under higher
  numbers it may be anything;
* `PutInv` with `Landed`: what a put in progress has transferred is its own
  entry or has been overwritten, by the server or, in a freed region, by anyone
  else (such content decrypts under no number).  When it succeeds `Good` is
  restored for the new number (`PutDoneValues`): the entries of failed puts with
  the same number were all in the block and the buffer, and are gone;
* `NumberInv`: the server's numbers never change, and the client's are above
  them as soon as it has put; `MemInv` adds that under the server's number only
  its last value can have its second part in the region;
* `StartInv`: no client is connected before `setup_kv_store` has filled the
  region.

Only model-checked: liveness (`AcceptedIsCalledBack`, `CallsReturn`,
`CloseReturns`, `PutsReturn`), as liveness and ENABLED are outside the prover's
reach.  Every invariant, action property and refinement that a passing run
checks is also proved.  Four theorems have hypotheses on the constants:
`OwnPuts` and `PutsArrive` (`WaitMayFail = FALSE`) and the two delivery theorems
(above); run `wrap` checks `NoRequestStranded` with a failing `destroy_session`
too, which the theorem leaves out.  All others hold for all values the
assumptions named in the modules allow.

## 5. Not modelled, and the plan

Not modelled:

* creation of the client's Nexus and of message buffers, `~Client`, lengths and
  layout of messages, reconnecting a client object, sessions reset by eRPC,
  calls made from inside a callback, several clients sharing the KV-store,
  `NO_ENCRYPTION` builds (they differ in the codec only);
* the shared counter `iv`: its increments are unsynchronised plain accesses;
* `tests/untrusted_kv.cpp`: test code behind the interface the application
  supplies;
* of the one-sided variant, sizes and offsets (every key has its own block),
  several server processes, calls before a connection exists, and a second
  `rdma_disconnect` without a connect in between, which would free `local_buf`
  twice (`free_client` does not clear it);
* tests, benchmarks and build scripts.

Next: `OneSided` with the waits failing, that is, what a get still guarantees
once a completion has been left behind.
