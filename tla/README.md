# MRHC in TLA+

MRHC is an Apache module that shows a remote desktop in a browser. A request with
`host:port:password` as basic authentication opens a VNC session; every later request may carry a
key or a pointer position, which the module sends to the VNC server, and gets a JPEG of the screen
back; a form with a `logout` field closes the session. The module keeps one `vnc_client` in a global
pointer, speaks RFB over a blocking socket, and has no lock.

These modules describe that program as it is written, and the message queues its author tried out
under `sandbox`. Line numbers in comments refer to `src/src/mod_mrhc.cpp` in `MrhcHandler` and to
`src/src/vnc_client.cpp` in the client modules; `PROJECT.json` maps every definition to its lines.

## 1. Inventory

| component | state | operations | works with | hard behaviour | correct when |
|---|---|---|---|---|---|
| content handler, `mod_mrhc.cpp` 63-196 | the global `client_cache`; per request the local pointer | `mrhc_handler`, `mrhc_spin`, `mrhc_confirm`, `mrhc_throw` | Apache's worker threads call it; it owns and calls a `vnc_client` | unlocked test, publish, delete and use of one pointer; a client is cached even when its handshake failed | one session, named by the pointer; no use after delete, no leak (neither of which it keeps when requests overlap) |
| RFB client, `vnc_client.cpp`, `rfb_protocol.h` | socket, version, challenge, screen size, pixel format, `image_buf`, `jpeg_buf` | `initialize`, `authenticate`, `configure`, `operate`, `capture` and a send or recv for each message | the VNC server, by messages over TCP | one `recv` per field and only -1 is an error: short reads, end of file, messages nobody asked for, names and texts longer than their buffers, versions | believes it is authenticated only when it is; stays in step with the stream; draws what it received, and what belongs to the request; calls return |
| pixel loop, `recv_rectangle` 675-735 | `total_recv`, `image_buf` | recv in pieces, cut into 4-byte pixels | stream below, `draw_image` above | pieces of any length, 32-bit byte count, end of file | every byte once and in order, no byte too many, enough pixels, ends |
| connect with a timeout, 20-106 | socket flags, `errno` | `connect_with_timeout` | kernel | timeout against completion | a client that gave up never takes itself for connected |
| one client, several threads | the client's socket and buffers; each thread's locals | `operate`, `capture`, the copy of `jpeg_buf` in `mrhc_throw` | handler above, RFB client below | no lock: requests and answers on one stream, one `image_buf`, one `jpeg_buf` | a browser is sent the picture of its own capture, a key request the last whole one |
| painting, 802-861 | `image`, `jpeg_buf` | `draw_image`, `draw_pointer` | OpenCV | overlapping squares | each pixel shows its own value |
| requests, `mod_mrhc.cpp` 198-215, 293-367, `vnc_client.cpp` 568-590 | none | `split_string`, `mrhc_query`, credentials, `operate` | browser above, RFB client below | uncaught `stoi`, missing fields, host and password longer than their buffers, narrowing to 16 and 8 bits, keys that are delimiters | what the user did is what the VNC server is told |
| browser page, 217-289 | a 5-second timer in the browser | polls, clicks, keys | the handler | requests that overlap; a query appended to the one the page was loaded with | adds nothing the parser cannot read |
| key codes, 776-800 | none | `convert_key_to_code` | X11 table | | a key that has a code is sent with it |
| DES, `d3des.cpp` | the global key register `KnL` | `deskey`, `des` | `send_vnc_auth_response` | register shared by threads; a password of fewer than eight bytes | a response is made with the key of its own password |
| logger, `logger.cpp` | a singleton and its file | `get_logger`, `log*` | everything | unguarded creation, sticky error flags of the stream | what is logged is written |
| message queues, `sandbox/std_thread` | a bounded queue, a mutex, two conditions | `push`, `pop`, `close`, `abort` | their own producer and consumer threads | who is woken, and when: only on the edge from empty or full | first in, first out, bounded; no lost wake-up; every `join` returns |
| rest of sandbox | semaphores, shared memory, sockets | experiments | nothing in the module | | |
| VNC server | external | | | | |

`PROJECT.json` lists the same parts with their status, and under `hazards` the places where this
code can go wrong in a way that a test would hardly reach.

## 2. Modules

| module | models |
|---|---|
| `Session` | abstract: at most one open session, and the pointer names it |
| `MrhcHandler` | the handler, run by the worker threads of one process |
| `MrhcHandlerProofs` | its safety, what a lost client takes, and that it implements `Session` |
| `RecvRectangle` | the pixel loop, in bytes |
| `RecvRectangleProofs` | its safety |
| `VncClient` | the RFB client, one action per send or recv |
| `VncClientProofs` | what the client makes of a stream of whole messages, one `recv` at a time |
| `RfbStream` | the messages of a VNC server, as sequences of units (external) |
| `RfbServer` | the VNC server, as far as the client can see (external) |
| `VncSession` | client and server composed |
| `VncSessionProofs` | who takes itself for authenticated is and who takes itself for failed was never granted; the client stays in step and draws whole updates |
| `SharedClient` | two threads in the methods of one client, composed of two `VncClient`s, `RfbServer` and the copy of the picture |
| `SharedClientProofs` | what is left for the next request and sent to each browser while captures do not overlap |
| `Requests` | page, query, credentials, key codes, `operate` |
| `RequestsProofs` | how texts are cut; what the page makes of any address it was loaded from; clicks and keys arrive; credentials that fit are read as entered |
| `Globals` | the logger and the key register, statics that threads share |
| `GlobalsProofs` | its safety |
| `Channel` | abstract: a bounded first-in-first-out channel that can be shut |
| `MessageQueue` | the four `m_queue` classes and their programs |
| `MessageQueueProofs` | their safety, and that each implements `Channel` |
| `MCMrhcHandler`, `MCVncSession`, `MCSharedClient`, `MCRequests`, `MCGlobals`, `MCMessageQueue` | values for the constants |

### How state and actions correspond to the code

**`MrhcHandler`.** `client_cache` is the global. `client[t]` is the pointer thread `t` holds in a
local variable, an argument, or the register the compiler loaded it to. `alive` is the set of
objects that `new` returned and `delete` has not taken. `pc[t]` is the next line that touches shared
state, and each action is the code from there to the next such line: `CheckCache` (77), `Authorize`
(79-94), `Spin` (95-97), `Publish` (98), `Confirm` (106), `Logout` (108), `Delete` (109), `Reset`
(110-113), `Load` (118, 169-175), `Operate`, `Capture`, `SendJpeg` (174-195). What the request
carries and what the methods return are choices. `client_cache` is an ordinary variable, so two
threads that access it race; `Delete` chooses whether the compiled code deletes the pointer it
tested or one it loads again. An object identity is used again only when no pointer to it is left,
so that a stale pointer can be told from a fresh one. `Abort` is an exception nobody catches, or a
copy past the end of a buffer, also while a client spins (the server's name): the process ends with
all its threads and its session, and Apache starts another. `Requests` shows which requests do that.
`crossed` records that two threads were between lines 77 and 98, or two between 108 and 110, at the
same time. `fault` records that a deleted object was used or deleted; the model goes on, since the
program may.

`Serial` is a constant: FALSE is the program with Apache's worker threads; TRUE adds that a request
comes after the last one was answered. The page itself does not guarantee that (a timer and key
events send requests freely): TRUE is what the program needs, not what it has.

**`RecvRectangle`.** A byte is its offset in the rectangle; an entry of `image_buf` is the range of
offsets that the code copied to it. `Recv(n)` is one turn of the loop for a piece of `n` bytes,
`RecvNothing` a turn for which `recv` returned 0, `RecvError` -1. `Word` stands for 2^32.

**`VncClient`, `RfbServer`, `VncSession`.** The stream is a sequence of units; a field of a message
is one unit, or two where the code could see half of it (version, challenge, result). `Lengths(max)`
is what `recv` can return, and `Field(n, i)` is what the zero-filled structure then holds. The
program counter `pc` names the next send or recv. `spun` is what `mrhc_spin` returned; the client is
used whatever it was, as the handler does. The value of a pixel is the number of the update request
it answers, so that the age of a picture can be stated. The server announces a version, follows it,
and may deny the password, merge update requests, insert a bell, a colour map or a cut text, close
its end, or lose the connection. It may refuse all security types (`Refuse`). It also reads bytes
where it expects others (`Misread`), since the client answers a 3.3 server with the messages of 3.7.
When the client draws more pixels than it has, or an empty picture, the process may end
(`DrawImageCrashes`). A name or a text is as many units as its length says. `recv_server_init` asks
for `NameRoom` of the name, and what is left of a longer one stays in the stream; a name or a text
of `BufRoom` or more overruns its buffer, which can end the process (`RecvServerInitCrashes`,
`RecvTextCrashes`) or not. `overlong` records that there was no room, `early` that a message nobody
asked for came behind a `ServerInit` that had not been read, of which it is then taken for a part,
and `torn` that a read ended inside a message or inside a pixel (`TakePixels`: both parts are
pushed). A connection may be in progress (`connecting`): `Select` gives up on it and the client is
cached all the same, the connection may come up afterwards, and the client then throws at a server
that waits for a version.

**`SharedClient`.** Threads A and B are two instances of `VncClient` that have their own locals
(`pc`, `message_type`, `todo`, ...) and share the socket and the client's members. `Follow` adds
what a step of a method means outside it: `clear_buf` with the request, `draw_image` into `image`,
the encoding into `jpeg_buf` (in two steps, `Torn` in between), and the copy for the browser (two
steps, too: what another thread changes in between is torn). The client has been spun; the
connection may break at any moment (`Disconnect`, bounded by `MaxFault`), after which sends and
receives fail. `After` says where a request is after a step of a method: a method that fails ends it
without a picture, and a capture that fails after `clear_buf` leaves `jpeg_buf` empty (`Fails`,
remembered in `failed`). `clashed` records that a capture began while another thread's was between
`clear_buf` and the end of its copy; from then on no new request is begun, which keeps the state
space small and loses nothing, since every property is about runs before that.

**`Requests`.** A text is a sequence of tokens (`Token`), each of so many bytes (`Size`); delimiters
are tokens. `Path` is what the address the page was loaded from has after `/mrhc`: nothing, or a
query. The page asks for its picture there, and its script there with `?` and its own query behind
(`Address`), so that an address with a query gets a second one, of which `QueryOf` takes all behind
the first `?`. `Items` is the loop of `split_string`, `Cut` what one more token does to the items so
far. `Ask` and `Enter` are the page and the browser, `Parse` is `mrhc_query`, `Authenticate` the
reading of the credentials, `Operate` the events `operate` sends. An outcome is `ok`, `refused`
(401), `abort` (an exception that ends the process) or `undefined` (an item read behind the vector,
or a host or password that does not fit its buffer of `BUF_SIZE`, after which nothing is claimed).

**`Globals`.** `instance`, `opened` and `good` are the logger's pointer, whether its file is open,
and whether the stream's error flags are clear. `GetLogger` is the test of line 15, `Create` the
assignment, `Open` the `open` of a stream that may be open already, `Write` a line logged. `KnL`
says of each word of the register which key it belongs to. `Deskey` works out the schedule on the
thread's stack, for a short password with whatever lies behind the string (`Junk`); `UseKey` stores
one word, `Des` loads one; `NextBlock` goes on to the second half of the challenge or ends. `used`
collects the keys of the words a response was made with.

**`MessageQueue`.** `style` names the class. A call holds the mutex except in `wait`, so that each
visit to the critical section is one action: `PushItem`, `PushWaits`, `PushThrows`, the same for
`pop`, `Close`, `Abort`. `waiting` is who is asleep; a woken thread looks again, as the loops around
the waits do. `Notify` has the three rules; `edge` is `do_signal`, taken before the queue changes.
An item is its producer and its number; the `-1` that ends a consumer is the one after the last. The
programs start one producer and one consumer (a second consumer is commented out in them); here it
is any number of each.

## 3. Runs

| run | question | result |
|---|---|---|
| `handler_overlap` | what survives when requests of one process overlap in every way? | no method is called through NULL; a client that spins is private; the pointer dangles only between lines 109 and 110 of some thread; a client is lost only if two first requests, or two logouts, crossed |
| `handler_serial` | is the handler right when requests do not overlap? | nothing deleted is used, nothing leaks, it implements `Session` |
| `handler_fault` | and is it memory safe when they do? | **violated**: finding 1 |
| `rect` | is the pixel loop right for every way the stream can be cut? | all bytes once and in order, none too many, enough pixels when the byte count did not wrap, ends unless the server closed in the middle |
| `requests` | is what the user does what the VNC server is told? | on a page loaded without a query, for polls, for clicks other than at (0, 0), for keys other than `&`, `=` and `#`; on any page, the script's requests make the parser throw only if the page's own picture did; host and password are read as entered if they fit |
| `vnc_safe` | what does the client believe and draw, and where is it in the stream? | on a stream no read has cut, a client that takes itself for authenticated is, and one that failed was never granted; if no name or text was too long and nothing came too early, it stands at the start of a message, draws an update whole, and a picture lags by the number of captures that received something else |
| `vnc_live` | does the handshake succeed or fail for a reason, and does a capture return? | yes, on a stream that is not cut, with a server of a version the client follows; a name that is too long may end the process |
| `vnc_reflected` | does a picture show the operation of its request? | **violated**: finding 2 |
| `vnc_old` | is a 3.3 server not waited for for ever? | **violated**: finding 3 |
| `shared_client` | what may several threads do on one client without a lock? | everything but capture at the same time: keys and pointers of others between a request and its answer, and copies of the last picture, do not spoil the picture; a key request is sent the last picture, or an empty one if the last capture failed |
| `globals` | what do threads do to the logger and to the key register? | the log is lost for good only when two threads create the logger at once; a response is made with its own key unless the password is short or another key was stored meanwhile |
| `queues` | do the four queues lose a wake-up, an item or a thread? | no, with a caveat for `edge`: see below |

Three of these are worth spelling out.

* A lock around the capture, from `clear_buf` to the copy of `jpeg_buf`, is what the handler is
  missing. `OwnPicture` and `BufferAtRest` say that it would be enough: input need not be locked
  out.
* A log write that comes between the creation of the logger and the opening of its file is lost, and
  sets an error flag, but the `open` that follows clears it. Only a second `open` of the open file
  sets the flag for good.
* The class that notifies one waiter on the edge (`m_queue_with_cond_improve`) keeps every wake-up
  while no thread of that side has ended. A consumer that ends with its `-1` may have taken along
  the wake-up another needs, and a program with two consumers could then hang: `NoLostWakeup` makes
  that exception (`SoundGroup`) and `EveryoneEnds` asks for one producer and one consumer.
  `m_queue_with_close`, whose `close` wakes all, is right for any number.

### Bounds

* `handler_overlap`: 3 threads, 3 clients: a login, a logout and a capture can overlap, or two of a
  kind and a third; with one client cached, one leaked and one new all roles an object can have are
  filled. When all identities leaked, `Authorize` can only refuse. `handler_fault` needs 2 threads.
  The proofs hold for any sets.
* `handler_serial`: 3 threads, of which one at a time is busy.
* `rect`: rectangles of 0 to 5 pixels, a buffer of two pixels, so that a rectangle takes one to
  three full pieces and any number of smaller ones, and a word of 128, so that 4 pixels wrap to
  exactly zero bytes and 5 to fewer than there are. The proof holds for any values.
* `requests`: positions and buttons at 0, small and large; one key for each row of the table, for
  X11, for none and for each delimiter; a page loaded without a query or with one of 1,122 of up to
  two parameters over eight kinds of value (missing, empty, a number, one too large for 16 bits, one
  too long for an int, a word and a number in either order, a second `=`), since what the script
  appends runs into the last parameter and what comes before it is read on its own; every login over
  six hosts, six ports and six passwords, with and without a colon in each, and with a text that
  just fits its buffer of 1024 and one that just does not.
* `vnc_safe`: three kinds of version (3.7 differs from 3.8 only in the reason for a failure, and is
  in `vnc_live`); a screen of 2 pixels as one rectangle or two; names that fit and that do not, of
  which the second also overruns (`NameRoom` 2, `BufRoom` 3, `Names` 1 and 3); texts of no length
  and of one that fills the buffer (`Texts` 0 and 3), a colour map of two; 3 requests (`MaxThrow`),
  so that a picture can be late by two; 2 messages nobody asked for (`MaxNews`); 1 read that is cut
  (`MaxFrag`); 1 broken or closed connection (`MaxFault`), anywhere. The properties that assume a
  whole stream (`Whole`, `Orderly`) are not vacuous: most behaviours have no cut and a name that
  fits, or have the cut only later. The proofs hold for any lengths and rooms.
* `vnc_live`: the same with all four versions, 2 requests and 1 such message. The other two `vnc_*`
  runs have what their counterexample needs.
* `shared_client`: a screen of 2 pixels in one rectangle or two; 2 requests by each thread, with a
  key, a pointer or nothing; 1 message nobody asked for or 1 connection that breaks or is closed
  (`MaxSurprise`: not both in one behaviour). That is enough for a capture to be interrupted by the
  whole of a key request, for a key request to be interrupted by a capture, and for a second capture
  to find what the first left. No read is cut (`MaxFrag` is 0), so that `Orderly` excludes only
  overlaps here; the theorems are for any `MaxFrag` and `MaxSurprise`.
* `globals`: 2 threads, a register of 2 words for the 32 (one that is overwritten and one that is
  not, in either order), 2 long passwords and a short one. Each thread logs and answers as often as
  it likes.
* `queues`: every number of producers and consumers up to two, 3 items each, a queue of 2, so that
  it is full and empty again with threads asleep on both sides. The bounds of the proofs are none.

Deadlock is checked for `MrhcHandler` and `Globals`. It is not for `RecvRectangle`, `Requests` and
`MessageQueue`, which end (`EveryoneEnds` says that threads of the last do), nor for `SharedClient`,
which stops after its requests, nor for `VncSession`, where the session ends with `Destroy`, and
where a client may wait for a server that is not going to speak (finding 3): a wait that matters is
a liveness property there.

### Fairness

The handler has none: whether a request is answered depends on whether the calls of `vnc_client`
return, and they need not (a server that closes in the middle of a rectangle, a 3.3 server, two
captures that read from one socket).


* `RecvRectangle!FairSpec`: weak fairness of `Step`: the rectangle that was announced arrives, or
  the connection ends. `Disconnect` is never forced.
* `VncSession!FairSpec`: weak fairness of the client's calls and of the server's duties (`Serve`).
  Requests of the browser, messages nobody asked for and disconnections are not forced.
* `MessageQueue!FairSpec`: weak fairness of each thread that is awake. It gets the mutex in the end,
  since whoever holds it gives it back after a few statements. Nobody is woken by fairness:
  `Spurious` is never forced, so that `EveryoneEnds` rests on the notifications alone.

## 4. Proofs

TLAPS checks these for all values of the constants, from the named assumptions alone:
`NullAssumption` and `SerialAssumption` of the handler; `BufAssumption`, `WordAssumption` and
`PixelAssumption` of the pixel loop; `VersionsAssumption` (versions are numbers), `WidthAssumption`
(so is the screen), `LengthsAssumption` (so are the lengths of names, colour maps and texts),
`RoomAssumption` (a buffer has room for something) and `SplitsAssumption` (the rectangles of an
update cover the screen, however it is cut) of the session and, but for the first, of the shared
client; `ThreadAssumption` (nobody both produces and consumes), `CapacityAssumption` and
`ItemsAssumption` of the queues; `ShortAssumption`, `NoneAssumption` and `WordAssumption` (the
register has a word) of the globals; and of the requests `TokenAssumption` (the words of the page's
script are tokens), `SizeAssumption` (a token has a number of bytes), `NumberAssumption` (a number
has no delimiter in it, and is too long for an int or not), `ClickAssumption` (a position has 16
bits, as the size of the picture has, and the button is one of eight: the page sends 0 and 2),
`DigitsAssumption` (the browser can write the numbers of a click) and `TypedAssumption` (what is
typed is a text, and an address goes on with `?` or not at all).

* `OverlapSafe`: `TypeOK`, `NoNullUse`, `PrivateUntilPublished`, `DanglingOnlyInWindow` are
  invariants of `MrhcHandler`, overlap or not. The inductive invariant `OverlapInv` adds
  `HoldsClient`: a thread that is about to delete or to call holds a pointer that was not NULL.
  Without it the window could not be attributed: `Delete` may delete what the thread loaded or what
  the global is now, and only with the thread's own pointer known to be an object is the global,
  dangling or not, accounted for by the thread's move to `reset`. `OverlapStep` has one step for
  each action.
* `LostOnlyByCrossing`: `LostOnlyIfCrossed` for any threads. `NotCrossed` says what the tests of
  lines 77 and 108 found and why it still holds when the thread gets to 98 and 110: another thread
  can change the global only in a section that would have to cross this one, or by a logout, which a
  thread that found NULL does not mind. `CrossInv` is that or `crossed`.
* `SerialSafe`: with `Serial`, nothing deleted is used (`NoFault`) and nothing is leaked
  (`NoLostClient`). `SerialInv` adds `OneAtATime` and `CacheAsTested`: what line 77 found is still
  true at the line the thread has reached, which is exactly what overlapping requests break.
* `SerialSession`: with `Serial`, `MrhcHandler` implements `Session`. `Publish` is `Open`, `Delete`
  is `Close`, every other action leaves the mapped variables unchanged; `SerialInv` supplies that
  the object published is new and the one deleted is the current one. `SerialOneSession` draws the
  conclusion: at most one session is open and `client_cache` names it.
* `RectangleSafe`: for any buffer that is a multiple of 4, any word, any rectangle: `TypeOK`,
  `StaysInRectangle`, `ExactCover`, `WholeIfAligned`, `EnoughPixels`. `RectangleInv` adds that the
  bytes received are at most four times the entries and that the loop ended only with all bytes; the
  lemmas `BytesNat` and `BytesExact` say what the 32-bit byte count is, `PixelsShape` and
  `AppendPieces` what a piece adds.
* `AuthenticationSound`: `AuthSound` for any set of versions, any screen and any number of faults,
  cuts and messages. The property alone is not inductive: that a zero in the result means success
  depends on everything the two have said before. `Exchange` says what is on its way in either
  direction at each point of a handshake on a whole stream, the misread 3.3 handshake included, and
  `AuthInv` adds who may still have a connection in progress. A client whose `select` gave up is the
  hard case: the connection may come up later, and the client then throws at a server that waits for
  a version; `spun = "failed"` is what tells it apart. Steps on a stream that is cut (`TornStep`)
  and steps that fail (`FailStep`) are dealt with once, so that `WholeStep` leaves only what was
  exchanged to show. Each of the client's and the server's actions has a lemma.
* `FailureIsAgreed`: `FailureAgreed`, the other half: a client that failed on a whole stream, and is
  cached all the same, meets a server that has not read its version, expects one, or has denied it.
  `FailedInv` adds to `AuthInv` that such a server is offered nothing but the messages of a request
  (`Refused`), which it reads as no version.
* `SessionInStep`, `SessionDraws`, `SessionStale`: `InStep`, `DrawsUpdate` and `StaleBound` for any
  screen, any ways to cut it into rectangles, any lengths of names, colour maps and texts, any
  rooms, and any number of requests, faults, cuts and messages nobody asked for. That the next unit
  begins a message is not inductive; nor is any finite list of what may be on its way, since nothing
  bounds the updates that wait in the stream or the rectangles of one. `VncClientProofs` therefore
  treats what waits as the label of a path: a `Place` is where a reader stands in a message (with
  the rectangles, pixels or colours still to come and the pixels drawn), `Reads` says which units
  take it from one place to the next, and `Run` that all of a sequence does. The invariant is
  `Aligned`: what waits is a `Run` from the place where the client stands (`Standing`, from its
  program counter and its loop counters) to the start of a message. The client's side of a step is
  that a read of a whole field follows the path (`Receives`, one lemma for each recv); the server's,
  that a whole message leads from the start of a message to the start of one (`UpdateRun`,
  `NewsRun`, `HelloRun`) and can be put behind what waits (`RunJoin`). `Picture` says what the
  client has received so far: pixels of this update or a later one, and when it draws as many as the
  screen has. `Tally` bounds the updates by the requests (`Told`, the same idea for the stream of
  requests). `Knows` is what the handshake has established, and rests on `AuthInv`. `Sync` is the
  conjunction.

  These are statements about sequences of any length, and so inductions over data, which the
  library's induction theorems cannot be used for. `SetInduction` is one that can: the statement is
  a set of numbers instead of an operator, and it is proved from the well-foundedness of the
  naturals. It is used where the length of something is not known: the pixels of a rectangle
  (`PixelsRun`), the rectangles of an update (`RectanglesRun`) and the fold that concatenates them
  (`FlattenIs`).
* `SessionTypes` and `SharedTypes`: the loops over rectangles, pixels and colours count down to zero
  and not below, whatever the stream brings, cuts included.
* `SharedOwnPicture` and `SharedBufferAtRest`: `OwnPicture` and `BufferAtRest` of `SharedClient`.
  The invariant `SharedInv` has three parts. `Settled` says, whatever happens, of each thread where
  it may be in its request, and when it captures. `AtRest`, while no two captures overlapped and on
  any connection, follows the picture through `image`, `jpeg_buf`, the copy and the reply, the
  captures that fail included. `Order`, on an orderly connection, says that the thread that captures
  is the only one, that its request is the last one sent and that what waits in the stream leads
  from where it stands to the start of a message (`Turns`), from which, with `served <= asked <=
  reqs`, every pixel it has is of its own update (`Shows`). The lemmas of `VncClientProofs` are used
  for both threads, by two instances. What is not obvious is that a thread that only sends keys, or
  copies a picture, may run at any moment: the place of the stream belongs to the one thread that
  captures, and is handed over at the end of its copy, when both stand between two messages. Without
  `mine[t] = reqs` the picture could be of another thread's request; without the thread that
  captures being one, `jpeg_buf` could change under its copy.
* `SplitsExact`, `InputToldAsMade`, `PageParsed`, `EnteredAsRead` and `RequestTypes`: the five
  invariants of `Requests`, for any address the page was loaded from, any reading and any size of
  words and numbers, any table of keys, any clicks, keys and logins. The invariant `Progress` is
  simple, since one request is followed: it says which function of what the user did each variable
  holds when. The work is in those functions, which loop over a text. That cutting a text is exact
  (`SplitIsExact`: the items, each with the delimiter before it, are the text with one before it) is
  an induction over the text; so is that a text that goes on without a delimiter only makes the last
  item longer (`ItemsMore`), from which `SplitJoin` follows: a delimiter and a text without one add
  one item. `mrhc_query` keeps the widths of an operation whatever it is given (`QueryTyped`, an
  induction over the parameters), and what the page writes for a poll, a click and a key is cut and
  read with these lemmas (`PollRead`, `ClickRead`, `KeyRead`, the last with a case for each key that
  an address drops or that is a delimiter of it). What the script appends runs into the last
  parameter of the page's own query: that it is read if the page's own query was is an induction
  over the parameters again (`ItemsJoin`, `QueryFine`, `FineMore`, `PageFine`). Whether a host or
  password fits is a sum over its tokens (`BytesAppend`), and the part of a password before its
  first colon is no longer than it (`FirstItem`).
* `WakeupsArrive`: `NoLostWakeup` for any number of threads, any capacity, all four classes.
  `WakeInv` adds what differs from class to class: with `all` nobody sleeps through a queue he could
  use, after `close` or `abort` nobody sleeps, with `close` no thread ends before that. The edge
  rule is why the theorem is not obvious: between the push that wakes one consumer and that
  consumer's turn more pushes wake nobody, and it is the woken one, awake, that keeps the others
  from being all asleep.
* `CloseDrains`: whoever is told that the queue is closed finds it empty, and it stays so.
* `QueueImplementsChannel`: each class implements `Channel`, where `sent` is what was popped and
  what is in the queue. Waiting, waking and throwing leave it unchanged.
* `LogSafe` and `ResponsesRight`: `LogKept` and `ResponseRight` for any number of threads and any
  register. `LogInv` follows the one creator through `create` and `open`; `DesInv` says that each
  word a thread has stored, or has read, is its own or of a thread that stored meanwhile.
* The type invariants of these modules are `HandlerTyped`, `RectangleTyped`, `QueueTyped`,
  `GlobalsTyped`, `SessionTypes`, `SharedTypes` and `RequestTypes`. `NeverCallsNull`, `SpinsAlone`,
  `SerialKeeps`, `NeverReadsOn`, `DrawsWhatIsThere` and `AlignedIsWhole` state single conjuncts of
  the theorems above.

Only model-checked are the liveness properties (`LoopEnds`, `HandshakeEnds`, `CaptureEnds`,
`EveryoneEnds`), which rest on fairness, out of the prover's reach. Every safety property of a
passing run is a theorem.

## 5. Findings

1. `handler_fault`: the comment above `client_cache` says a single process is supported. In a single
   process with worker threads, a logout deletes the object another thread has just loaded, or
   deletes it twice.
2. `vnc_reflected`: a capture takes one message of any type. After one bell, every picture is the
   answer to the request before. (The capture that took the bell draws from an empty `image_buf`,
   and reads past its end.)
3. `vnc_old`: the client accepts 3.3 and then speaks 3.7; it can wait for ever.

Some limits are not a disagreement with anything the repository says; the properties except them by
name, and so say that nothing else goes wrong. A `recv` that ends inside a pixel makes two entries
of it, both wrong, and shifts every pixel after it (`WholeIfAligned`, `torn`). A security result cut
short reads as success (`Whole`). A name over 256 bytes, or a message behind a shorter one, puts the
client out of step (`overlong`, `early`). A page loaded at an address with a query appends to it, so
that every poll repeats the click in it (`InputArrives` is about pages without one). Two captures at
once mix up their answers (`clashed`).

## 6. Not modelled

* Painting: OpenCV decides what an anti-aliased square leaves of the pixels beside it. `VncClient`
  has how many pixels are read, and from which update. Positions of rectangles are not used by the
  code.
* What a copy past the end of a buffer overwrites (the name at `vnc_client.cpp` 275, a text at 767,
  host and password at `mod_mrhc.cpp` 333 and 346): the process may end, or go on with its own state
  as it was; what else it may do is up to the build, and nothing is claimed of it.
* Wording, HTML, logging, and the bytes of names and passwords, apart from how many there are: no
  property depends on them.
* The DES algorithm: a public cipher; `Globals` has which key its register holds, and `RfbServer`
  whether the response answers its challenge.
* Two writes to the log file at the very same moment: what the stream's buffer then holds is the
  library's.
* Where a pixel is painted: the modelled screens are one row.
* Several Apache processes: each has its own `client_cache` and socket, so that a request can be
  served by a process that has no session. They share no state; the program says it does not support
  them.
* `sandbox` apart from the queues: samples of system calls, and two threads that share nothing
  (`std_thread.cpp`).
* A drag that two overlapping clicks make, and the order in which keys typed fast arrive: nothing in
  the code orders requests, and so there is no promise to state.
