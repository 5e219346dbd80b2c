# A verification project for iot_arch_project1

The repository is a school IoT project: tag readers on Pico W boards, a backend that
knows the tags, and a web server with a login. The parts were written by several people
under `src/RnD/<author>/`. This directory holds TLA+ models of the parts whose behaviour
is concurrent or fails in interesting ways, the TLC runs that check them, and TLAPS
proofs of their most important invariants.

Paths below are relative to `src/RnD/`; `http.c` is `Rackhamn/http/src/http.c`,
`main.c`/`network.c` are in `stormtomten/pico_reader/src/`, and the backend's `main.c` in
`stormtomten/tcp_backend/src/`; `main.py` is in `Gabbemannen00/pico_w/` and its clients in
`Gabbemannen00/pi_zero/scripts/`. `PROJECT.json` maps every definition to its lines.

## 1. Inventory

| Component | State | Operations | What is hard |
|---|---|---|---|
| **HTTP server, task queue and threads** (`http.c`, 300-600 and 2300-2560) | a ring of sockets with front, rear and count; `running`; one mutex, **one** condition variable for both sides; 4 workers, a CLI thread, main, a signal handler | `task_enqueue`, `task_dequeue`, `mt_worker`, the accept loop, `quit`, SIGINT | lost and misdirected wake-ups, the shutdown (flag and broadcast outside the mutex), reads without a time-out |
| **HTTP server, sessions and API** (`http.c`, 1330-1990) | the login hash table (512 slots), `login_mutex`, a JSON arena per worker, a cookie per browser | look-up, login, logout, `/user`, `/tags`, pages | a pointer into the table used after the unlock; holes in probe sequences; an arena that only a login clears |
| **Watchdog** (`watchdog.c`) and the server's start (`http.c`, 2239-2465) | the child's pid; options and root directory | fork/exec, wait, restart; option parsing, sockets | a crash between two steps of a request; a failed `execvp` or `--help` looks like a clean exit |
| **Pico reader (C)** (`main.c`, `network.c`) | `client_pcb`, three flags, two buffers, the connection's start time | the main loop; `on_connected`, `on_recv`, `on_error` | callbacks run from an interrupt between any two statements, with no lock; callbacks outlive their connection; a retry after a time-out; `on_error` closes what lwIP frees itself |
| **HTTP server, one request** (`http.c`, 220-270, 369-441, 900-1150, 1370-2165) | the request's buffer, the cookie, the response as it is sent, the file | parse, route, API branches, files, `http_send*` | a body that comes late, malformed bodies, words longer than their buffers, a file that changes while it is sent, an arena that fills up in the middle of an answer, a crash |
| **MFRC522 driver** (`mfrc522.c` twice, `MFRC522.py`) | FIFO, interrupt, error and framing registers, Crypto1; each card's state | request, anticollision, select, authenticate, read, write, halt; two transfer engines | its own time-outs, an off-by-one in them; answers spoiled without a flag; cards that come, go, collide and answer late; a reset of the board but not of the chip |
| **TCP tag backend** | descriptor sets for `select`, `run` | accept, one query per connection, Ctrl-C, shutdown | more clients than descriptors, a single thread that must never block, a peer that is gone when it is answered, Ctrl-C between a test and a sleep |
| **Pico W scanner (MicroPython)** (`main.py`) | the Wi-Fi, whether it is locked, one served connection, `received_message` | join the Wi-Fi, scan, accept, receive, send back, close | nothing has a time-out, no framing, one client at a time, power cuts |
| **Pi Zero clients** (`client.py`, `auto_client.py`) | how far they are | connect, send, receive | a board that went away |
| Wi-Fi manager (`WIFI_manager.py`) | the Wi-Fi | choose a network, join | a connection given up that still comes up |
| **JSON library, arena** (`Rackhamn/json/src/`, `arena.c`) | a bump allocator's offset | parse, find, build, write | a recursive parser that may run out of memory at any allocation, a writer with a wrong bound |
| Payload trial, CRC32, SHA-256 | none | pure functions | bit arithmetic |
| Test client, Flask and SQLite scripts, LCD/LED/buzzer code, old HTTP server, web pages | - | straight-line I/O | nothing a model would add |

How they interact: a reader sends a uid over TCP to the tag backend and shows the text it
gets back; the Pi Zero's clients do the same with the MicroPython board; browsers talk HTTP
to the HTTP server; the watchdog is the server's parent process. Main and the workers share the ring; the workers share the login table; the
reader's loop and its callbacks share `client_pcb` and the flags. The reader and the
backend share only the wire, and no parameter of either model depends on the other.

What makes each part correct:

* one request: the handlers give exactly one response and one close, the session survives the trip through
  the browser, and whatever makes the server die is in the request or, for the user's name, in a full arena.
* card reader: what is shown in one turn is about one card that was there, and a card that
  stays is read again and again.
* JSON: the parser accepts the grammar, and what is written is read again.
* queue: every accepted socket has exactly one owner and is served once, in order; no
  thread sleeps while it is needed; a stop drains what was queued, and ends.
* sessions: the table is a set of sessions; nobody sees another user's data; no request
  hangs on the mutex.
* reader: the flags and the connection agree at the top of the loop; the answer shown is
  for the card scanned; neither a silent server nor a failed connection stops the reader.
* backend: the descriptor set is the descriptor table; one client cannot block the others;
  one answer per client, to its own query.
* MicroPython board: locked until a known card comes; every answer is the client's own
  message; board and client never wait for each other.

The hazards these come from, each at its line, are listed in `PROJECT.json`.

## 2. The modules

| Module | Models | Lines it stands on |
|---|---|---|
| `BoundedTaskPool` | abstract: a bounded FIFO pool that is closed once | - |
| `HttpTaskQueue` | ring, mutex, condition variable, workers, accept loop, CLI, SIGINT | `http.c` 300-600, 960-980, 2300-2560 |
| `SessionSet` | abstract: a set of sessions, opened, closed and looked up atomically | - |
| `HttpSessions` | login table, requests, JSON arena, crash and restart | `http.c` 1330-1990, `watchdog.c` |
| `PicoReader` | the loop statement by statement, callbacks, time-out, link, watchdog reset | `main.c`, `network.c` |
| `TcpBackend` | the select loop, kernel descriptor table, clients, Ctrl-C | `tcp_backend/src/main.c` |
| `PicoServer` | Wi-Fi, scan and server of the MicroPython board, the Pi Zero's clients, power cuts | `main.py` 229-526, 578-795, `client.py`, `auto_client.py` |
| `Mfrc522` | the card reader's driver poll by poll, the chip, the cards, the programs that call it | `mfrc522.c`, `MFRC522.py`, `main.c` 54-90, `mfrc522/src/test.c` |
| `JsonArena` | the arena, JSON values, the functions that find in them and build them | `arena.c`, `json_find.h`, `json_make.h` |
| `JsonText` | the JSON parser and writer over texts of lexemes, and the grammar as a reference | `json_cpac.h`, `json_write.h` |
| `HttpRequest` | one request from its bytes to its response; the server's start, crash and exit under its watchdog | `http.c` 220-270, 369-441, 690-1150, 1370-2165, 2239-2569, `watchdog.c` |
| `MC*` | instances for TLC: small tables, symmetry sets | - |
| `*_proofs` | TLAPS proofs of the invariants: types and what the component promises; in `HttpTaskQueue_proofs` also that the ring implements `BoundedTaskPool` | - |
| `HttpSessions_refinement` | TLAPS proof that the login table implements `SessionSet` | - |

**HttpTaskQueue.** A step is what a thread does between two points at which another may
interfere: acquire the mutex (`Lock`), test the wait condition (`Test`), fall asleep
(`CondWait`), and the rest of the critical section up to the unlock (`Admit` or `Refuse`,
`Push`, `Dequeue`, `Retire`). Test and sleep are apart because `running` is written without
the mutex, and so are main's last test of `running` (`Admit`) and its push (`Push`): a task
that was admitted is queued even when the server is stopped in between. `BoundedTaskPool`
therefore promises that nothing is *admitted* once the pool is closed, and that what was
admitted before is still put in (`Admission`, `Put`). `CondSignal` wakes any one sleeper,
main or a worker; `SpuriousWakeup` is what POSIX allows. `SelectInterrupted` is EINTR from
SIGINT. A socket read to end-of-file is never closed by the code: its fate is `leaked`.
Reading a request and answering it are one step each; the second is what `HttpSessions` opens
up, and the two modules share no variable.

**HttpSessions.** A token is SHA-256 of the username, and its slot comes from djb2 of that,
so name, token and hash are one value; `Home` gives a token's first slot. The critical
sections are single steps between `Acquire` and the unlock; `Measure`, `CopyName` and
`Compare` are single reads through `request.user` *after* the unlock. `json_make_string`
takes the length first and copies later, so a name rewritten in between may be copied without
its terminator (`Garbled`). When the arena is full `/user` follows the NULL that
`json_find_by_path` returns (`Crash`); a new process starts with an empty table (`Restart`,
of which nothing is assumed: how the watchdog ends is in `HttpRequest`); about 178 of 8192
bytes go per request, so some 46 requests are enough, and only a login of the same worker
clears it. Login bodies are well-formed here; others, and `json_write`'s own bound, are in
`HttpRequest`.

**PicoReader.** `pc` names the statement of `main()` about to run. The firmware is linked
with the *threadsafe background* lwIP, so each callback is one atomic step that may come
between any two of them. Calls into lwIP by the loop are taken as atomic. External, and taken
from how the code uses it: `tcp_close` frees a connection that is not established or that
holds unread data, and otherwise keeps it with its callbacks still registered - the code
deregisters none. A callback for a connection that is not `client_pcb` sets the ghost
`stray`, which two properties need: such a callback closes or forgets the *next* connection.
`on_error` closes whatever `client_pcb` points to (`network.c:74`), also when that is the
connection lwIP reports, which it has freed already or frees next (`FreedBefore`): the
connection may go back to lwIP's pool twice. From then on (`damaged`) `tcp_new` may hand out
a connection that is in use (`Free`), or lwIP faults and the watchdog resets the board
(`PoolFault`). `NoDangling` does not deny that call: it is about `client_pcb` between the
steps, where the loop would use it again. A uid is a sequence of bytes and `Text` is what
`strncpy` and `strlen` make of it: the bytes before the first zero.

**TcpBackend.** `owner` is the kernel's descriptor table, `read_fds` the server's idea of it.
A query arrives whole; `send` to a client that reset its connection returns -1, which is
logged, or ends the process (SIGPIPE is not ignored). An `accept` that fails for want of
descriptors leaves the connection in the backlog, so `select` returns at once and the loop
spins, as the code does. The database is read-only, so an answer is named by the query it was
made from.

**PicoServer.** One action per blocking call of the board (`pc`) and of each client (`at`).
`Programs` run `client.py`, `Autos` run `auto_client.py`; the server takes anybody, so
there are also `Silent` clients, which send nothing, and `Foreign` ones, whose bytes
`decode()` refuses. `slot` is the backlog of one. A message is one segment and arrives
whole: they are some twenty bytes long, and a client sends the next only after the answer.
`Join` may come after `connect_wifi` gave up, since its result is not looked at. A power
cut makes the board forget its connections: an answer that was on its way may still
arrive, and otherwise the client is not told until it sends again. Time-outs of the TCP
stack itself after a loss of the network are left out.

**Mfrc522.** `Call` is a transmission with the set-up of the registers before it; `Arrive`
is an answer's arrival in the FIFO; and each poll of the interrupt register is a step of its
own (`PollCommand` for `card_command`, `PollTransceive` and `ReadFifo` for
`rfid_transceive`, `PollPython` for the MicroPython twin), so that cards come, go and answer
between any two polls. A program's loop is a sequence of calls (`Script`); `client` stands
for any caller of the exported functions in any order. Only `read_card` and `test.c` clear
their buffers before a request (`Clears`); for the others the uid of an earlier turn is there
until it is read anew, and the ghost `fresh` says whether the one in the buffer is this
turn's. An answer arrives as it was sent (`Arrive`), spoiled or mixed with another and
flagged by one of the bits `0x1B` that the driver looks at (`ArriveWrong`), or spoiled
without any of them (`ArriveUnnoticed`): the driver has no answer's CRC checked and leaves
`CRCErr` out. Of a uid only `rfid_get_uid` tests the check byte (`BccOk`), which a spoiled
uid may fit by chance (`Lucky`). Cards, antenna and the chip's own timer are external:
a card takes a command only in the state that ISO 14443-3 gives it, and two that
answer at once may be heard as one or as neither. `rfid_transceive` counts with
`while(timeout--)`, which leaves -1 behind after the last try and 0 after an interrupt on
it: `PollTransceive` does as the code does, so a time-out goes on as a success and fails
later for want of bytes. `rfid_read_block` and `rfid_write_block` pass an uninitialised
length, so `Limits` chooses it; what is then missing of a block are bytes of the command
itself (`Own`). `rfid_dump_classic_1k` is part of what a client may call (`StartDump`,
`DumpGoesTo`): it passes the sector where `rfid_auth` takes a block, so only the first
sector's blocks can be read (`SectorOpen`).
An authentication that completes on the very last try leaves Crypto1 on, which a `CLEAR`
or the next `rfid_init` ends. The model shows that none of this mixes two cards.

**JsonArena, JsonText.** A text is a sequence of lexemes, and its size the number of them;
indentation and line ends are left out of what the writer writes. The parser is a recursive
operator that returns a value, where the text goes on, and the arena's new offset, so every
`arena_alloc` is a place where it may fail. Strings hold none of the characters that
`json_write_string` escapes: the parser knows no escapes, so such strings are written in a
form in which it does not read them back. `strtod` also takes `-inf` and `0x1F`; `%g` keeps
six digits (`Rounded`). `json_make_array` sets no type (`json_make.h:81`): in fresh memory
the zero there is that of an array, in a used arena it is what the memory held. `Denotes` is
the grammar, as every way to split a text rather than a scan, and `Cost` the memory a
document takes; they are the reference and stand for no code.

**HttpRequest.** The parser and the writer of the JSON library are operator constants.
`LibraryAssumption` says what the server needs of them: the parser returns what the text
stands for, exactly when that fits into the arena, takes as much of it as the document needs,
and never moves the offset back or past the end; the writer returns a text. In the run they
are `Parse` and `Write` of `JsonText`, so that TLC evaluates the assumption on the library's
own algorithms, for every text that is asked and every offset; `ParserIsGrammar` says the
like of the parser for all short texts. There is one worker, and a browser that asks one
thing after another: `HttpSessions` has the interleavings, this module has the data.
`ContentAt` is what `content_ptr` points to: it is counted back by Content-Length from the
end of what one `read` returned, so a body that comes late, whole or in part, is looked for
inside the header or before the buffer, where any text may stand, or nothing readable
(`ContentNotReadable`). Words of the request line, a session and a password have buffers of
fixed size and no test (`http.c` 387, 1514-1517, 1454-1455): with a longer one (`overlong`,
`HashSize`) the process dies, or goes on with the words behind it (`Overflow`, `Login`). A
file may grow or shrink after `fstat` (`WriteFile`) or not be read to its end
(`FileNotRead`); the loop sends until `read` returns no more, so the body may then have
another length than announced, which `OneResponse` excepts (`steady`). The results of `send`
are not looked at: `sent` is what the handlers give to it, and the cookie need not arrive
(`Took`). A misspelt `POSTS` stands for both ways to post, since only the first letters are
compared. `Die` is a NULL pointer followed, or a union read as what it is not. `life` is the
process as its watchdog sees it: `Fork`, the options (`Help`, `UnknownOption`,
`RootDirectory`), `Boot`, `up`, an end by signal or with an exit code, `Reap`. Only a code of
0 ends the watchdog, but `--help` and a failed `execvp` give one too. The arguments are
chosen anew at each start. The root directory is checked (`TypeOK` says that it fits its
buffer with the slash put in front) and then dropped: `ctx` is zeroed (`http.c:2435`) and
`handle_request` has `www` written into it (2029). An answer whose text does not fit behind
`arena->offset` is written past the arena (`Overruns`), after which the process may die; that
it lives on with damaged memory is not followed further. `fault` is a ghost that remembers
the request with which the process died or left the name out of an answer. Things the code
does that no property is about: the redirect's status line has a stray comma, an unknown
extension gives `Content-Type: (null)`, GET `/api/v1/tags`, which `tagman.html` uses, is
answered 200 without a body, and `app.html` waits for a 401 where the server redirects.

## 3. The runs

Deadlock checking is off for the queue, the backend and the MicroPython board, which really
end or have no client left. `MCHttpRequest` runs two unrelated things side by side: texts
grow lexeme by lexeme only while nothing has been asked of the server, and the server is
asked only while there is no text.

| Run | Instance | Checks |
|---|---|---|
| `queue_safety` | 3 workers, 4 connections, ring of 2, one SIGINT, symmetry; 340,644 states | `TypeOK`, `OneOwner`, `SleepersNotNeeded`, `NoTaskAbandoned`, `NoLostProducer`; `ImplementsPool`: the ring implements `BoundedTaskPool` |
| `queue_live` | 2 workers, 3 connections, one of them silent; 68,596 states | `EventuallyServed`, `ShutdownDrains` |
| `queue_wakeup` | 1 worker, 1 connection | `WakesAllThreads` is **violated** |
| `sessions_own` | 2 workers, 2 browsers, 2 users in distinct homes of 3 slots; 633,942 states | `TypeOK`, `OwnAnswers` |
| `sessions_live` | colliding homes that wrap around, 1 browser, an arena of 2; 235,630 states | `OneSlotPerToken`, `ImplementsSessionSet`, `EveryRequestEnds` |
| `reader` | 2 cards, one with a zero byte, 2 connections; 1,122,762 states | `TypeOK`, `TimerWatches`, `NeverBusy`, `NoDangling`, `OneConnection`, `AnswerForCard`, `ServerCannotHold` |
| `reader_idle` | 1 card, 1 connection | `BackToIdle` is **violated** |
| `backend` | 3 clients, 2 descriptors; 606,695 states | `TypeOK`, `DescriptorsKnown`, `NeverBlocks`, `OneOwnAnswer`, `Answered` |
| `backend_ctrlc` | 2 clients, 2 descriptors | `GracefulShutdown` is **violated** |
| `pico_server` | a client of each kind, 2 messages, one accident; 649,378 states | `TypeOK`, `EchoMatches`, `OneOutstanding`, `LockedUntilApproved`, `ClientsFinish` |
| `mfrc522` | 2 cards (a short uid, and a long one of a refused type), 5 programs, 2 tries, dumps of 2 sectors, one reset of the board; 800,342 states | `TypeOK`, `OneCardPerTurn`, `CardRead` |
| `http_request` | 2 users, 11 paths, a GET and a misspelt POST, an arena of 41, a password that overruns its buffer; texts of up to 5 lexemes with 5 sizes of the arena; directories of 0 to 4 characters for a buffer of 4; 409,525 states | `TypeOK`, `OneResponse`, `CookieReturns`, `FaultExplained`, `ParserIsGrammar`, `RoundTrip` |

What the three violations show:

* `queue_wakeup`: the comment "wake all threads!" (`http.c:977`). `running = 0` and the
  broadcast do not take `queue_mutex`, so both can fall between a worker's test of the wait
  condition and its `pthread_cond_wait`. The worker sleeps, nothing signals again, and main
  waits in `pthread_join`. (`ShutdownDrains` still holds: what is lost is the end of the
  process, never a queued task.) The cure is to take the mutex in the CLI's `quit`, and to
  let a thread other than the handler broadcast.
* `reader_idle`: the diagram's "Connecting --> Idle : Connection Failed"
  (`src/README.md:298`). A connection that fails in `tcp_new`, in `on_connected`, or
  between the loop's send and its flag leaves `awaiting_response` set with no connection;
  then neither the scan nor the time-out runs, while the watchdog is kicked for ever.
* `backend_ctrlc`: "Ctr_C will shut down the server gracefully" (`tcp_backend/README.md:39`).
  Between the loop's test of `run` and `select` without a time-out the signal is not
  noticed until the next client comes.

Each property of a passing run has a mutant in `PROJECT.json`: a changed definition, in the
module and commented as a slip, with which TLC finds the property violated.

**Bounds, and why they are enough.** The ring has two slots, so that it is full, empty and
wrapped; three workers are one fewer than twice the ring, the largest number for which one
condition variable is enough, so `NoLostProducer` is checked where it is tightest; the
four clients fill the ring, one worker and main. `MaxSignals` caps SIGINTs: a second one
writes the same values. Two workers are what a stale pointer needs (one reads, one
writes). Homes: distinct ones as the server's own users have them (admin 86, cat 366, dog
234 of 512) for `OwnAnswers`, and colliding, wrapping ones where probing matters. The
arena holds one or two documents so that it fills, and a login has something to clear.
Reader: two connections allow a late callback of one to meet the other. Backend: more
clients than descriptors, so that descriptors are reused and `accept` fails. Board: two
clients that expect answers, so that one's message could reach the other, and a third and
fourth that spoil or block the server; the accident, a power cut or a lost network, comes
once (`cut`), at any point. The `MaxQueue`
and table sizes of the code are covered by the proofs. Card reader: two tries are
the first, the last and the one that the count-down mistakes; two cards collide, and one
replaces the other in the middle of a turn; blocks 1 and 3 are one that may be written and
one that may not. Request: sizes are small numbers in the proportions that let an arena of
41 hold one login and, by the number of empty documents parsed before, leave room for all
of an answer, for its values only, for its object only, or for nothing. Texts of five
lexemes hold a member, two elements or three levels; the longer ones in `Samples` hold two
members and lists in lists.

**Fairness, and why the code justifies it.** Threads and processes that can run do run (weak
fairness). A thread that asks for a mutex again and again gets it (strong fairness on `Lock`,
`CliPoll`, `Contend`): critical sections are a few assignments long and no thread takes a
mutex in a tight loop. `accept` does not fail for ever while connections are pending (strong
fairness on `Accept`). `read` returns for every client but the `Silent` ones; with as many
silent clients as workers the server really stops serving, so the run has fewer. In the
reader only the loop and time itself are fair; in the backend only the server. The
MicroPython board and the clients that run go on, and the network need not come up. The card
reader's program goes on; for `CardRead` alone, a card that stays alone in the field answers
requests and anticollisions in time infinitely often, if they are sent infinitely often
(strong fairness on `InTime`): a transmission takes a millisecond and the shortest wait some
thirty. Nothing is assumed of operators, clients, signals, callbacks, the network or spurious
wake-ups.

## 4. What is proved

For every value of the constants that the modules' assumptions allow.

`HttpTaskQueue_proofs`, from `QueueAssumption` and `ThreadsFitQueue` (fewer than
2 * MAX_QUEUE workers; the code has 4 and 128):

* `TypeCorrect`. The inductive invariant is `ControlInv`: who holds the mutex, that
  sleepers are in the wait, and what the wait loop established (`LoopLeft`: main leaves it
  with room or with `running` cleared, a worker with a task or likewise). Without
  `LoopLeft`, `task_count` could leave its range.
* `SleepersCorrect`, `ProducerCorrect`, `NothingAbandoned` from `CountInv`. The argument
  counts: a worker sleeps only when every task has an awake worker of its own, and while
  main sleeps there are at most `|Workers| - MAX_QUEUE` workers asleep over and above the
  slots already freed (`SignalsSuffice`). Each dequeue can lose its signal to one sleeper,
  so the ring cannot become empty before main is woken. The bound on threads is used
  exactly there.
* `OwnerCorrect` from `OwnerInv`, which adds that `task_rear` is the slot after the last
  live one, and that every live slot holds a socket. `LiveSlots` is the arithmetic of the
  ring: distinct positions are distinct slots.
* `PoolCorrect`, the refinement that `queue_safety` checks, from `OwnerInv`. The pool's
  queue is the ring read from `task_front`; an enqueue appends to it because `task_rear` is
  the slot after the last live one, a dequeue takes its head. Main at the push is a task
  that is admitted. The first step that clears `running` closes the pool, before or after
  that; lock, test, sleep, signal and spurious wake-up are stutters.

`HttpSessions_proofs`, from `SessionAssumption`:

* `TypeCorrect`, which also says who owns `login_mutex` and that no request reads through a
  NULL user; strengthened by which workers hold a token (`TypeInv`).
* `OneSlotCorrect`, for any homes. It rests on lemmas about the search: the probe sequence
  visits every slot (`ProbeCovers`), so `Find` reports a stored token wherever it is
  (`FindCorrect`), and a login places a token in a new slot only when it is in none
  (`PlaceCorrect`).
* `AnswersCorrect`, under `Collisionless` (no two users share a home slot). `OwnInv` says
  that every session is at its home and that a reader reads the home slot of the user it
  serves. The hypothesis is needed: with a collision a stale pointer may read another
  user's name.

`PicoReader_proofs`, from `ReaderAssumption`:

* `TypeCorrect`, `TimerCorrect`, `BusyCorrect` and `DanglingCorrect` hold whatever late
  callbacks do and also with lwIP's pool damaged. The last one is about `client_pcb` between
  steps; that `on_error` itself closes a connection lwIP frees too lies inside one step and
  is not denied. `LoopPart` says, statement by statement, when a connection may exist
  and what the flags are then.
* `ConnectionCorrect` and `AnswerCorrect` add `ConnPart`: as long as no callback strayed,
  lwIP and the reader agree on the connection, and it carries the card in `uid`.

`HttpSessions_refinement`: `SetCorrect`, from `SessionAssumption` and `TableFits` (as many
slots as users; `init_login_ht` makes four times as many). The set is what the slots hold.
Three facts carry it: a look-up is one atomic membership test, at the step that holds the
mutex (`FindCorrect`); a login always finds a slot, by counting (`RoomLeft`: were every
slot another's, two would hold the same token), so "welcome" is never told to a user who
was not stored; and clearing one slot ends a session, because no second slot holds the token
(`OneSlotPerToken`, the other half of the invariant here).

`TcpBackend_proofs`, from `BackendAssumption`, for any number of clients and descriptors.
The inductive invariant is `BackendInv`:

* `DescriptorsCorrect` from `Table`: the set given to `select` is the kernel's descriptor
  table, a connection has one descriptor, and only open connections have one.
* `NeverBlocksCorrect` needs `StillReady`: what `select` reported stays true until it is
  served, although earlier descriptors of the same pass are closed and new connections are
  given free ones. A free descriptor was not reported, and nobody but this thread reads.
* `AnswerCorrect` needs `Served` (the buffer holds the query of the connection being
  served) and that an answered client is closed next.

`PicoServer_proofs`, from `ServerAssumption`, for any clients, messages and cards.
The inductive invariant is `ServerInv`:

* `OutstandingCorrect` and `EchoCorrect` from `Flight` and `Lockstep`: of a client's messages
  at most one is not answered, it is the last one sent, and it is in one place - on
  its way, held by the board, or on its way back. Therefore the board needs no framing.
* `LockCorrect` from `Unlocked`: the program leaves its scan only without a reader or with a
  known card.

`Mfrc522_proofs`, from `DriverAssumption`, for any cards (also several with one uid), tries,
sectors, uninitialised lengths and resets. The inductive invariant is `DriverInv`:

* `TypeCorrect`, with the types of the chip, the cards and the answer in the air.
* `OneCardCorrect`: what a turn has of uid, SAK and block is about one card that was in the
  field at its request. A card that is awake was there (`Awake`); a selected one is the one
  whose uid the program has (`Chosen`); a command sends all others to sleep, so that once
  there is a SAK or a block nobody answers an anticollision (`Exclusive`, `Settled`); an
  answer in the FIFO is to the command under way, a mixture of two being flagged as
  an error (`Flight`); a uid filled since the request is of this turn (`UidOfTurn`), and one
  that `rfid_get_uid` returned passed its test (`UidTested`). A uid spoiled without a flag is
  taken to be no card's, so whoever goes on with it reaches nobody.

`HttpRequest_proofs`, from `JsonAssumption`, `RequestAssumption` and `LibraryAssumption`, for
any users, tokens, paths, bodies, sizes and any such library (`NoneIsNoRequest` only says
that "no request" is not a request). The inductive invariant is `RequestInv`:

* `TypeCorrect`: the directory never overruns its buffer, and the arena's offset stays in
  the arena through every parse and every answer that is built.
* `ResponseCorrect`, but for the length of a file that changes or cannot be read while it is
  sent, and for what `send` does not take, needs `Replying`: before a request is decided nothing is sent or closed,
  and a file's response is its header and one piece for each that was read. Every http_send
  function is shown to be `Complete` for the length it announces (`LoginResponse`, ...); the
  arithmetic is in `BodySize` and its lemmas, which count a body without a fold.
* `CookieCorrect` needs `Asked` (the header under way is one that the browser makes of its
  present cookie) and `CookiesKnown` (a cookie under way is a user's token). Its lemmas
  follow the token: `Encoded` and `Decoded`, there and back, and `SessionFound`, that what
  `extract_sessionid_token` takes from a header with other cookies before or after it is the
  whole of the digits.
* `FaultCorrect` counts overlong words, long passwords and late bodies among the reasons. It
  needs `Asked` (the handler reads the body that was sent, or the header in
  its place) and `LibraryAssumption`. A login parses into a cleared arena, so that it dies
  only of a document that would not fit into an empty one. A name is left out, or its text
  written past the arena, only when fewer bytes are left than the answer costs
  (`NameCost`): every allocation of `NameDocument` is accounted for.

TLC checked each inductive invariant of these as an invariant of its component's run
before it was proved. `PicoServer` and `Mfrc522` take the same steps as in the runs: the
bounds that are constants there (`NumMsgs`, `Attempts`, `MaxResets`, ...) are any numbers here.

**Only model-checked.** Liveness (`EventuallyServed`, `ShutdownDrains`, `EveryRequestEnds`,
`ServerCannotHold`, `Answered`, `ClientsFinish`, `CardRead`): fairness and
`ENABLED` are out of the prover's reach. `ParserIsGrammar` and `RoundTrip`: the parser and
the writer of `JsonText` are recursive operators, about which nothing can be proved here,
and an induction over documents is out of reach as well. That `Parse` and `Write` satisfy
`LibraryAssumption` is therefore also only checked, on the instance of the run.

## 5. What is not modelled, and why

* CRC32, SHA-256: bit arithmetic, better decided by test vectors.
* What lwIP does with its pool after a double free beyond `Free` and `PoolFault`; which words a
  request line overwrites behind its buffer, and a stack that an overrun damaged without the
  process dying; the byte before the buffer
  that `tcp_backend/src/main.c:119` may clear; the race on `thread_index_counter`
  (`http.c:481`), which only statistics use; the signal handler's calls that are not
  async-signal-safe. They are below the level of the models.
* The four shapes of a document that `json_dump.h` prints, and `string8.h`, which has no
  caller in the server.
* The truncation in `hprintf` and the `content_ptr == NULL` branch: no request reaches them.
* A query split by TCP: it is a wrong key, not another state of the backend.
* Stand-alone trials, peripherals, web pages, the backend's test client: straight-line I/O.

## 6. The plan

The order in which the project is built; the most important behaviour comes first.

1. *Done.* `HttpTaskQueue` with `BoundedTaskPool`: safety, refinement, liveness, proofs.
2. *Done.* `HttpSessions` with `SessionSet`: likewise.
3. *Done.* `PicoReader`: safety, liveness, proofs. `TcpBackend` and `PicoServer`: safety,
   liveness.
4. *Done.* `TcpBackend_proofs` and `PicoServer_proofs`: every invariant of their runs, for any
   number of clients.
5. *Done.* Refinement proofs: `HttpTaskQueue` implements `BoundedTaskPool`, `HttpSessions`
   implements `SessionSet`.
6. *Done.* `Mfrc522`: both transfer engines, the states of a card, five programs.
7. *Done.* `JsonText` and `HttpRequest`: parser and writer against the grammar, one request
   from its bytes to its response.
8. *Done.* `Mfrc522_proofs`: `TypeOK` and `OneCardPerTurn` for any cards, tries and programs.
9. *Done*, in `HttpRequest`: the watchdog's fork, exec, exit codes and signals, and the
   server's start.
10. *Done.* `HttpRequest_proofs`: `TypeOK`, `OneResponse`, `CookieReturns` and
    `FaultExplained`, with the JSON library as a parameter of `HttpRequest`.
11. `WifiManager`: the choice of a network and its attempts, with the late connection.
12. The payload trial's round trip.
