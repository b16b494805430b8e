# ProxyScope: models, checks and proofs

ProxyScope is an intercepting HTTP proxy with a generic TCP/UDP relay and a
packet capture. Its difficult part is common to all three: a goroutine carries a
message, stops at a pause point until somebody decides what becomes of the
message, records what happened, and passes it on, while users toggle and
resolve, clients go away, sessions age and the process shuts down. This
directory models that part in TLA+, together with what it shares: the rules, the
certificates, the database, and the start and the end of the process. TLC checks
the models on small instances, and TLAPS proves, for every value of the
constants, every safety property that the runs check.

All line numbers are those of the repository this directory belongs to.

## 1. Inventory

### The system's parts

| part | where | state it keeps | operations that change it |
|---|---|---|---|
| intercept queue | `internal/intercept` | two toggles, the next id, the map of held items; per item a channel of capacity 1 | `HoldRequest`, `HoldResponse`, `Resolve`, `SetSettings`; per held item a timer and the request's context |
| forwarding engine | `internal/proxy/proxy.go` | per exchange: the request and response being worked on and the row to be stored | `forward`, with a deferred save on every path |
| outbound | `internal/outbound` | captures of bodies, up to `-max-body` | `BuildRequest`, `ReadUpTo`, `Capture`, `SyncContentLength`, `Classify` |
| CONNECT tunnels | `internal/proxy/tunnel.go` | the set of tunnels' servers, under a mutex | `handleConnect`, `serveTunnel`, `trackTunnel`, `Shutdown` |
| rules | `internal/rules` | the active compiled set (an atomic pointer), the rules file | `Load`, `SaveRules`, `SaveRaw`; `ApplyRequest` and `ApplyResponse` read it |
| relay, TCP | `internal/relay/tcp.go` | per connection two pumps, a shared sequence counter, capture counters, the session's row | `handleTCPConn`, `pump`, `storeChunk` |
| relay, UDP | `internal/relay/udp.go` | per target a table of sessions by client address; per session a socket, a last activity, counters | `serveUDP`, `udpSessionFor`, `udpDownstreamLoop`, `sweepIdleUDP`, `Shutdown` |
| relay hold queue | `internal/relay/hold.go` | toggles per target and direction, the map of held chunks | `Hold`, `Resolve`, `SetSettings` |
| system capture | `internal/sysCapture` | one receive loop, sessions by 4-tuple, toggles, held packets, the WinDivert handle | `processPacket`, `sessionFor`, `sweepIdle`, `Resolve`, `Shutdown` |
| packets | `internal/sysCapture/packet.go` | none | `parsePacket`, `flowKey`, `replacePayload` |
| certificate authority | `internal/ca` | a key file and a certificate file, a bounded cache of leaf certificates | `LoadOrCreate`, `ExportCert`, `CertificateFor` |
| history | `internal/store` | an SQLite file: schema version, exchanges, sessions, chunks | `migrate`, `Save`, `Clear`, `OpenSession`, `CloseSession`, `SaveChunk` |
| repeater | `internal/repeater` | none on the server; a tab keeps the id of its exchange | one look at the history, one request, one save |
| web UI | `internal/ui` and `internal/ui/web` | none on the server; each page keeps a selection and a cursor | handlers that call the parts above; pages that poll |
| process | `cmd/proxyscope` | none | starts the services, shuts them down in order |

### How they interact

* A client's request is a goroutine of `net/http`: `ServeHTTP` or a tunnel's
  server calls `forward`, which asks the rule engine whether it needs the body,
  asks the queue whether it holds, applies the rules, holds, sends, and does the
  same again for the response. Its row is stored by a deferred function.
* The UI's handlers run on goroutines of their own. They resolve held items and
  toggle pause points; they reach the others only through the queues' mutexes
  and through the channel of each item.
* The transport reads a streamed request body on yet another goroutine, through
  a reader that also writes the capture that the deferred function reads.
* Relay and capture have a queue each, written like the first one. What cancels
  a hold differs: the client's context (intercept: the message is dropped), or
  the service's (relay, capture: it is forwarded).
* All parts store rows through the history, and only log its failures. Sessions of
  the relay and of the capture share one table and one sequence of ids.
* Two processes may share a CA directory and a database: a second server, or one
  started with `-export-ca`.
* Main stops one part after the other under one deadline of five seconds, and
  closes the store last.

### What is hard here

* An item can be resolved by a user, by a toggle, by its timer, by its context,
  all at once; the code's answer is that whoever removes it from the map under
  the mutex owns it, and sends outside the mutex.
* A page acts on an id it read earlier.
* Rules, edits, holds, failures and disconnects each rewrite part of a row, on
  paths of their own.
* Two pumps end each other by closing each other's connections.
* An idle sweep removes sessions that others have looked up and not used yet.
* Shutdown cancels a context, closes what it finds, and waits for the rest.
* A rule set is published while messages are on their way through the old one.
* A process can crash, or another one run, between the two files of the CA, inside
  a migration, and between the temporary rules file and its rename.
* Pages and repeater tabs keep ids while rows are saved and cleared.
* A packet is rebuilt around another payload, under fields that others wrote.

`PROJECT.json` lists these hazards one by one, each at its line, with the
property that is about it or the reason why there is none yet.

### What makes each part correct

* queues: an item is resolved exactly once; nobody hangs; an acknowledged
  resolution is the one that took effect, on the message its user saw; nothing
  stays held at a pause point that is off.
* forwarding: the row says what was sent and what was delivered; the user has the
  last word; a response cut off upstream never looks complete; a client that
  goes away frees its exchange.
* relay: rows are chronological and within the cap; the cap never holds up the
  stream; sessions end, once, and nothing is recorded of them afterwards; no
  socket is forgotten.
* capture: as the relay, with one loop for all packets; what the other host takes
  from an injected packet is what the user was told and what the history says.
* rules: the active rules are those of the file, whatever saves, reloads and
  crashes; a bad file changes nothing; a message meets one whole set, which
  touches no body that was not buffered.
* certificate authority: whoever has loaded a CA has the one of the certificate file,
  and one that was exported is never replaced; a client is shown a certificate for the
  host its upstream is verified as.
* history: the version tells the schema, also after a crash; an id never comes to
  name another row; polling skips none; a session's details are of one session.
* tunnels and shutdown: a serving tunnel is closed, a shutdown in time loses no
  row, every shutdown ends.

## 2. The modules

| module | what it is | source |
|---|---|---|
| `HoldTypes` | vocabulary of the hold queues: resolutions, outcomes, what an edit is | `internal/model/intercept.go`, `internal/intercept` |
| `HoldContract` | abstract specification of a hold queue | - |
| `Intercept` | the intercept queue and the UI handlers that use it | `internal/intercept/intercept.go`, `internal/ui/intercept.go` |
| `Forward` | one exchange through the forwarding engine | `internal/proxy/proxy.go`, with `internal/outbound` and `internal/rules` as it uses them |
| `RelayTCP` | one TCP session of the relay | `internal/relay/tcp.go`, `storeChunk` and `Shutdown` of `relay.go`, `hold.go` |
| `RelayUDP` | the sessions of one UDP target | `internal/relay/udp.go`, `Shutdown` of `relay.go`, `hold.go` |
| `Packet` | parsing and rebuilding a packet, as operators | `internal/sysCapture/packet.go` |
| `SysCapture` | the capture's loop, sessions, held packet and shutdown; extends `Packet` | `internal/sysCapture`, `internal/ui/syscapture.go` |
| `Rules` | which rules are accepted, which fire, and what they do, as operators | `internal/rules/compile.go`, `match.go`, `action.go` |
| `RulesEngine` | the rules file, the active set, and an exchange that uses it; extends `Rules` | `internal/rules/engine.go`, `internal/ui/rules.go` |
| `Startup` | migration of the database, creation and export of the CA | `internal/store/store.go`, `internal/ca/ca.go`, `cmd/proxyscope/main.go` |
| `Tunnels` | CONNECT tunnels, and the certificates they show | `internal/proxy/tunnel.go`, `internal/ca/ca.go` |
| `Lifecycle` | the end of the process, with the exchanges under way; extends `Tunnels` | `cmd/proxyscope/main.go`, `internal/proxy/proxy.go` |
| `Sessions` | the two tables of sessions and chunks, and the tabs that show them | `internal/store/store.go`, `internal/ui/relay.go`, `internal/ui/syscapture.go` |
| `History` | the table of exchanges, a page that polls and clears, a repeater tab; extends `Sessions` | `internal/store/store.go`, `internal/ui/ui.go`, `internal/repeater`, `internal/ui/web` |
| `...Proofs` | theorems about `Intercept`, `Forward`, `RelayTCP` and `RelayUDP` (`RelayProofs`), `RulesEngine`, `SysCapture`, `Startup`, `Lifecycle` (with `Tunnels`) and `History` (with `Sessions`) | - |
| `MC...` | instances for TLC | - |

How they compose: `Intercept` implements `HoldContract` (checked and proved), and the
modules that hold something - `Forward`, `RelayTCP`, `RelayUDP`, `SysCapture` and
`Lifecycle` - take holding at the level of that contract: one step decides what
becomes of a held message. `Lifecycle` runs the tunnels of `Tunnels` together with
exchanges that are `Forward` seen from outside (under way, held, saved): `Forward`
implements one of `Lifecycle`'s exchanges (`ImplementsExchange`, checked and proved).
`History` runs the sessions of `Sessions`, each of which is `RelayTCP`, `RelayUDP` or
`SysCapture` seen from the store: all three implement `Sessions`
(`ImplementsSessions`, proved of each, and checked of `SysCapture`). `SysCapture` uses
`Packet`'s operators on every packet, and `RulesEngine` those of `Rules` on every message.

Every module states its type invariant. It is a theorem for `Intercept` and for
`SysCapture`, and a conjunct of `Forward`'s inductive invariant; elsewhere it says what
the variables are, and the proofs hold what they need of it. The runs are left to
properties that say more.

Definitions whose comment begins with "Mutant" are plausible mistakes in the
definition after them. No specification uses them; they show that the property
they are listed with in `PROJECT.json` can fail.

### Intercept

A *call* is one `HoldRequest` or `HoldResponse` on its exchange's goroutine, a
*handler* one request of the UI, or main's last `SetSettings`. The grain is the
code's: one step for what happens under `Manager.mu`, one for each channel
operation. What the code separates stays apart. `Resolve` and `SetSettings`
remove items in one step and send to them later (`owed` holds what a handler
still owes); a timer or a context wins the `select` in one step
(`TimerFires`, `NoticeGone`) and asks for the item in another (`TakeWon`,
`TakeLost`). A page's id is remembered between requests (`seen`), so a handler
can come too late. `told` is the one history variable: what users were told with
a 204.

Left out: `List` and `Get`, which only read (`View` and `Pending` stand for what
their answers are used for), and the length of timeouts: a timer that was
started may fire at any moment. The context is looked at only while the call
waits, so `Disconnect` stops there.

### Forward

`pc` and `at` are the place in `Proxy.forward`: both pause points go through the
same steps (`StreamThrough` to `Released`), then the request goes upstream and
the response to the client. A message is a head, the body its Content-Length
describes, and its body, which is `Streamed` when it is not buffered. Rules change
each of the three (`Parts`): a rule on the Content-Length header is one on a header,
which `ApplyRules` runs whatever is buffered. What it says is in the message and in the
row, and in the headers that a streamed response is delivered with; a request is sent
with the length that `forward` hands to `BuildRequest` (`Built`), which is that of the
buffered body, or the one that arrived. `Redeclared` is a streamed body whose
Content-Length a rule has changed; a response whose body is then longer than declared
makes net/http's writer fail. The
environment is in `kind` (what sort of body each side turns out to have,
including one whose sender fails), `Resolve`, `SetSettings`, `Reload`,
`Disconnect`, `Respond`, `RoundTripFails`, and in `Upload`, the transport's
goroutine. `ex` is the row, `saved` what the sink took, `reply` what the client
got. The order of the code is kept where it matters: the toggle is read before
buffering and again by the hold; the body's need is asked of one rule set and
the rules applied from the one that is active then; the context is looked at
before the verdict.

Left out: a user's edit of Content-Length alone (what is held is buffered, and goes on
under the length of its body), header filtering and the truncation of captures (no property tells
the headers or the bytes apart), the text of notes and errors, and the second
transport for a request whose host was edited. HEAD requests and 204 and 304
responses are heads in `Bodyless`.

### RelayTCP

Two pumps, one per direction, each at its place in `pump`: read, hold, capture
(sequence number and cap), save, write. The peers send, half-close and reset;
a chunk is a number of bytes. `after` in a chunk is the number of the last chunk
that its sender had received: with it the order of rows can be compared with
the order of events. A pump that ends closes the other pump's source in a
separate step, and the row is closed when both have ended.

### RelayUDP

The *carriers* are the goroutines that have a datagram: 0 is the target's
reader, the others are the sessions' downstream readers; they share the steps
`Hold`, `Resolve`, `AutoForward` and `Write`. Looking a session up, opening it,
putting it into the table and touching it are separate steps, as the mutex is
released between them; so are the removal by the sweep, closing the socket, and
closing the row. Time is `stale[i]`: the idle timeout of session i has run out.
It may do so at any moment, since nothing in the code bounds how long a
datagram is held or a row takes to be stored. A session that could not be
dialled, or whose datagrams are refused, is in the model too, and so is a read of the
target's own socket that fails by itself and ends the reader. Byte counts are left
out.

### Packet and SysCapture

A packet is a record of the fields that the code reads and writes: version, header
length, total length, protocol, endpoints, TCP's data offset, UDP's length, how many
bytes were captured, and the payload. Length fields hold their value modulo
`LenMod`. `parsePacket`, `payload`, `flowKey` and `replacePayload` are the code's;
`Delivered` is the receiving host's, from its own reading of the same fields, and is
what the properties compare with. `Whole` ties a record's bytes to its fields: what
was captured behind the headers is there. Two disagreements of length fields are in
the model and outside of the properties, which say so (`Sized`): an edit that makes a
packet too long for 16 bits, whose length fields wrap, and a datagram that came with an
UDP length other than IP's, of which the code edits, holds and stores what IP counts
while the other host takes what UDP counts.

There is one receive loop, and its place is `pc`. `Lookup`, `saveSession` and
`Insert` are apart because `sessionFor` releases the mutex between them. `Store`
and `trackBytes` come before `Send`, as in `processPacket`. A user's resolution is
one step, answer included: `resolveSysCapture` gives the status of the handlers'
answer, and a refused edit leaves the packet held. `CloseHandle`, `Cancel`,
`EmptyTable` and `CloseOpen` are the order of `Shutdown` and `shutdownCommon`.
`injected` keeps the packet that was injected last with what its user was told:
the history variable of this module, with `told` and `how`.

Left out: the row of a session that cannot be stored (`Sessions` has it), and
Shutdown's wait for the sweeper.

### Rules and RulesEngine

A text is the set of its words, a regular expression the set of texts it matches, a
host the sequence of its labels. `Accepted` is validation; `compile` gives the
rules in order, with the two flags that say whether a body is needed; `Turn`
is one rule's turn on a message.

`RulesEngine` has savers (requests that save a form or a raw text, or reload), a
user who edits the file by hand, and one exchange that asks about the body
(`Ask`), takes the active set (`Apply`) and runs its rules (`ApplyRule`). A save
compiles before it takes the mutex, writes its temporary file in part (`Torn`) or
whole, renames, and publishes. `Restart` is a crash anywhere followed by a start,
which only succeeds on a file that is accepted. `byHand` says that the file was
edited since the program last read or wrote it.

### Startup

A process starts, brings the database to schema version 5, finds out about the two
CA files, creates them or loads them, and serves or exports. Each file is created
empty and filled in a second step. A certificate's creation may fail before its file is
there (`WriteCert`), in the middle of it, or when it is closed, with the whole of it
written (`FillCert`); its creator then removes the key, in a step of its own. Processes run side by side; any may crash or
fail anywhere and be started again. A migration's transaction is one step: that
SQLite makes it one is assumed. CAs are told apart by the start that generated
them. That `PRAGMA user_version` is set by each step but the first is as the code
does it.

### Tunnels and Lifecycle

A tunnel's record has its place in `handleConnect` and `serveTunnel`, the names its
client used, the name on the certificate it was shown, and the name its upstream
will be verified as. `Canonical` is `NormalizeName`. The cache holds for each host
whether its leaf is far from its end, and is emptied when it is full. A tunnel is in
`tracked` from before it serves until its server has returned.

`Lifecycle`'s `main` is the place in `run`: toggles off, the proxy's listener and
plain connections, the tunnels in the map, UI, relay, capture, store. Until their
own turn the others go on: the UI can switch a toggle on again, a tunnel can be
between its handshake and the map, and a connection that the listener had accepted can
bring its first request, plain or CONNECT, until the listener's `Shutdown` has returned
nil (`Accepting`). Exchanges may end or never end. Left out: the
row of a failed handshake, and header filtering.

### Sessions and History

`conn` is a connection as the store sees it: it opens a session, stores chunks
and closes it, and each of the three may fail and be logged. One whose session
could not be stored has id 0 from then on. A relay session that could not be dialled
is stored closed (`NewRow`), and is not closed again. Chunks come after the closing
too: what was held, or on its way, when a session was evicted is stored when it goes
on. `closed` of a row has the connections that have closed it. That a row is closed
once is the connections' part: `CloseSession` in the code updates whatever row has the
id, and in `RelayUDP` and `SysCapture` a row that is closed a second time becomes
`closedAgain`, which is no state of a connection here, so that such a step would not be
one of `Sessions`.

`exchanges` is the table; an exchange is the number of its save, so that an id that
came to name another one would show. `page` is the History view: a poll's request,
its answer and `addRows` are separate steps, and so are those of Clear; `first` and
`wiped` are history variables. `tab` is a Repeater tab, which names its exchange and
may have its body or not. Every save of the table is one SQL statement on the one
connection there is, hence one step.

## 3. What is checked

Every run below is TLC, exhaustive within its bounds.

| run | module, configuration | what it shows |
|---|---|---|
| `intercept_safety` | `MCIntercept`, `MCIntercept.cfg` | exactly one owner of every item, 204 is never a lie, every step is one of the contract, so that nothing is held while off |
| `intercept_live` | `MCInterceptLive.cfg` | with fairness, and no timeout: the contract's liveness, nobody left hanging, no handler stuck in a send |
| `forward` | `MCForward`, `MCForward.cfg` | rows tell what was sent and delivered, the user has the last word, no truncated response looks complete, a client that goes away frees its exchange, which is one of `Lifecycle`'s from outside |
| `relay_tcp_capture` | `MCRelayTCP`, `MCRelayTCP.cfg` | rows are chronological and capped, everything read is relayed |
| `relay_tcp_ends` | `MCRelayTCPLive.cfg` | one end ends both, a closed session is final |
| `relay_udp` | `MCRelayUDP`, `MCRelayUDP.cfg` | no socket is lost, a client has one session in the table, idle ones are evicted whatever is held, readers end with their sockets |
| `sys_capture` | `MCSysCapture`, `MCSysCapture.cfg` | an injected packet is what the user was told and what the history says, no session is lost, a row is closed once, the loop ends with its handle |
| `rules` | `MCRules`, `MCRules.cfg` | the active rules are those of a whole file, a refused request changes nothing, one set per message, bodies that were not buffered stay untouched, and the flags that say so are enough |
| `startup` | `MCStartup`, `MCStartup.cfg` | the version tells the schema, whoever has a CA has that of the certificate file, an exported CA is kept |
| `lifecycle` | `MCLifecycle`, `MCLifecycle.cfg` | certificates are for the verified host, serving tunnels are closed, a shutdown in time loses no row, every shutdown ends |
| `history` | `MCHistory`, `MCHistory.cfg` | polling skips no row, ids keep their meaning, details are of one connection |
| `relay_tcp_half_close` | `MCRelayTCPHalfClose.cfg` | violated: see section 5 |

### Bounds, and why they are enough

* `intercept_safety`: one request and one response, two handlers, a timeout, one
  possible edit. Every race in the code is between one item and two parties (its
  own goroutine and a handler, or two handlers), or between two items in one
  `SetSettings`; the two items are at different pause points, so that a toggle
  can be wrong about one of them. Handlers are interchangeable, and only they
  are permuted. `TimeoutOn` is true, so all four ways to end a hold compete.
* `intercept_live`: two requests at the same pause point, one handler, no
  timeout: `SetSettings` then owes two sends at once, and only a disconnect or a
  toggle is left to end a hold.
* `forward`: one exchange, since exchanges share only toggles, rules and the
  sink, which change at any moment anyway. One body that arrives, one other, and
  the empty one; one head a rule or user can make and one that allows no body:
  enough to tell "as it came", "as the rules made it" and "as the user made
  it" apart. `Chunks` = 2: a stream can be cut before, in the middle of, and
  after its reads. The rule files are none, and rules for all parts of
  requests with rules for the heads and bodies, or for the Content-Length, of
  responses; a mixture comes from a reload between two steps. A reload that comes
  after the rules were applied to the response is left out, as nothing looks at it.
* `relay_tcp_capture`: two chunks one way, one the other, sizes 2 (or 1 after an
  edit) under a cap of 1: the cap is passed within a chunk, or reached exactly
  and then passed by a chunk of which nothing fits, and a later chunk finds it
  reached. Without resets, which do not touch capturing (`MayReset` is a bound
  of the model, not a parameter of the code).
* `relay_tcp_ends`: one chunk each way, with half-closes and resets at either
  end, and no timeout.
* `relay_udp`: one client, two datagrams, one answer per session: enough for a
  session to be evicted while its datagram is under way, and for the client to
  open a second one beside it. Sessions of different clients meet only in the
  reader, as consecutive sessions of one client do.
* `sys_capture`: two packets of five arrivals: a datagram and its answer (one flow,
  two directions), an IPv6 datagram, a TCP segment under IP options whose capture is
  padded, and a fragment, which is not parsed. Edits of one byte and of two meet
  payloads of one byte and of two, `LenMod` = 64 lets every length fit that the
  edits can make, and a cap of 1 falls at the end of a payload or inside it. Two
  packets are enough for a session to be evicted between the lookup and the row of
  its second packet. No timeout: only the toggle and the shutdown then release
  without a user.
* `rules`: two savers, for the races are between two; five texts, of which two are
  not accepted, with every kind of condition and action, rules that depend on what
  earlier ones made, and bodies needed by one text and not by the next; three
  messages; one crash, which may come inside a save, as every state after a restart
  is one that a start can be in.
* `startup`: one server and two exporters, five starts. Three processes can
  be looking at the two files at once, so that one can load and another export what a
  third has whole on the disk and fails to close, and a process that fails can be
  started again after each of the others. Databases of all versions, the next one included.
* `lifecycle`: one plain request and one client that opens one tunnel after the
  other; two spellings of one host, an IP, and a name that is no host's; a cache of one, which is
  full at once. Main's order is fixed, so that more exchanges add no new order.
* `history`: answers of one row and three saves, so that a page is behind by two;
  one relayed and one captured connection, whose ids are then 1, 2, or 0.

`CHECK_DEADLOCK FALSE` stands where the system may stop: no saver, start or message is
left (`rules`, `startup`), or the process has ended (`lifecycle`).

### Fairness, and why the code justifies it

Fairness is weak, and only for goroutines that can run and for timers that were
started. Users, clients, peers, upstream servers, disks that fail and shutdowns
owe nothing, nowhere.

* `Intercept`: a call whose `select` has a ready case takes one; a handler that
  removed items sends and answers. Both are straight-line code.
* `Forward`: only once the request's context is done. Everything the handler can
  be waiting for then is tied to that context (the upstream request is built
  with it, the queue selects on it) or to the client's connection, whose reads
  and writes fail; before that an upstream may be silent for ever.
* `RelayTCP`: the pumps run; a write returns, because the peer reads, or is gone.
  A peer that stops reading and keeps its connection would block a write for
  ever: the code sets no deadline, and the model assumes no such peer.
* `RelayUDP`: the goroutines run, the ticker ticks until the service stops, and a
  shutdown that was begun goes on. A read from an open socket is not assumed to
  return, nor to fail.
* `SysCapture`: the loop goes on, but for receiving, which waits for a packet; the
  ticker ticks until the context is done, a sweep that removed a session closes
  it, and a shutdown that was begun goes on.
* `Lifecycle`: main goes on when it can, and the five seconds pass. Nothing else
  is assumed: no exchange, tunnel or service has to end.

`OnePumpEndsBoth` and `ReaderEndsWithSocket` name the one exception there is: a
chunk that is held without a timeout waits for its user.

## 4. What is proved

TLAPS checks the theorems below, for any values of the constants, finite or not,
under the `ASSUME`s of the module they are about, which give the constants their
types and keep special values apart. TLC evaluates these on every run. All invariants,
action properties and refinements without fairness of the passing runs are theorems. Each
invariant is proved as usual: `Init` implies an inductive invariant, every
action keeps it (one lemma for an action or for a group that changes the same
things), and it implies the property.

**`InterceptProofs`** (`HoldAssumption`, `InterceptAssumption`; for any pause points, and
whatever a cancelled context means). `TypeCorrect`, `ResolvedOnce`, `NothingHeldWhileOff`,
`AcknowledgedResolutionDelivered`, and `QueueImplementsContract`, that the queue
implements `HoldContract`. `ExactlyOneOwner` does not say that a call's id is its own
key in the map, so that a step which removes an id could remove another call's; and
`AckedIsDelivered` does not say what becomes of a resolution that a handler has not
sent yet. `Inv` adds `IdsMatch` (the map has each item under its own id, and an id
belongs to one call; a stale id finds nothing), and `CallsAt` and `HandlersAt`: what
is known at each place of a call and of a handler. Under the mapping of `Contract`, a
call is *held* while it is in the map and *decided* from the step that removes it;
`Enqueue` is the contract's `Hold`, `Bypass` its `Pass`, `TakeWon` and `Resolve` are
`Decide`, `SetSettings` is `Switch`, `Apply` is `Return`, `Disconnect` is `Cancel`,
and all others stutter.

**`ForwardProofs`**: `RequestRowIsSent`, `ResponseRowIsDelivered`,
`BrokenIsNeverComplete`, `UserHasTheLastWord`, for any heads, bodies, rules and
number of chunks. The four speak of the end of an exchange; `Inv` says what leads
there, place by place: what is buffered came whole (`BodyAt`); the row has the
request as it came until it is recorded, and from then on the one that was sent, with
the message's Content-Length (`RequestAt`), which is the one that was sent for a
buffered body and for one that streams under the length that it arrived with; a decision is about the message as it is from then on
(`DecidedAt`); the row and the reply agree while the reply is written (`ReplyAt`).

`ExchangeFromOutside` is the refinement: `Outside` takes the exchange for the one plain
request of `Lifecycle`, active, held or saved (`Seen`), and the two toggles for its one,
which is on as long as either is. It needs `HeldAt`, that a held message is at a pause
point that is on, which `Inv` does not imply. A step that holds, resolves or saves is
`Lifecycle`'s `Hold`, `Unhold` or `Finish`. Switching off the held message's toggle while the
other stays on is `Unhold`, and every other `SetSettings` is `Lifecycle`'s.

**`RelayProofs`**, TCP: `HistoryIsChronological`, `NothingReadIsLost`,
`CaptureStaysCapped` and `TotalsAreFinal`, for any number and size of chunks and any
cap. For the first, `Inv`
says how numbers relate (`NumbersAt`: what is on the wire, under way and received, and
that nobody has seen what was not written) and that a chunk gets a sequence number
above all that were given, after all its sender can have seen has one (`OrderAt`). For
the second, `RelayAt`: what was read has arrived or was dropped, but for the chunk
under way. For the third, `CapAt`: a pump's counter is at least the sum of its rows (a
row may not have been saved), and a row that was cut short is its direction's last.
For the fourth, that a closed row means two pumps that have ended. `StoreSeesSession`
is the refinement of `Sessions`: `RowAt` says that pumps run under an open row only.

The sum is a fold over a set of rows, so that the cap needs an induction: `SumUnique`,
`SumExists` and `SumAdd` say that there is one sum, whatever the order, and that a new
row adds what it stores. They argue by the smallest subset for which a claim fails,
which the library's `WFMin` gives for the order of strict inclusion.

**`RelayProofs`**, UDP: `NoSocketIsLost` is `RelayUDP`'s `NoSessionIsLost`, for any
number of clients and datagrams. The
reader is the only one that inserts: `ReaderAt` says that there is no session of its
client in the table while it opens one. `RelayUDP` comes in by `INSTANCE`, as both
modules have names in common; of its assumption the proof needs `Datagrams \in Nat`
only, which the theorem states. `StoreSeesTarget` is the refinement of `Sessions`, through
both instances. Its invariant, `OnceAt`, says that a session is in one hand at a time -
the table's, the sweep's, or the reader's that is about to insert it - and that its row
is open as long as it is in one: whoever closes it does so once.

**`RulesEngineProofs`**: `RulesAreTheFiles` and `RefusedChangesNothing`, for any number
of savers, texts and crashes. `LockAt` says that whoever is between the mutex's lock
and unlock holds it, `TextAt` that what is renamed is the accepted text, and `FileAt`
that file and active rules differ only between rename and publication, or by a hand's
edit.

`RulesOfOneSet`, `UnbufferedBodyStays` and `NeedsSuffices`, for any texts, rules and
messages, are about what a set makes of a message, which the model computes by
recursion over its rules. `RunExists` shows that there is such a function, by the
least number of rules for which there is none, and `AtStep` gives its next value by
`Turn`. `ExInv` says that what an exchange has is what the rules gone through of one
set made of its message (`At`). `Unbuffered`: without the body only rules that need
not look at it fire, and the body stays; `SameWithout`: where no enabled rule of the
direction looks at the body, the same rules fire with it as without it, and the rest
of the message comes out the same; `CompiledIsSet`: the flags of a compiled set are
those of its rules, and its rules are the accepted ones. Both then follow from what
is proved of a single action and condition (`OtherActions`, `OtherMatches`).

**`SysCaptureProofs`**: `AcknowledgedIsInjected`, `RowsTellTheWire`,
`SessionsAreFound` and `TypeCorrect`, for any packets, header lengths, padding, payloads and edits, any
cap, and any number of sessions. They rest on `EditIsDelivered`, a theorem about
`Packet` alone: a packet in which `replacePayload` put an edit can be parsed again, is
of the same flow, and delivers the edit's bytes and no others, over IPv4 with options
or IPv6, TCP or UDP. `PacketAt` says for each place of the loop what the chunk is: the
payload as it came, or what the acknowledged resolution makes of it, which was checked
against the packet that is still in hand. `RowsAt` says that the rows have nothing of
a packet before `Store`, and afterwards what is going to be sent. `TableAt` says that
a session's key is made of its protocol, client and upstream, that the table has no
key twice and no other packet's while the loop opens a session, and where a session
with an open row can be. `Types` is what `TypeOK` adds to all this, and holds because of
it: that what `Resolve` makes of a chunk is a chunk, that a sweep meets only sessions.
`StoreSeesSessions` is the refinement of `Sessions`, with an `OnceAt` of its own: here
Shutdown is one more hand that closes, and a session with a chunk has a row.

**`StartupProofs`**: `OneCA` and `ExportedStays`, for any number of servers and
exporters, and `VersionIsSchema`, which assumes that there is one server (`OneServer`):
two servers that migrate one database at once are outside of it, and it does not hold
for them (section 5). `CAInv` says whose files the two are while a process creates them, from the key file to
the end of the certificate's or the removal of the key, and that nothing is there of a
certificate that is still to be written. It follows that one process at most creates
(`OneCreates`), that a whole certificate is nobody's to fill and stays (`WholeIsKept`),
and that the key beside it is touched by its creator alone, which can only remove it
(`KeyOfWhole`). It does not say that the key is there: that is false (section 5).

**`LifecycleProofs`**: `ClientSeesVerifiedHost`, `ShutdownClosesTunnels`,
`ShutdownInTimeSavesAll`, for any names, tunnels and requests and any size of the
cache. `TunnelInv` says what the names of a tunnel have to do with each other at each
of its places (`NamesAt`), and that a tunnel that listens or serves is in the map.

**`HistoryProofs`**: `PollingSkipsNoRow`, `IdsAreForEver`, for any number of saves and
any size of an answer, and `DetailsOfOneConnection`, for any connections. The
invariants say that the table, and what was copied from it into pages and tabs, has
every exchange under the number of its save (`TableAt`, `PageAt`, `TabAt`); that an
answer on its way to the page has no gap (`AnswerAt`); and that a session's id is 0 or
that of the row its connection inserted (`ConnsAt`, `ChunksAt`).

`ImplementsSessions` of the relay is proved and has no run of its own: the runs'
properties are those that a reader should see fail, and the capture's run shows this
one. `NothingHeldWhileOff` and `TypeCorrect` of the queue are proved and not run either;
the first follows from the contract.

Only model-checked is what is about liveness: `ImplementsFairContract`,
`NoneLeftHanging`, `HandlersAnswer`, `GoneClientIsLetGo`, `OnePumpEndsBoth`,
`IdleSessionIsEvicted`, `ReaderEndsWithSocket`, `LoopEndsWithHandle` and
`SignalEndsProcess`. Fairness and ENABLED are beyond the prover.

## 5. Where the code does something else than it says

`FullStreamForwarded` (`tcp.go:65`) is the run `relay_tcp_half_close`: a peer that
closes only its sending side loses what the other peer has sent and not yet been
read, and the session is recorded without an error. README.md:423 does say that a
session lasts until either side closes; README.md:430 says that the stream is
forwarded in full.

The modules state more properties that TLC finds violated when they take the place of
the properties of a configuration (its constants unless said otherwise):

| property | configuration | what happens |
|---|---|---|
| `RecordedRequestLengthIsSent` (`proxy.go:259`, against `proxy.go:256`) | `MCForward.cfg` | a header rule may set or remove Content-Length (`compile.go:205` takes any name); of a request that is not buffered, `recordEditedRequest` copies the rule's value into the row (`proxy.go:434`), and the request is sent with `r.ContentLength` (`proxy.go:281`, `outbound.go:125`) |
| `RecordedLengthIsDelivered` (`proxy.go:368`) | `MCForward.cfg` | the row of a response that was edited or ruled has the Content-Length that the upstream sent, not the one that was delivered; the request's side corrects its copy |
| `NoHalfCreatedCA` (`ca.go:135`, "don't leave a half-created CA behind") | `MCStartup.cfg` | where the certificate's file was created and its write or close fails (`ca.go:146`), the key is removed and the certificate stays; the next start refuses the directory |
| `UsedKeyIsThere` (`ca.go:135`, `ca.go:146`) | `MCStartup.cfg` | a creator that fails to close a certificate it has written whole removes its key; a process that has loaded this CA in between serves with it, or has exported its certificate, and no later start has its key |
| `RecordedUploadIsComplete` (`proxy.go:186`) | `MCForward.cfg` | the deferred function reads the capture of a streamed request body while the transport's goroutine may still write it, when the response came early or the exchange was cancelled |
| `ShutdownEndsSession` (`relay.go:169`) | `MCRelayTCPLive.cfg` | `Shutdown` closes no TCP connection; with an open session it waits until its own context ends |
| `LiveSessionIsRead` (`udp.go:162`) | `MCRelayUDP.cfg` | a refused datagram ends a session's downstream reader and not the session, which then works in one direction |
| `ShutdownForwardsHeld` (`capture_windows.go:83`, against `hold.go:145`) | `MCSysCapture.cfg` | the handle is closed before the held packet is released, so that it is lost and not forwarded |
| `StartCanMigrate` (`store.go:178`, against README.md:638) | `MCStartup.cfg` with `Servers = {"s1", "s2"}`, `Exporters = {}`, `MaxStarts = 3` | the version is read before the transaction: a server can repeat a migration that another one has done, and set the version back; no later start can then migrate, and `VersionTellsSchema` fails as well |
| `NeverWaitsForUser` (`main.go:176`, against README.md:259) | `MCLifecycle.cfg` | the UI still serves when the toggles were switched off, and can switch them on; the shutdown then waits its five seconds for a held request |
| `KeptBodyIsResent` (`ui/repeater.go:63`, against README.md:277) | `MCHistory.cfg` | a tab whose body is not in the browser sends an empty one after the history was cleared |

Seen while modelling, and stated by no property:

* Rules: a rule set published between the question whether a body is needed and the
  application skips its body rules without a note (`proxy.go:206`). A page gets the
  raw text and the rules of a file one after the other, perhaps from two saves
  (`ui/rules.go:19`). `compile.go:130` calls two header conditions on one name
  contradictory that a header with two values meets.
* Forwarding: a rule that declares a Content-Length for a response that streams also
  declares what the client takes for the whole of it: a shorter one makes a truncated
  body complete, or ends the copy with an error of net/http's writer that is not the
  upstream's, so that the handler returns and aborts nothing (`proxy.go:371`,
  `proxy.go:393`). `NeverFalselyComplete` is about responses whose length no rule changed.
* CA: a crash between the two files leaves the key alone, or a certificate that is
  truncated; the next start refuses both and says so (`ca.go:78`, `ca.go:153`).
* Tunnels: an SNI that is an IP literal gets a certificate for it, while the upstream
  is verified as the CONNECT host (`tunnel.go:34`). A tunnel whose "200" cannot be
  written leaves no row, though README.md:45 says that failed tunnels do. One that
  enters the map after Shutdown's loop is closed by nobody, and exchanges in tunnels
  may be lost at the end: only plain connections are waited for.
* Relay: an edit that lengthens a chunk makes the captured bytes of a TCP session
  exceed its total (`tcp.go:94`). `bytesUp` of UDP is added after the write, so that
  an eviction in between closes the row short (`udp.go:99`). A UDP session inserted
  after Shutdown's loop keeps its socket. Chunks of a session whose row could not be
  stored are stored under id 0, and shown nowhere.
* Capture: `shutdownCommon` is said to wait for the receive loop, which no
  `WaitGroup` tracks (`sysCapture.go:213`). A Shutdown before the handle is stored
  never closes it. A session inserted after the table was emptied keeps an open row.
  A UDP edit beyond 16 bits wraps the length fields (`packet.go:183`).
* History view: rows saved between Clear's deletion and its answer are taken off the
  view until a reload; a poll under way during Clear puts deleted rows back into it.

## 6. What is not modelled, and the plan

Not modelled, and why:

* WinDivert's bindings, the configuration's flags: no logic of their own.
* The mutex sections of the relay's hold queue, a second time: they are those of the
  intercept queue, with toggles per target; several targets share nothing else.
* The accept loops and the binding of listeners: they only start what is modelled.
* Header filtering, views, formatting, hex and header parsing, the UI's guard
  against other origins: functions from text to text.
* Several TCP sessions at once: they share the hold queue and the store.

To come, most important first:

1. The relay's and the capture's queues against `HoldContract` with GoneDrops = FALSE,
   with several targets and directions.
2. The row of a failed handshake, and the byte counts of UDP sessions.
