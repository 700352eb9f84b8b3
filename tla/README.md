# MiniTunnel in TLA+

MiniTunnel lets a client reach TCP ports of a machine behind NAT. Three
processes take part: a **relay** everybody can reach, an **agent** on the private
machine, and a **client**. Agent and client only dial out; the relay joins the
connections of the two. On top of a forwarded connection the two ends can also
keep their clipboards in step.

This directory models that code, checks it with TLC on small instances, and
proves what matters most for every instance with TLAPS. Lines below are of
`src/` at the commit that is modelled.

To check a run: `tlc -config relay_safety.cfg MCRelay.tla`. To check the proofs:

    for m in Relay Tunnel ControlLink ClipWire ClipSync ClipSession; do tlapm ${m}Proofs.tla; done

(Each takes a minute or two.)

## 1. Inventory

### Components

| Component | State | Operations | Code |
|---|---|---|---|
| Relay rendezvous | `agents`, `waiting`, `sessions` under `r.mu`; one goroutine per connection, a heartbeat per control link, a reaper per parked client | `handle`, `handleAgent`, `handleClient`, `handleAgentSession` | `cmd/relay/main.go` |
| Raw piping | two copies per session, the connections' half-close states | `Pipe`, `halfCloseWrite` | `internal/proto/proto.go` |
| Client forwarding | one goroutine per local connection | `serve`, `handleConn`, `dialRelay` | `cmd/client/main.go` |
| Agent sessions | one goroutine per session | `handleSession`, `closeSession` | `cmd/agent/main.go` |
| Control link | read deadlines and tickers at both ends, `ac.mu` over the relay's writers | `run`, `handleAgent`, the heartbeats | `cmd/agent/main.go`, `cmd/relay/main.go` |
| Framing | none | `WriteMsg`, `ReadMsg` | `internal/proto/proto.go` |
| Clipboard sync | `lastSeen` under `mu`, `lastImgSig`, chunk buffer; a poller and a reader at each end | `Sync`, `sendImage` | `internal/clip/sync.go` |
| Clipboard session set-up | backoff, one live session | `clipLoop`, `runClipSession`, `serveClipboard` | `cmd/client/main.go`, `cmd/agent/main.go` |
| Relay dialling | none | `DialRelay`, `AcceptWS`, `dialRelay` | `internal/proto/ws.go`, `cmd/client/main.go` |
| Clipboard commands | the machine's clipboard | `Read`, `Write`, `ImageSig`, `ReadImage`, `WriteImage` | `internal/clip/` |
| Dashboard, and the WebSocket entry of the tunnel | none of its own; reads the tables under `r.mu` | `snapshot`, handlers; `handleWS` calls `handle` | `cmd/relay/dashboard.go` |
| TLS, keys, flags, `gencert`, deployment | configuration | start-up only | `internal/proto`, `cmd/gencert`, `deploy/` |

### How they interact

1. An agent opens a control link (`Hello{agent_control}`); the relay files it in
   `agents`, replacing and closing an older link of the same name. Both ends ping
   every 30 s and give the link up when they have read nothing for 90 s.
2. A client opens a connection per local connection (`Hello{client_session}`).
   The relay looks the agent up, parks the connection in `waiting` under a fresh
   session id, writes a `Notify` to the control link and then a `SessionAck` to
   the client, and arms a reaper.
3. The agent opens a data connection (`Hello{agent_session, sid}`), then dials
   the local service. The relay takes the parked client out of `waiting`, lists
   the session in `sessions`, and runs `Pipe` on the two connections.
4. Client and agent run `Pipe` as well, so that a byte crosses three pipes. Each
   direction ends on its own by half-closes; a pipe closes both connections when
   both directions are over.
5. `Sync` runs at both ends of such a connection: the client's `clipLoop` opens
   it and waits for a hello, the agent's `serveClipboard` accepts it and says it.

### What is hard, and what makes each part correct

* **Relay.** Handlers share three tables but hold the lock only for single
  accesses, so everything read under it may be stale when it is used: the link a
  `Notify` is written to, the entry a cleanup deletes, the request a reaper cuts.
  Connections end at any moment, sends into dead links succeed, dial-backs come
  late or twice, the relay restarts. It is correct when the newest registration
  wins and dead links leave; when a request is paired once at most, is watched
  for as long as it is parked and is answered once; and when the relay neither cuts
  a pipe that is running nor forgets a connection that it left open.
* **Forwarded connection.** Six half-closes, two timers and any broken
  connection have to add up to three properties: the end of a stream means that all
  of it came, nothing but the other program's data comes, and nobody hangs.
* **Control link.** A heartbeat and any number of handlers write frames, in two
  writes each, to one connection that may take nothing for a while or for ever,
  in one direction only or in both. It is correct when frames stay whole, when a
  dead link is noticed at both ends and a live one is not given up, and when
  whoever waits on a dead one gets on.
* **Clipboard sync.** Poller and reader share only `lastSeen`. A clipboard
  command runs outside the lock, takes long, and may fail, while users copy at
  both ends. It is correct when only new copies are sent, each is noticed, big
  ones stay at home, an image that crosses in chunks arrives whole even between
  versions with different limits, and the two ends never block each other.
* **Clipboard set-up.** Dial, ack and hello can each fail, be late or come in the
  wrong order. It is correct when rapid failures slow down, when sync is declared up only if
  the agent serves it, and when it always comes back.

All hazards, each at its line and with the properties that cover it, are listed in
`PROJECT.json`; the ones no property covers say why.

## 2. Modules

| Module | What it is |
|---|---|
| `Rendezvous` | abstract: what the relay promises about requests, pairs and the directory, without locks or handlers |
| `Relay` | the relay process, one action per critical section and per socket write; implements `Rendezvous` |
| `Tunnel` | one forwarded connection from the user's program to the service, across client, relay, agent and three `Pipe`s |
| `ControlLink` | both ends of a control link, its writers, its deadlines, time and the network |
| `ClipSync` | `Sync` at both ends of one clipboard session: which changes are sent and applied |
| `ClipWire` | the same session seen from the link: frames, limits of size, chunks and their joining |
| `ClipSession` | how the client keeps one clipboard session open |
| `RelayProofs`, `TunnelProofs`, `ControlLinkProofs`, `ClipWireProofs`, `ClipSyncProofs`, `ClipSessionProofs` | the inductive invariant of each, and the proofs |
| `MCRelay`, `MCTunnel`, `MCControlLink`, `MCClipSync`, `MCClipWire`, `MCClipSession` | symmetry sets and constant functions for TLC |

The modules overlap on purpose, each with one part of the program in detail and the
rest as its environment. `Relay` has every client, agent and link at once; `Tunnel` has
one client and one agent, but follows what they send through all three processes;
`ControlLink` has one link, but with time and a connection that fills up. `ClipSync`
treats a content as one message; `ClipWire` shows that contents cross whole and in
order, which is what entitles it to.

Each module has a short section "Faults". Its definitions are the code's with a
plausible bug put in (a check dropped, a table left as it was); none is part of
`Next`. Replacing the true definition by its faulty form violates the property named
in `PROJECT.json` under `mutants`: it shows that the property can fail.

### Relay

| Code | Model |
|---|---|
| `r.agents`, `r.waiting`, `r.sessions` | `agents`, `waiting`, `sessions` |
| where a handler goroutine stands | `ctl[k]`, `cli[c]`, `dat[d]` |
| `ac` in `handleClient` | `link[c]` |
| what `Hello` said | `name`, `sid` |
| the two copies of `Pipe` | `flow[d]`: the ends still read from |
| `conn.Close()` | `closed`; the far side's end is `gone` |
| `Notify` that reached the agent | `told` |
| writes to a client | `sent[c]`: a sequence of `ok`, `nak`, `data` |

* A connection is used once; the role in its `Hello` splits connections into three
  sets. A session id is 128 random bits for one client connection, so the client
  connection stands for it.
* `handleAgent` is `Register`, `ReadFails`, `HeartbeatFails`, `Deregister`;
  `handleClient` is `AgentOffline`/`AgentFound`, `NoSessionID`/`Park`,
  `NotifyArrives`/`NotifyVanishes`/`NotifyFails`, `Unpark`,
  `AckWritten`/`AckFails`, and its reaper `Reap`; `handleAgentSession` is
  `Pair`/`TurnAway`, the steps of `Pipe`, and `Unlist`.
* A write to a connection closed here fails. A write to a connection whose far
  side is gone may fail or vanish: `NotifyVanishes`, and `AckWritten` for a client
  that is gone, are that case.
* The handler writes its `ok` after the agent knows of the session, so the pipe may
  run before it. If the agent is so quick that `Pipe` has already half-closed the
  client, the write fails and `AckFails` closes a connection that is being piped;
  `HalfClosed` is that case.
* `ReadFails` is a link that has ended or is silent. `ReadMsg` would also fail on a frame
  it cannot parse; the program's agents write none, since `WriteMsg` is the only one
  who writes to a control link, one goroutine at a time.
* `WriteMsg` writes an ack in two writes (`proto.go:88,91`) and shares no lock with `Pipe`,
  so that a pipe may write between them. Here, and in `Tunnel`, the ack is one item: all
  a split one does is that the client gives up, as it does when data come first.
* Time is left out, and with it `ac.lastSeen`, which only the dashboard shows. A
  deadline or the reaper may fire at any moment once it is armed, which includes
  every moment at which it does fire.
* `Restart` empties the tables and ends every connection. Agents remember what
  they were told, so that dial-backs for forgotten sessions come.

### Tunnel

Connections 1 to 4 lead from the user's program over client, relay and agent to
the service. Each is two streams; `buf` holds what is under way, `fin` the streams
whose writer has shut them, `shut` the ones whose reader has closed the connection,
`broken` the connections that are reset.

* `Copy`, `CopyLost` and `FlowEnds` are the loop of `io.Copy`: it moves a piece, or
  writes into a connection the other end has left (which succeeds, and may be
  answered by a reset), or returns at EOF or an error. `Pipe` does not look at the
  error: `FlowEnds` shuts the other side in all cases. `PipeReturns` is the `Wait`
  and the two closes.
* `Close` on a connection with unread input may reset it, as TCP does; what was
  under way is then lost.
* A frame (`ok`, `nak`) is one item of the stream to the client. `ReadMsg` reads
  exactly one and leaves what follows to the pipe.
* `ClientGivesUp` stands for a nak, an EOF, 10 s of silence, and a first item that
  is no ack, which is what the early pipe described above puts there, before the ack or
  between its two writes.

### ControlLink

| Code | Model |
|---|---|
| `ac.mu` | `mu`, the writer that holds it |
| the heartbeat and each `handleClient` | `writer[w]`: `idle`, `lock`, `hdr`, `body`, and for a client `told` or `failed` |
| bytes on the connection | `toAgent`, the half frames of all writers in the order of the writes; `toRelay`, pings only |
| `io.ReadFull` for the length | `half`: whose frame the agent has begun |
| `SetReadDeadline(now + 90 s)` | `quiet[e]`: time since; `ReadExpires` |
| the two tickers | `phase`, `tick`: a ticker's channel holds one tick |
| what the network does | `net`, per direction: `ok`, `stalled`, `cut`; `down`: for how long |

* `WriteMsg` writes the length and the frame separately (`WriteHeader`,
  `WriteBody`), under `ac.mu` and without a deadline: with `Capacity` writes under
  way it waits, holding the lock, until the link is closed.
* A write to a link the other end has closed fails when the network says so (`Reset`). The
  heartbeats then close the link at their own end (`WriteFails`, `AgentPingFails`);
  a `Notify` is given up.
* The unit of time is 30 s. `Tick` is possible when no process has anything to do
  (`Idle`): processes take seconds at most, so that a step of one and a ping
  interval are never of the same size. The network stalls and resumes at any moment,
  with an outage measured in ticks.
* `Replaced` and `Redial` are the agent's loop around `run` and what registering does
  to the old link. The new link begins when the handlers that hold on to the old one
  have failed; what happens when they have not is `Relay`'s matter.

### ClipSync

`clipboard` is what the two machines hold. `poll[p]` and `read[p]` say where the
poller and the reader stand; `lastSeen` is the variable under `mu`; `sample` and
`incoming` are what the two goroutines have in hand.

* One action per clipboard command and per critical section. Between the poller's
  read and its comparison, and between the reader's marking and its write, anybody
  may act.
* A content stands for its own hash; an image for its own signature, and it crosses
  the link as one message: the chunks are `ClipWire`'s.
* `Stored` maps an image to what the pasteboard holds after it was written, since
  the code expects the system to re-encode it (`Calibrate`, `Settle`).
* `SenseFails` is a failing `clipboard info`: `ImageSig` reports "no image", and
  what `pbpaste` then returns is empty text.
* A link holds `Capacity` messages; a write to a full link waits. Pings are not
  sent as messages; that a dead link is noticed by the write or read they cause is
  `PollerFails` and `ReaderFails`.

### ClipWire

* A content is the sequence of its pieces, `<<content, index>>`, and has a number of
  bytes. `TextFrame` and `Chunk` are the messages with what `Sync` and `WriteMsg`
  look at: type, sequence number, whether more follows, bytes, and the length
  of the JSON: an envelope (the keys and braces of a `Msg`) and the text as JSON
  escapes it, or the chunk in base64.
* `SendText` and `SendChunk` are the writes; `WriteRefused` is `WriteMsg` finding the
  JSON longer than `maxMsg`, on which the poller closes the link. `ReadMsg`'s own check
  of the length is no action: a frame that would fail it is refused where it is
  written.
* `ReadChunk` joins what is in order and fits `MaxImage` of the reader's end,
  `DropChunk` forgets what has been joined; chunk 0 always begins anew. A chunk that is no
  base64 would be dropped likewise (`sync.go:190-193`); `sendImage` writes none. `imgBuf`,
  `nextSeq` are the code's.
* `MaxImage` belongs to an end, since the two may run different versions; 0 is one
  from before images.
* Two histories say what the link is measured by: `offered[p]` is what the poller of p
  has found, and `owed[p]` is, of what the other end wrote, what p's version takes
  (`CanTake`). What p has `applied` is to be the beginning of `owed[p]`.

### ClipSession

* `elapsed` is what `clipLoop` measures, in units of 100 ms. Each step adds nothing or
  as much as its deadline allows: the two extremes decide whether a failed session
  can look like one that was up for a minute.
* The relay and the agent answer in any order: `RelayAcks` is a step of its own after
  `RelayParks`, so that the agent's hello can overtake the ack. The client
  then reads a hello where it expects an ack, which reads like a refusal
  (`AckRefused`).
* `Trouble` counts what keeps a session from coming up (`MaxFailures`).
* `wsURL` says which of its two branches `DialRelay` takes, for as long as the client runs.
  On a `ws://` or `wss://` address the context bounds a dial by `DialLimit`. On a
  `host:port` address `DialRelay` ignores the context (`ws.go:43-44`) and nothing but the
  operating system bounds a dial: `SystemLimit`, 130 s in the run, any number in the
  proofs.
* `failed` counts the sessions in a row that did not come up. A dial that takes longer
  than `DialLimit`, possible on a `host:port` address alone (`Overruns`), begins the count
  anew.
* `FailsInAMinute` is assumed of the limits: three dials of at most `DialLimit`, with
  the longest pause after each, an ack and a hello are over within `Minute`. The
  program's numbers meet it (57.7 s of 60 s). It says nothing of `SystemLimit`.

## 3. Runs

Each run that passes ends within three minutes on two cores.

| Run | Instance | Checks | Distinct states |
|---|---|---|---|
| `relay_safety` | 2 names, 2 links, 1 client, 2 dial-backs, 1 crash, symmetry | `TypeOK`, `OpenLinkRegistered`, `NoGhostAgent`, `SessionsMatchPipes`, `ParkedIsWatched`, `PipeNotCut`, `RefusedGetsNothing`, `NothingLeaks`, `NewestRegistrationWins`, `ImplementsPromise` | 602 000 |
| `relay_liveness` | 2 links, 1 client, 1 dial-back, fair | `ClientResolved`, `DeadLinkDropped`, `DeadSessionUnlisted` | 73 000 |
| `relay_ack_first` | 1 of each | `AckBeforePipe`: **violated** | |
| `tunnel` | 1 piece each way, 1 break, fair | `TypeOK`, `NoTruncation`, `OnlyData`, `ReplyDelivered`, `UserTold`, `TornDown` | 141 000 |
| `control_link` | 2 clients, 2 faults, `PingInterval` 1, `ReadTimeout` 3, capacity 2, fair | `TypeOK`, `Framed`, `HealthyKept`, `DeadNoticed`, `NotifyReleased`, `AgentReturns` | 563 000 |
| `clip_sync` | 1 copy of a text or an image, 1 failing command, capacity 1, fair | `TypeOK`, `SilentUntilCopy`, `BigStaysHome`, `TextArrives` | 273 000 |
| `clip_stale` | 1 text copied | `NothingStaleSent`: **violated** | |
| `clip_connect` | nothing copied, an image at connect | `SilentUntilCopy`: **violated** | |
| `clip_image_lost` | 1 image copied, 1 failed read, fair | `ImageNoticed`: **violated** | |
| `clip_wire` | 2 changes at each end, 5 contents about the limits, two versions, capacity 1, fair | `TypeOK`, `WholeAndInOrder`, `OnlyEscapingEnds`, `Delivered`, `SendsDrain`, `SessionEnds` | 104 000 |
| `clip_escape` | the same | `CopyKeepsLink`: **violated** | |
| `clip_session` | both kinds of address, the limits of the program, 7 sessions that do not come up, fair | `TypeOK`, `SlowsDown`, `UpMeansServed`, `ComesBack` | 59 000 |

What they show:

* **Directory.** In every interleaving of two links, whether they use one name or
  two, a live link is the one its agent is reached under, no entry outlives its
  handler, and an entry only moves from a broken link to one that registers now.
  The check `r.agents[id] == ac` in the cleanup is what this rests on.
* **Sessions.** A request is piped once, listed while it is piped, and decided by
  somebody while it is parked. `PipeNotCut` needs its last clause: the ack's error
  path does close a running pipe, but only when the client is gone or the agent has
  said all it had to say. What the client still had to say is lost then; the
  tunnel's properties cover what its user sees of it. `handleClient` returns with
  its connection open, and `NothingLeaks` says that somebody has it then: it is parked
  with the reaper on its way, or piped, until it is closed. Every step of
  the relay is one of `Rendezvous` or changes nothing there.
* **Streams.** With no connection broken or reset, the end of a stream means that
  all of it arrived. The exemption is needed: `Pipe` turns an error into a clean
  end, so what was lost in a broken connection looks complete to the receiver. The
  answer of the relay shares a connection with the data, and may be written before or
  after the pipe begins; yet neither program reads anything but data (`OnlyData`). A
  request stream that ends early does not cost the reply, a user whose service, relay
  or agent has ended is told by the end of its input, and a session both sides have
  finished is torn down everywhere. A user who *left* is only a half-close to the
  service: one that ignores it keeps the session, so `TornDown` assumes that both
  have finished.
* **Requests and links.** No request stays parked, no dead link registered, no dead
  session listed.
* **Control link.** Frames of several writers do not mix. An outage shorter than
  `ReadTimeout - PingInterval`, in either direction and however pings drift against
  the deadline, costs nothing. A direction that is dead is noticed at its end
  within `ReadTimeout` and at the other within twice that: the second end hears
  pings until the first gives up. A `Notify` has no deadline, and a full link does hold
  `ac.mu` and every other writer; but the link's own read deadline ends that
  (`NotifyReleased`).
* **Clipboard.** Text on the clipboard at connect is not sent, what is too big is not
  sent, and a copied text gets to both clipboards although a command failed. The
  properties that say more than this are false, see section 4.
* **Link of a clipboard.** Each content arrives whole, once and in order, also after
  one that the other end's version finds too big; what one end's limit admits the other's
  does, to the byte; two ends that both write over a full link never block
  each other; and nothing makes an end close a link that works but a text that JSON
  makes longer.
* **Set-up.** On a `ws://` or `wss://` address, after n sessions in a row that did not
  come up the pause is at least 3 s · 2^(n-1), up to 60 s: the slowest failure there is on
  such an address (three dials at 10 s each and two pauses, an ack of 10 s and a hello of
  15 s: 55.9 s) does not pass for a session that was up for a minute. The margin is
  4.1 s: a fourth attempt or a longer limit would use it up.

  On a `host:port` address this does not hold. Three dials into a relay that drops
  packets take minutes there; `clipLoop` takes the failure for a session that was up
  (line 121 of the client's `main.go`) and resets the backoff, after each failure again.
  `SlowsDown` therefore counts, on such an address, only the sessions since a dial last took
  longer than the context allows: failures whose dials are refused, or hang for less than
  10 s, do slow down. `ComesBack` and `UpMeansServed` hold on both kinds of address,
  however long a dial takes.

### Bounds

A connection of `Relay` and `Tunnel` is used once, so an instance is bounded by its
connections; the other bounds are named constants.

* `Relay`: every property relates at most two links, or two dial-backs, to each
  other, and the instances have two of what the property compares. That two *clients*
  do not get in each other's way is proved for every number of them (section 5);
  `relay_safety` has one. `MaxRestarts` = 1: after a restart the tables are empty
  again, and a second one adds nothing to what old dial-backs can meet. `MaxData` = 1
  distinguishes "some data" from none. A name or link is told from another by equality
  alone, so symmetry is sound; the liveness run uses none.
* `Tunnel`: one piece each way tells "all of it" from "not all of it"; the proof
  removes that bound. One break is enough to exercise each error path, and
  closes with unread input add resets that are not counted.
* `ControlLink`: `ReadTimeout` is 3 `PingInterval`s, as in the program. Two clients and
  the heartbeat are three writers, so that one can hold the lock, one wait and one come later. Two
  faults let both directions fail, or one fail again. `Capacity` = 2 is one frame: a
  writer can be held at either half once the agent has begun to read.
* `ClipSync`: one copy suffices for what concerns one content. The contents are one
  to send, one too big and one image beside the empty text; old texts and images at
  connect are the matter of the violated runs.
* `ClipWire`: the program's numbers, but for `maxImage`, which is two chunks at one
  end and four at the other. Sizes lie at the limits and one byte beyond them; two
  changes let an image follow one that was dropped half-way, and both ends write.
* `ClipSession`: seven failures pass the point where the backoff reaches its maximum
  (the sixth).

`CHECK_DEADLOCK FALSE` is given where connections run out or a session ends: in all
runs but `control_link` and `clip_session`, which never may stop.

### Fairness

`FairSpec` asks weak fairness of the goroutines, in every module: a handler that can take
its next step does, a timer that is armed fires, a read from an ended connection
returns. Nobody owes the relay a `Hello`, data, the end of a stream, or a crash;
users copy or not. The Go scheduler and the code's deadlines justify this.

* `Relay` assumes that the write of a `Notify` returns. It has no deadline of its
  own; that it does return is `NotifyReleased` of `ControlLink`.
* `Tunnel`: the two programs also read what arrives.
* `ControlLink`: time passes (`Tick`), and an agent that dials again gets through in
  the end. The network owes nothing; a direction that is cut stays cut until the redial.
* `ClipSync`: the poller's `select` between `done` and its tickers is strongly fair
  to `done` (`PollerDone`): it is ready at every turn, and Go chooses among ready
  cases at random.
* `ClipWire`: weak fairness of `PollerWrites` and of `ReaderStep`; pings are only
  possible, and so is a change.
* `ClipSession`: weak fairness of what the client waits for with a deadline, and of relay
  and agent answering in the end; a session that is up may last for ever.

## 4. Findings

| Run | What the code does | What is said of it |
|---|---|---|
| `relay_ack_first` | `handleClient` writes the ack after the agent was notified; a quick agent is piped first, and the client takes the service's bytes for the ack | "sent before the connection switches to raw piping", `internal/proto/proto.go:61-62`; `README.md:156-157` |
| `clip_stale` | the poller compares a sample it took earlier with a `lastSeen` the reader has set meanwhile, and sends the old text back over the new; the copy can be lost at both ends | "a stale clipboard never stomps the other side", `internal/clip/sync.go:69-70` |
| `clip_connect` | `lastImgSig` starts empty, so an image on the clipboard at connect is sent at the first tick | "Nothing is sent on connect", `internal/clip/sync.go:69`; `README.md:408-409` |
| `clip_image_lost` | the signature is noted before the image is read; if that fails once, the image is never sent | `README.md:400-401` |
| `clip_escape` | a text within `maxText` is written as it is, but JSON makes six bytes of a `<`; 12 KiB of markup are refused by `WriteMsg`, and the poller closes the link | "48 KiB of text leaves headroom for JSON escaping. Bigger copies are skipped [...] rather than killing the link", `internal/clip/sync.go:50-52` |

Two more behaviours of the model have no run of their own. The first is the dial of a
`host:port` address described under *Set-up* above, which ignores its context although
`ws.go:40-41` says that "ctx bounds only the dial and handshake": without the case
`Overruns` in `DialTakes`, TLC finds `SlowsDown` violated. The other: with a `Stored` that is not the
identity (a pasteboard that re-encodes images, which `sync.go:220-222` expects),
`ApplyImage`, `SenseImage`, `FetchImage`, `Compare` and `Send` may all come before
`Settle`: the poller finds the applied image in its new form before the reader has
calibrated, and sends it back.

## 5. Proofs

What is proved holds for every value of the constants that meets the named
assumptions: any number of names, connections, clients, contents and pieces, any
capacity, any number of faults. In each module of proofs the invariant `IInv` is a
conjunction of named parts; one step lemma per part takes it through every
action; the theorems follow from `IInv`.

### Relay (`RelayProofs`)

| Theorem | Property |
|---|---|
| `RelayInvariant` | the inductive invariant `IInv` |
| `RelayTypeOK` | `TypeOK` |
| `DirectoryCorrect`, `NoGhosts` | `OpenLinkRegistered`, `NoGhostAgent` |
| `ParkedWatched` | `ParkedIsWatched` |
| `RefusalIsFinal` | `RefusedGetsNothing` |
| `SessionsCorrect` | `SessionsMatchPipes` |
| `PipesKept` | `PipeNotCut` |
| `NothingForgotten` | `NothingLeaks` |
| `NewestWins` | `NewestRegistrationWins` |
| `RelayImplementsPromise` | `ImplementsPromise`, that is `Promise!Spec` of `Rendezvous` |

*Assumptions.* `ConnsDisjoint`: the three roles have connections of their own, as
one `Hello` has one role. `NoneIsFresh`: `None` is none of the names or connections.
`BoundsNat`: the bounds are numbers; no proof depends on their values.

    IInv == TypeOK /\ DirectoryInv /\ RequestInv /\ SessionInv

* `DirectoryInv` adds `LinksNamed` to the two directory properties: a handler past
  its `Hello` knows its name, and a cleanup starts only on a broken link. Without it
  `Deregister` could remove the entry of a live link.
* `RequestInv` adds `RequestsFresh` (before its `Notify` is out, nobody knows of a
  request and nothing was written to its client) and `RefusedUntold` (a request that
  was refused was never announced). Data reaches a client only through a dial-back,
  a dial-back only follows a `Notify`, and a nak is only written where no `Notify`
  got out: that is `RefusedGetsNothing`.
* `SessionInv` adds `DialBacksKnown`: a dial-back is for an announced session, its
  connection stays open until its pipe returns, and its pipe reads from its own two
  ends. It is what lets `Unlist` remove the one session that is its own, and lets
  `PipeReturns` close nobody else's connection.

`NothingLeaks` is inductive once the types are known (`LeakStep`): `Pair` takes a
connection out of `waiting` only into a pipe, and every other way out closes it.

For the refinement, `RefinementInit` maps initial states, and `RefinementStep`
maps every action to an action of `Rendezvous` or to a stutter: `Pair` to `Pair`,
`Unlist` to `Unpair`, `Register` to `Online`, `Deregister` to `Offline`, `Restart` to
`Crash`, each way to end a request without a partner to `GiveUp`. `FreshRequest` and
`MoveRequest` say how a request moves when one handler steps.

### Forwarded connection (`TunnelProofs`)

| Theorem | Property |
|---|---|
| `Invariance` | the inductive invariant `IInv` |
| `TypeCorrect` | `TypeOK` |
| `NeverTruncated` | `NoTruncation` |
| `NoFrameEscapes` | `OnlyData` |

*Assumption.* `BoundsNat`: how many pieces are sent and connections break is a number.

    IInv == TypeOK /\ StageInv /\ FrameInv /\ FlowInv /\ CountInv /\ EndInv

The argument is about sessions that are `Whole`: no connection is broken, no process
has given up, and the client, if it does not pipe yet, will get its ok.

* `StageInv` and `FrameInv` say where the processes stand and that an `ok` is only in
  the stream to the client, between the relay's write and the client's read.
* `FlowInv`: a stream is shut by the copy that writes it and by nobody before, and
  nobody closes what a copy still reads.
* `CountInv` counts: if nobody has left from the k-th stream of a direction on, and the
  k-th is shut, then the sender has finished and `got` plus what is in the streams
  from the k-th on is `sent`, and the `ok` if it is on its way.
* `EndInv`: who has seen the end has everything, and nothing more can come.

A step out of a session that is not whole never leads back (`WholeStep`), and one that
keeps a session whole is one of the few that `Onward` lists (`OnwardStep`), so that
`CountStep` and `EndStep` need not look at the many ways to fail.

`OnlyData` rests on `AnswerInv`, which holds of broken and abandoned sessions as well: no
stream but the one from the relay to the client ever holds more than data, and
that one holds one answer at most, none before it is given and none once the client
pipes. `KeptStep` sorts the steps: but for the relay's two answers, each leaves a stream
alone, takes a piece off it, adds data, or loses it all.

### Control link (`ControlLinkProofs`)

| Theorem | Property |
|---|---|
| `Invariance` | the inductive invariant `IInv` |
| `TypeCorrect` | `TypeOK` |
| `FramesWhole` | `Framed` |
| `HealthySurvives` | `HealthyKept` |
| `DeathNoticed` | `DeadNoticed` |

*Assumptions.* `WritersDiffer`: the heartbeat is no client. `TimesNat`: `PingInterval`
is positive and less than `ReadTimeout`; nothing else is asked of the two times.
`BoundsNat`.

    IInv == TypeOK /\ MutexInv /\ StreamInv /\ DownInv /\ AwakeInv

* `MutexInv`: `ac.mu` is held by the writer that is writing. `StreamInv` adds `TipInv`
  to `Framed`: while both ends have the link, a frame without its second half is last, and
  its writer is about to write that. Only `Redial` gives the agent a link (`AgentKept`),
  so what is on a link it has left need not be followed.
* `DownInv`: an end that is open has heard nothing for as long as its direction is
  down; one that is left alone has been for no longer than the other took to give up.
* `AwakeInv`: while both ends are open, an end has heard nothing for one ping interval
  and the time its direction was down, since every tick of the other's ticker is on
  its way to it. `IdleOnlyDown` is its core: when time passes, what has not been
  delivered is held by the network.

### Clipboard (`ClipSyncProofs`, `ClipWireProofs`, `ClipSessionProofs`)

| Theorem | Property |
|---|---|
| `ClipSyncProofs!Invariance`, `TypeCorrect` | `IInv`, `TypeOK` |
| `SilentConnect` | `SilentUntilCopy`, if the ends hold only text when the session begins |
| `BigStays` | `BigStaysHome`, if nothing too big is there at the beginning and the pasteboard makes nothing too big |
| `ClipWireProofs!Invariance`, `TypeCorrect` | `IInv`, `TypeOK`: with it, that a reader holds at most `maxImage` |
| `ArrivesWhole` | `WholeAndInOrder` |
| `EndsForAReason` | `OnlyEscapingEnds` |
| `ClipSessionProofs!Invariance`, `TypeCorrect` | `IInv`, `TypeOK`: with it, that the relay and the agent answer once each |
| `UpIsServed` | `UpMeansServed` |
| `FailuresSlowDown` | `SlowsDown`: of all failures on a `ws://` or `wss://` address, on a `host:port` address of those since a dial last outlasted its context |

*Assumptions.* `ClipSync`: two ends; `Empty` is a text that is not too big. `ClipWire`:
two ends, `FramesFit` (a text at its limit, if JSON leaves it as it is, and a chunk fit
a frame; true of the program's numbers, on which `OnlyEscapingEnds` rests).
`ClipSession`: the limits are numbers, and `FailsInAMinute`, which is what keeps a
session that fails from resetting the backoff if its dials keep to `DialLimit`; nothing is
assumed of `SystemLimit`. TLC evaluates them on the program's numbers.

* `ClipSync`: `QuietInv` (while nobody has copied, an end that polls knows what its
  clipboard holds; this is what fails for an image), `SmallInv` (nothing too big
  is in a sender's hand, under way, or in a reader's hand), `HomeInv` (only a copy
  puts something too big on a clipboard).

**`ClipWire`.**

    IInv == LinkTyped /\ SendingOffered /\ OnlyEscapingEnds /\ WireInv

`LinkTyped` says that frames are pings, texts or chunks of contents, `SendingOffered`
that what is being written was found by the poller and is within its limits.
`ChunkFits` bounds the JSON of a chunk, so that only a text can be refused
(`RefusedGrows`). `WireInv` is about each direction, with everything from the poller
to the clipboard in view:

* `ChunksFollow`: before chunk k of an image comes chunk k-1, on the link or already in
  the reader, and before chunk 0 anything may come; the poller is the place behind the
  last frame. In the reader it means that it holds just the chunks before k, or has
  dropped them because the image is too big for its version.
* `OwedInOrder`: one can number the places of the link by how many of the owed contents
  are complete before each; the first number is what has been applied, and the
  last is all that is owed but for what the poller still has in hand. Each frame that
  belongs to a content this end takes belongs to the next one owed.
* `AppliedOwed`: what has been applied is the owed contents, in full.

A write lengthens the numbering and a read cuts its first place off (`Carry`), so that no
property of a sequence's elements has to be computed by recursion: `owed` was chosen
as history variable for that.

**`ClipSession`.** `IInv` has nine parts besides `UpMeansServed`.

* `HelloInv` and `NakInv` tie an answer in the inbox to the state of the request;
  `RestInv` says that between two connections nothing is left of the last one.
* `RoomInv` and `AckInv` count the answers under way: relay and agent
  answer a request once each.
* `CountInv`: a session that cannot come up any more (`Troubled`) has had something go
  wrong that no earlier session has counted; hence `failed <= failures`.
* `TimeInv` bounds `elapsed` by what the steps so far may have taken, as long as
  `failed > 0`, which rules out that a dial of this session has overrun. A failed session
  is then short of a minute by `FailsInAMinute` and does not reset the backoff. After
  an overrun `failed` is 0, and the shortest pause is all that `SlowsDown` asks next.
* `SlowInv`: while a session is being set up, the backoff is ready for its failure.

`SlowsDown` speaks of powers of two, a recursive function. The library's induction
is out of the provers' reach, so `Least` (a set of numbers has a least one, from
the library's `WFMin`) takes its place: a claim that fails has a least number for which it
does. With it, functions that double as far as n exist for every n and agree
(`DoublesExists`, `DoublesAgree`), and joined they are `TwoTo` (`TwoToDoubles`).

### Only model-checked

Liveness: its proofs need `ENABLED`, which the proof system cannot expand. Every
invariant and every safety property of an action that a passing run checks is proved.

## 6. What is not modelled

* **Dashboard:** it only reads the tables, under one lock. Its token check and
  HTML change no state of the tunnel. Its listener also hosts the WebSocket entry of the
  tunnel (`handleWS`, `dashboard.go:103-113,133-138`), which is no part of the dashboard
  proper: it feeds the same `handle`, and its connections are connections of `Relay`.
* **TLS, keys, configuration, `gencert`, deployment:** start-up code without state. A
  rejected key is `RejectControl`, `RejectClient`, `RejectSession`.
* **Running the clipboard commands:** choosing a tool and a user id is data;
  `ClipSync` has each command as a step that succeeds or fails. Two images that share
  a signature do not occur, since an image stands for its own.
* **Durations** outside `ControlLink` and `ClipSession`: "within 10 s" is "eventually,
  or whenever the timer fires". The dials of the agent and of a forwarded connection
  ignore their limits on a `host:port` address as well; what that delays has no property.
  `ClipSession` counts no time for closing a connection.
* **Port lists and target ports:** whether a port is allowed is a choice
  (`AgentCloses`, `AgentDeclines`).
* **The client's listeners:** their accept loops start one session per connection and
  share nothing.
* **Two clipboard sessions at one agent:** each has its own `lastSeen`; they
  share a clipboard that either may write.

## 7. What could follow

1. Two clipboard sessions with one agent, and images that share a signature.
2. Convergence: when copying stops and nothing fails, all clipboards agree, but for
   what the findings name.
3. What the provers cannot do today: the liveness properties, above all `ClientResolved`
   and `NotifyReleased`.
