# A TLA+ verification of covert-connect

covert-connect carries an application's connections through an encrypted tunnel to a server. A
client (`crates/client`, run by the command line `crates/cc-client` or by the Flutter user
interface) is an HTTP/HTTPS/SOCKS proxy; it picks a server for each connection, and the server
(`crates/cc-server`) connects to the target. Everything that is on the wire between the two goes
through `crates/crypto`.

This directory holds TLA+ modules of the parts of that system that are hard to test, the TLC
configurations that check them on small instances, and machine-checked proofs of what matters most
about eight of them. Paths below are relative to `src/`; `proxy.rs` alone means
`crates/client/src/proxy.rs`.

To repeat the checks, run `tlc -config X.cfg M` for a row of the table of runs, and `tlapm M.tla` for
each module whose name ends in `_proof`.

## 1. The system

| Component | State | Operations | Talks to |
|---|---|---|---|
| Encrypted stream, `crates/crypto/src/stream.rs` | per half: cipher and nonce, bytes counted, write buffer and position; read state, part buffer | `poll_write`, `poll_flush`, `poll_shutdown`, `poll_read` | the socket below it, `copy_bidirectional` above it |
| Ciphers, keys, `cipher.rs`, `kdf.rs` | key, nonce | `encrypt`, `decrypt`, `inc_nonce`, key of an interval of time | the stream, the handshake |
| Handshake, `crates/cc-server/src/server.rs`, `crates/client/src/protocol.rs` | nothing shared; a connection's progress | `process_tunnel`, `get_server_protocol`; `start_tunnel`, `try_special_request`, `terminate_slowly` | client and server over TCP |
| Tunnel, `protocol.rs`, `monitor_stream.rs` | two copy buffers, the server's statistics | `copy_bidirectional`, `poll_read`/`poll_write` of `MonitorStream` | the application, the encrypted stream |
| Choice of the server, `FindProxyForURL` of `pac_file_service.rs`, `select_server` of `proxy.rs` | reads the direct domains, the servers, their rules and weights | two functions | `Registry`'s state |
| Proxy life cycle, `proxy.rs`, `pac_file_service.rs` | state, port, restart channel, listener, PAC file | `serve`, `set_proxy_port`, `set_proxy_state`, `reset_proxy` | the system's proxy settings (`crates/sys-proxy`), browsers through the PAC file |
| Servers and rules, `proxy.rs`, `rust/src/api/service.rs` of the UI | list of servers, direct domains and applications | add, update, enable, delete a server; set and remove a rule; load a configuration; write back a lookup | UI, tunnels |
| HTTP upgrade, `upgrade_stream.rs` and `server.rs` | position in a request or response | reads header by header | a reverse proxy between client and server |
| Time to first byte, `ttfb_stream.rs` | what the fake application has sent and seen, a waker | `get_ttfb` | a tunnel |
| System proxy, `crates/sys-proxy` | settings made, on macOS a monitor that repeats them | set, restore | commands of the operating system |
| Process of a connection, `crates/sys-connections` | none | one query | tables of the operating system |
| Log delivery, `rust/src/api/log.rs`, `rev_lines_ex.rs`, `lib/src/log/log.dart` of the UI | callbacks, position in the file, the page's lines | register, unregister, notify, read backwards, merge | UI |
| Saved configuration, `proxy_service_impl.dart` | the file | `saveConfig` | UI |
| Main loops, command line, configuration files | none that changes | accept, parse | the rest |

What makes it hard:

* **Every poll may stop half way.** A frame is cut anywhere by the transport, a caller's buffer
  takes part of it, and `poll_write` may say it took bytes none of which left.
* **Two ends must agree without telling each other**: which nonce, whether the limit of encryption
  is reached, which interval of time a key comes from, where the request ends.
* **No lock is held across a call's steps.** The calls of the UI, the loading of the configuration,
  the start of `serve` and the tunnels run in one multi-threaded runtime; a call takes and releases
  several locks and copies what it read.
* **Ends are asymmetric**: half-closes, resets, a peer that leaves between two parts.
* **Settings of the system are many commands**, each of which may fail, and two calls may interleave
  theirs.
* **What is shown comes from two places**: the log's page merges the end of a file with callbacks that
  were on their way while it was read.

`PROJECT.json` lists the hazards one by one with the line where each bites and the property that
watches it.

## 2. The modules

| Module | Models | Composition |
|---|---|---|
| `EncryptedStream` | one direction of a tunnel: the writing half, the transport, the reading half | implements `ByteStream` |
| `ByteStream` | what the two callers of a direction may rely on | the abstract specification, of `EncryptedStream` and twice of `UpgradeStream` |
| `NonceWords`, `MCNonceWords` | the nonces of a direction as words, with `inc_nonce` | extends `EncryptedStream`, whose frames say how far each nonce moves |
| `UpgradeStream`, `MCUpgradeStream` | the HTTP upgrade on both sides of a reverse proxy, and the bytes after it | each direction implements `ByteStream`, so it is a transport for `EncryptedStream` |
| `Handshake`, `MCHandshake` | one connection from accept until tunnel or close, and the request for the configuration | ends where `EncryptedStream` and `Tunnel` begin |
| `Tunnel` | `copy_bidirectional` and the statistics, for a program, a direct connection or a probe | uses of the stream only what `ByteStream` promises, and that bytes may be held back until a flush |
| `SelectServer`, `MCSelectServer` | one call of `FindProxyForURL` and one of `select_server` | reads what `Registry` keeps |
| `ProxyControl` | `serve` and the calls that turn the proxy on and off, move it and change a rule | its `Setting` is one call of `SystemProxy` seen as a whole |
| `Registry`, `MCRegistry` | servers, rules, direct lists and the PAC file's domains | the same calls as `ProxyControl`, for the other half of their state |
| `SystemProxy`, `MCSystemProxy` | the commands of a setting on macOS, GNOME and Windows, the state macOS remembers, the monitor | |
| `RevLines` | the reverse reader of the log, and the same lines found forwards | |
| `LogPage`, `MCLogPage` | the log's writer, its callbacks and the pages that show it | extends `RevLines` |
| `EncryptedStream_proof`, `Handshake_proof`, `Tunnel_proof`, `SelectServer_proof`, `ProxyControl_proof`, `Registry_proof`, `SystemProxy_proof`, `LogPage_proof` | proofs | each extends the module it is about, the first one `NonceWords` and so `EncryptedStream`, the third one `UpgradeStream` too, the last one `MCLogPage` for its texts |

`Tunnel` stands on a single promise of the layer under it, which `IsByteStream` checks of that
layer and `Refines` proves; `EncryptedStream` stands on a transport that is a byte stream, which a TCP
connection is and which `UpImplements` and `DownImplements` prove of an upgraded one. The layers are
not multiplied in one state space.

### EncryptedStream

A wire byte is its position in the writer's output, a plaintext byte its position in what the caller
wrote. `frames` is a history of what was assembled. So a byte that is lost, repeated, out of order or
read under the wrong header is visible, and the cipher is reduced to what the code relies on: a part
opens exactly if it is a whole part, sealed under the reader's nonce. Unencrypted parts are read
whatever they hold. One action is one poll: `PollWrite`, `Flush`, `Shutdown` with the number of bytes
the transport takes, and one read action for each block of `poll_read` (`ReadHeader`, `ReadPadding`,
`ReadData`, `ReadReady`, `ReadEof`), which is where a pending read is entered again. `Die` ends the
writing process with a frame in its buffer. Each of `Paddings`, `Encrypted`, `HeaderInc`, `NewFrame`
is the rule of the same name in the code. The two directions share no mutable field, so one is
the whole protocol.

### NonceWords

A nonce is a sequence of words (six of 16 bits in the code; three of base 4 in the run, so that every
carry happens), cut from the head of the salt on one side and from its tail on the other. `IncNonce` is
`inc_nonce`: the carry goes up word by word, what leaves the last is lost. `NonceOf` gives the nonces of
all the parts that `EncryptedStream`'s `frames` have sealed.

### UpgradeStream

A character of a header is a negative number, a byte of a caller its position, so a byte of the
tunnel that was taken for one of the header, or the reverse, shows. The client (`PollWrite`,
`ReadAnswer`, `PollRead`) does not wait for the answer before it sends its caller's bytes behind the
request. The server (`ReadRequest`, `Reply`) reads one character at a time. The proxy between them
is external: it replaces each header by one of its own, of a few on both sides of the limit of 255
bytes, answers with an error page, or breaks. `Limit` is scaled down with the headers.

### Handshake

The client stamps a key (its clock may differ), writes the request and goes on at once to the
tunnel's bytes or to reading the answer. The network delivers any prefix. `FirstRead` is the
read of at most `min_header_len` bytes, `ReadRest` the `try_read` of the remainder, with every result
the platform may return (`TryRead`: an edge-triggered reactor that was told the socket is empty may
not yet know of new bytes; a read into an empty buffer may or may not report `WouldBlock`). The host's
length is one byte (`HostLenMod`), reduced by `MIN_HOST_LEN` with wrap-around. Lengths are scaled
down; the guards compare the same sums as the code. Connections share nothing that changes, so one
stands for all.

### Tunnel

tokio's `CopyBuffer` and `TransferState` (external, as version 1.38 of the lock file has them, modelled
from how the code uses them) per direction: read, write, flush when idle, shutdown at the end of the
source, fail at once on a reset. Bytes are counted, not named: order and content are `EncryptedStream`'s
subject. `held` is what the encrypted stream accepted and keeps. `CountRead`, `CountWrite`
and `CountEnd` are `MonitorStream` and the error path of `process_tunnel`. `client` says what the
application is: a program, a program with a direct connection (`direct_connection`: no encryption, no
statistics), or the `TtfbStream` of `get_ttfb`, which sends one request and ends its side when a first
byte comes back; then nobody else may wake its task, hence `woken`.

### SelectServer

Lists of servers, direct domains and requests are enumerated; the state machine has a step for the
browser, if it has the PAC file, and one for the proxy. A domain is the sequence of its labels.
`hosts_by_dots` is the array that `update_content` writes into the PAC file, `FindsDirect` its
JavaScript's search for names. `Bisect` is the binary
search of the standard library as it runs on lists that are *not* sorted as well; a server whose
`ServerConfig::init` failed is left unsorted by the code. `Draws` and `Balanced` are the balance by
weight with its mean for the servers without one; the search and the sums (`SumsOf`) are recursive
functions, so that they can be reasoned about. `RulesInOrder` takes the rules in the code's order: an
application that goes direct and only it, no servers, a server's application, a domain.

### ProxyControl

`serve` and each call are processes; a step lies between two awaited locks, or an access to the
atomic port. The restart channel is its sender in `restart` and a receiver in `serve`. A port
may be taken by another program whenever it is free. A setting of the system is granted or refused.
History variables: `overlapped` (two tasks were setting the state or the system at once), `stale` (the
system or the PAC file was left behind by a change of the port, by the code's own rule that state All and
Off do not rewrite them), `panicked`.

### SystemProxy

On macOS a call lists the services that have an address, sets each, replaces `state` and then clears
what the old state had set, at every service; each command is a step and may fail, which ends the call.
The monitor's handler clones `state` and repeats it as a call of its own. `SystemProxy::new` drops the
monitor in the statement that starts it, so only what was dispatched by then still runs
(`MaxUpdates`). GNOME and Windows are lists of commands on one setting, without memory. What a
command changes is modelled from how the code uses it (`networksetup`, `gsettings`, the registry).

### LogPage and RevLines

The reverse reader is a recursive function over positions: each step reads a chunk that ends there. A
text is a sequence of bytes of which only LF and CR matter. `LinesForward` finds the same lines in the
other direction, byte by byte and without chunks; it is what the reader is compared with. In `LogPage` an event is one byte and a
line feed; the writer adds it to the file and spawns a task that hands it to each callback, which
spawns again for the page. `register_logger` is three steps; `unregister_logger` runs after the page
closed. The page reads the end of the file, merges it with what came meanwhile, and loads older
chunks. `NoneMissing` says what becomes of each line: the page shows it; or it is in a full chunk above
the oldest line and the end is not reached, so that scrolling reads it (`ToScrollTo`); or it is one of
the first lines of the file, fewer than a chunk of them, which `_loadMore` drops with the end reached
(`NeverKept`). The last case is what the code does and no promise: see `EndIsTheEnd` below.

### Registry

A rule is an item of a kind (a domain or an application) that is direct or belongs to a server. A step
is what happens under one lock. `Load` initialises the configuration's servers one after another; a
tunnel's lookup is `Copy`, an await, and `WriteBack`. `page` is the server as the UI's page was
opened with it, which it saves later. `Canon` is `ServerConfig::init`'s effect on a host named with the
port. Simplifications: the direct lists of the configuration are there from the start, the state is
Pac or Off (in All, as in Off, a changed rule does not rewrite the PAC file), and the same items serve as
domains and as applications.

## 3. What is checked

| Run | Question | Properties | Instance | States |
|---|---|---|---|---|
| `stream` | Do the two ends stay in step however the polls are cut? | DeliveredInOrder, NeverInvalid, NonceFresh, WordsFresh, EndsAtFrame, GracefulEnd, ShutdownSeen, IsByteStream | 7 plaintext bytes, packets of 1-3, limit after 2, padding of 0-3, 4 bytes in the transport; nonces of 3 words of base 4 | 46 thousand |
| `handshake` | Is a request taken to the byte, and in its time, and is every connection decided? | TunnelFollowsRequest, TimelyAccepted, WindowBounded, Decided, AskedEnds | hosts of length 0, 1, 3 over a field of 2 values; two paddings; clocks 1 apart; times 6 to 9 over intervals of 2 and 3 | 664 thousand |
| `handshake_cooldown` | Is a refused connection kept open for a while? | CooldownKept, violated | as `handshake` | |
| `tunnel` | Does a clean end mean everything arrived, is it counted once, and does it end? | EndsAfterAll, TxExact, CountedOnce, Reaches, TunnelEnds, ProbeEnds | 3 bytes each way through a copy buffer of 2, for the three kinds of client | 248 thousand |
| `select` | Do the rules hold, and how are draws shared? | RulesInOrder, DirectByRule, NoPanic, ShareWithinWeight | all pairs of servers over three domains in any order and two applications, one of which goes direct; one server beside every list of up to 3 of four direct domains; all lists of up to 3 servers over 5 weights, and one of 101 servers without a weight; 17 requests | 451 thousand |
| `control` | Do listener, system and PAC file follow port and state, and does each call return? | ListenerFollowsPort, SystemFollowsState, PacFollowsPort, RestartIsServed, CallsReturn | 2 callers, 2 calls, 2 ports, one failing accept, one refused setting | 365 thousand |
| `control_send` | Can the restart signal always be sent? | SendSucceeds, violated | no failures of accept or settings | |
| `registry` | Do rules, direct lists, PAC file and state agree? | DirectOrAssigned, DirectOnce, PacFollowsDirect, OffWithoutServers | 2 callers, 2 calls, 1 tunnel, 3 host names for 2 hosts, 1 item of both kinds, 3 configurations | 1.4 million |
| `registry_lookup` | Does a lookup leave the rules alone? | LookupKeepsRules, violated | 1 caller, 2 calls, 1 tunnel | |
| `system_proxy` | Does the system use what was asked for, and is nothing forgotten? | AsAsked, NothingForgotten | 3 platforms, 2 services, 2 addresses, 2 callers and the monitor, 3 calls, one failing command, one change of services, one update | 1.5 million |
| `log` | Does a page show every line, and is each callback its page's? | NoneMissing, OwnCallbacks, ReadsAllLines | 3 events, 2 pages, chunks of 3 bytes and of 2 lines; the reader on all texts of up to 6 bytes with chunks of 1-4 | 3.5 million |
| `upgrade` | Are both directions byte streams through the proxy? | UpIsByteStream, DownIsByteStream, Upgraded | limit 7, four requests and three answers around it, 3 bytes each way, 6 in the connection | 114 thousand |

Each property is stated in words above its definition. Definitions marked `fault` are a wrong form of
the definition that follows them, one that the property named in `PROJECT.json` detects.

### Why the bounds are enough

* `stream`: a behaviour passes the limit of encryption in the middle, has encrypted and clear
  frames, with and without padding, frames larger than the transport (so each one is cut) and smaller,
  and callers' buffers smaller than a frame. A longer run repeats the state between frames, which the
  proof makes precise for every size. The salt starts the client's nonce where the first increments carry
  through every word and wrap at the top.
* `handshake`: the times from 6 to 9 hold every phase of both intervals relative to stamp and accept,
  up to the second interval that must refuse. The host lengths include one that the length field wraps.
  Bytes of the tunnel follow the request (`MaxExtra`), so reading one byte too many shows.
* `tunnel`: a source larger than the copy buffer fills, drains and refills it; each direction can be
  closed, reset or pending at each of these points.
* `select`: a list of three is the shortest on which the bisection takes both sides and with two
  servers after the first, which the balance treats apart. The weights are those the arithmetic tells
  apart: none, zero, below, near and above the mean; of 101 servers without a weight each would have less than
  one percent, which the integers round to nothing. One of the two applications goes direct and a server
  names both, so the order of these two rules shows. The direct domains have one to three labels, so that
  a shorter list stands before and after a longer one.
* `control`, `registry`: two callers give every pair of interleaved calls, beside `serve`, the loading
  and a tunnel. Callers are alike, so symmetry is sound; the runs with liveness have none. The theorems
  about both modules hold for any number of callers.
* `system_proxy`: the third call comes to the state that two overlapping ones left; two services let
  one be set and the other not when a command fails or the list changes. One failure is enough: a call
  ends with it.
* `log`: three lines are more than a chunk of two, so the merge keeps older ones apart and the page can
  scroll; chunks of 3 bytes cut lines of 2. With two and three events, one and two lines are above the oldest one:
  a chunk that is dropped and a full one. The second page opens while the first one's registration or
  removal is still under way. Six bytes hold a chunk boundary on either side of CR LF.
* `upgrade`: the headers are one shorter than, as long as and longer than what each side accepts, with
  CR LF and with bare LF, and without the path; the request does not fit the connection together with
  the caller's bytes, so each can be cut.

### Fairness

* `EncryptedStream`: a flush, a shutdown that was begun and a read that can go on are taken in the
  end. `copy_bidirectional` flushes before it waits and polls a shutdown to its end; TCP makes room. No
  caller is obliged to write or to shut down.
* `Handshake`: the tasks of both programs are polled, the network delivers, and a client that asked
  for the configuration reads. Nobody is obliged to write: a client that connects and stays silent
  keeps its task for ever, as it does in the code, and `Decided` speaks only of those that wrote or left.
  A lookup and a connect return because the operating system limits them.
* `Tunnel`: weak fairness on each step of the copy, because the runtime polls what was woken; the
  ends owe nothing. A probe owes its own end, which comes only when it was woken (`woken`).
* `UpgradeStream`: the request is written, since `process_tunnel` writes first and tokio polls a
  pending write; the copy polls the reader; the proxy and the server's task go on. The proxy owes an
  upgrade only as long as it does not break or refuse.
* `ProxyControl`: weak fairness on `serve` and on each caller's next step: no step waits while it holds a
  lock, and the runtime polls what was woken.
* `SelectServer`, `Registry`, `SystemProxy`, `LogPage`: safety only.

`CHECK_DEADLOCK` is on in every run; states where the system rests are self-loops of their own
(`Ended`, `Done`) and nothing else hides behind them.

## 4. What is proved

Each proof assumes the module's named assumptions about its constants and nothing else: sizes, delays,
bounds and the numbers of callers, ports, servers, services, pages and bytes are arbitrary. Six
assumptions say more than that a constant is of its kind:

* `HandshakeAssumption`: the special request is no longer than the fixed part of a tunnel's request, so
  the first read, which is sized by the latter, can take it whole; both are constants of the code.
* `ConfigsAssumption` of `Registry`: a configuration that is loaded is as the program saves it at rest,
  with an item once among the direct ones or with servers. The code does not check one written by hand.
* `SelectServerAssumption`: the domains of a server whose `init` went through are sorted, which is what
  `init` does; weights are natural numbers or none.
* `RangeAssumption` of `NonceWords`: the nonces that differ are no fewer than those the encrypted frames can
  use, at most `EncLimit + 1` frames of `PadMax + 2` each. With a limit of 64 bits and a padding of 16 that
  is less than 2^81, of 2^96. Every combination of the configuration is within it.
* `UpgradeAssumption`: each header has one blank line, at its end. It may be of any length and any
  characters beside that; a header with an empty line in its middle would be a shorter header.
* `LogPageAssumption`: a page reads more than one line at a time (`kReadChunkSize` is 100). Of a chunk of
  one line `_init` would keep none apart, so `_loadMore` would have no position to read on from.

| Module | Theorem | Says |
|---|---|---|
| `EncryptedStream_proof` | `TypeCorrect` | `Spec => []TypeOK` |
| | `InStep` | `Spec => []IInv`, the inductive invariant |
| | `InOrder` | `Spec => []DeliveredInOrder` |
| | `AlwaysValid` | `Spec => []NeverInvalid` |
| | `NoncesFresh` | `Spec => []NonceFresh` |
| | `NonceBytesFresh` | `Spec => []WordsFresh` |
| | `WholeFrames` | `Spec => []EndsAtFrame` |
| | `Graceful` | `Spec => []GracefulEnd` |
| | `Refines` | `Spec => Bytes!Spec`: the safety part of the refinement of `ByteStream` |
| `Handshake_proof` | `WindowsBounded` | `Spec => []WindowBounded` |
| | `TunnelsFollow` | `Spec => []TunnelFollowsRequest` |
| | `TimelyIsAccepted` | `Spec => []TimelyAccepted` |
| `Tunnel_proof` | `TypeCorrect` | `Spec => []TypeOK` |
| | `EndsComeLast` | `Spec => []EndsAfterAll` |
| | `TxCounted` | `Spec => []TxExact` |
| | `OnceCounted` | `Spec => []CountedOnce` |
| | `UpImplements` | `UpgradeSpec => UpIsByteStream`: the upgraded connection refines `ByteStream` towards the server |
| | `DownImplements` | `UpgradeSpec => DownIsByteStream`: and towards the client |
| `SelectServer_proof` | `RulesGoFirst` | `Spec => []RulesInOrder` |
| | `PacGoesDirectByRule` | `Spec => []DirectByRule` |
| | `BalanceNeverPanics` | `Spec => []NoPanic` |
| | `SharesAreWithinWeights` | `Spec => []ShareWithinWeight` |
| `ProxyControl_proof` | `ListenerFollows` | `Spec => []ListenerFollowsPort` |
| | `SystemFollows` | `Spec => []SystemFollowsState` |
| | `PacFollows` | `Spec => []PacFollowsPort` |
| `Registry_proof` | `TypeCorrect` | `Spec => []TypeOK` |
| | `ProxyGoesOff` | `Spec => []OffWithoutServers` |
| | `NeverBoth` | `Spec => []DirectOrAssigned` |
| | `ListedOnce` | `Spec => []DirectOnce` |
| | `PacAgrees` | `Spec => []PacFollowsDirect` |
| `SystemProxy_proof` | `NothingIsForgotten` | `Spec => []NothingForgotten` |
| | `SetAsAsked` | `Spec => []AsAsked` |
| `LogPage_proof` | `CallbacksAreOwn` | `Spec => []OwnCallbacks` |
| | `NoLineIsLost` | `Spec => []NoneMissing` |
| | `EveryTextIsRead` | `SameLines` for every text and capacity, and `Spec => []ReadsAllLines` |

### EncryptedStream

None of the safety properties is inductive: that the reader opens every part depends on what is in the
transport, in the writer's buffer and in all earlier frames. The invariant has four parts beside the types:

* `FramesChain`: each frame begins where the one before it ended, on the wire, in the plaintext and in
  the sequence of nonces, and was encrypted or not by the count of bytes before it;
* `WireInOrder`: the writer's buffer and the transport hold the last bytes assembled, in order, without
  a gap: what is not in them is what the reader took;
* `ReaderInStep`: the reader's part is the run of bytes from the place where the part begins, and its
  nonce and count are those the writer had at that frame; what it delivered is the plaintext up to it;
* `EndsInStep`: an end was reached only behind the last byte, and a closed writer kept nothing.

The argument: lemmas about runs of positions (`RunConcat`, `RunSub`, `RunStart`) let pieces be
joined and cut; one lemma for each action and each part of the invariant it can disturb
(`PollWriteChain`, `PollWriteWire`, `WriteBufferWire`, `FillWire`, `ReadHeaderStep`, `ReadPaddingStep`,
`ReadDataStep`, `ReadReadyStep`). The heart is `HeaderFound` and `DataFound`: by
`FramesApart` the only frame whose header, or data, the filled part can be is the next one, so the
reader learns that frame's padding and size and no other. `IInvInit` and `IInvStep` put them together,
and each property follows from `IInv` by a lemma of its own (`DeliveredRun`, `NoncesApart`,
`EndsBetween`, `EndsWhole`).

`WordsFresh` needs of `IInv` only the chain of frames. A nonce stands for a number, given from its top word
down (`Upper`), and `IncAdds` says what `inc_nonce` does to it: it adds the value, but for a multiple of
all there are (`Numbers`) that leaves the last word. `EncryptedFrames` counts the frames that are
encrypted and bounds how far they move the nonce, `MovedUp` takes that to the parts, header and data. Two
parts with the same bytes would then have moved by amounts that differ by a multiple of the range
while they differ by less (`NoMultiple`). That the recursive functions of `IncNonce` and `NonceOf` have the
values their equations say is `Recursion`.

The refinement maps each action to one of `ByteStream`, or to none: a poll that takes bytes is an
`Accept` (`WriteAccepts`), a read that gives some is a `Deliver` (`GrowsInOrder`, which needs that
what was delivered before and after the step is a prefix of what was written, and so `IInv` on both
sides), the end of the stream is an `End` (`EofEnds`).

### The others

* `Handshake`: `IntervalBounds` and `IntervalsApart` say what two equal or neighbouring quotients say of
  two times. The invariant carries the fact that a header opened, from the step that opened it to the
  tunnel (`TunnelOpened`) and to the answer (`SpecialAnswered`), and that the two reads add up to the
  request (`RestExact`), which needs that the length of a host that was read is never below the
  minimum, also where the field wrapped (`HostRead`). For `TimelyAccepted` it says which refusals are
  still possible at each place of the server's code (`OnItsWay`): a tunnel's request meets none, and
  what is refused as a header may only be a special request, which the server looks for next;
  `IntervalsNear` is the other direction of the arithmetic, a time at most one interval earlier is in
  the same interval or the one before.
* `Tunnel`: `Conserved`, every byte that was read is in the copy buffer, held back by the stream or
  delivered; `Drained`, a direction shuts down with both of these empty and its source at its end;
  `EndedRight` and `Counters` for the end and the statistics.
* `UpgradeStream`: what travels in a direction is a header and the bytes of a caller behind it, and
  whatever a buffer holds is a cut of that stream (`Piece`; `PieceJoin`, `PieceCut`). `UpgradeInv` says
  which cut each buffer holds at each stage of the upgrade: `Unasked` and `Asked` towards the server,
  before and after the proxy put its header in place of the client's, with `Served` for how far the
  server has read; `Unanswered` and `Answered` towards the client, who is in the answer (`InAnswer`),
  behind it (`Passed`) or in an error page (`PageSent`). Two readers look for the end of a header, in
  different ways, and must find the same: the proxy takes the first blank line of what it has
  (`BlankInPiece`: that is the header's, however many bytes of a caller arrived with it), client and
  server count rows one character at a time (`RowsStep`: the second line feed in a row is there and
  not before, wherever the stream is cut). With `UpgradeInv`, a poll that takes bytes behind the
  request is an `Accept`, what the server's tunnel takes is a `Deliver`, and an end that is read is an
  `End` behind all of it; likewise downwards, where a page that was refused gives nothing. What the
  other end may think of a writer changes once (`WritersEnd`), so that a step is a `Close`, a `Die` or
  a stutter of `ByteStream`.
* `ProxyControl`: `ListenerFollowsPort` alone is not inductive, because a call may find no sender and
  fail after it stored the port. `SlotEmpty` says that this happens only before `serve` reads the port,
  or when a signal it has not taken yet is in the channel; `BindsCurrent` and `ListensCurrent` carry the
  port from where it is read to the listener. `SystemFollowsState` and `PacFollowsPort` rest on
  `InOrder`, which holds as long as no two tasks overlap and nothing is refused: what a call or `serve`
  holds in its hands is the state and the port there are (`AtWork`), and whatever does not agree yet is
  about to be set by a task under way (`KindOrComing`, `PortOrComing`, `PacOrComing`).
* `Registry`: `OffOrComing`, without a server the proxy is off, or was turned on since, or some call is
  about to write Off. Most of the proof is that the list stays a list under the operators of
  `SequencesExt` and gets empty only in `Delete` (`KnownPlace`, `ListRemove`, `ListInPlace`). The
  other three rest on `RulesInv`: while no call has overlapped another, the call in flight is the only
  one, and what is not in order is exactly what it has still to do (`Held`): the one item that may be
  direct and at a server is the one it is about to take from the servers, the item it is about to push
  is not in the list, and the PAC file that lags is about to be published. What it writes back
  whole, a server's page or a lookup's copy, brings no rule that has become direct (`Outdated`).
* `SystemProxy`: `Remembered`, whatever is on is of the kind the state remembers, or some task answers
  for it: it is about to store that kind, or to turn it off at that service. So it holds in between two
  calls that overlap, of which neither alone would restore the property. `AsAsked` takes what a call that
  began alone, and beside which none began, has done so far: on macOS it has set each service it listed
  but those still to be set, and what it turns off afterwards is of another kind (`MacDoes`); on the
  other platforms it has carried out the commands before its step, whose fields differ
  (`CommandsDiffer`), so that no later command undoes one.
* `LogPage`: `OwnCallbacks` holds between the calls of `unregister_logger`. `Once`: a page pushes one
  callback, and what is to be removed is an identifier that some page gave up. `Own`: as long as
  registrations come one after the other, an identifier belongs to one page, because the next one is made
  before another page reads it, and a page has its callback until its own removal took it away.
  `NoneMissing` follows from it and `LoadInv`. First, what the reader
  returns of this file: a line feed at every other byte, so `NextLineFinds` (below) gives its lines in
  closed form (`NextLineIs`, `LinesBeforeAre`), hence `LogReads`: a read that ends at an event
  returns a `Block` of the lines before it, and blocks that follow each other join (`BlocksJoin`).
  Then `Loads`: there is an event k such that the page holds the block up to it, and each later event is
  a task, a post or a line of the page (`Coming`); once the page has reached the end, fewer lines than a
  chunk are above that block. `GetLog` picks k as the last event written, which is
  when every later one finds the page registered; that a task hands its event to the page is
  `CallbacksAreOwn`'s invariant. `Merges` shows that taking out what came meanwhile takes out nothing,
  because a callback's line ends in its line feed and one of the file does not.
* `RevLines`: three functions are defined by recursion over positions, the reader's, its chain of lines and
  the one that finds the lines forwards; `Recursion` says that such a function exists, `NextLineReads`,
  `LinesAre` and `ForwardIs` that these three have the values of their equations. The line that ends at p
  `Begins` behind the last line feed before p, or at the start. `ChunkIs` is the choice of one chunk: it
  has that line feed, or the line goes on before it. By `Induction` on the position, `NextLineFinds`: the
  reader returns that line, whole, and goes on before the line feed, or before a carriage return in front
  of it; `ForwardFrom` is the same of the other direction. `ReadsWanted` joins them, again by induction.
  The hard case is the carriage return the reader took for a part of the separator, which the other
  direction left at the end of the line before: some byte must precede the return, or the reader would
  end there and leave that line out. The test `idx > 1` of the code sees to it.
* `SelectServer`: `Known`, `AskedFirst` and `ByTheRules` say of a decision which rule it came from; the
  work is in the functions the rules are made of. `Induction` is strong induction over a set of natural
  numbers, which the prover can use where it cannot instantiate the library's induction over an
  operator. `BisectFinds`: what the search finds is in the list, sorted or not; `BisectMisses`: in a
  sorted one it finds what is there. `LongestExists` and `FindsCovering` for the lists of the PAC file.
  `SumsAtLeast`: weights of one and more sum up to no less than their number, hence `Means`: the mean is
  at least one. `ReachedByEnabled`: a draw of at least one that some sum reaches is reached by the sum of
  an enabled server up to there, so the draws that pick a server lie between the sum before it and its
  own. Of the rules, `ByTheRules` also says that a request went direct if and only if `GoesDirect`, which
  `RulesInOrder` states in its own words (`IsDirectApp`).

Only model-checked: all liveness (`Upgraded` among it), and the fairness part of the refinement
of `ByteStream`. Liveness under fairness and `ENABLED` are outside what the prover does. Every
invariant and every action property a run checks is also a theorem.

## 5. Where the code differs from what is said of it

Three runs end in a counterexample; `PROJECT.json` has each under `findings` with the lines.

* `handshake_cooldown`: `terminate_slowly` reads into a buffer with a capacity and no length, so a
  refused connection is closed at once and not after `unauth_cooldown`.
* `control_send`: after `serve` ended for a port it could not bind, the next change of the port panics.
* `registry_lookup`: a tunnel's lookup writes back a configuration older than a call that changed it.

`NoPanic` has an exception that no statement of the repository contradicts: with more than 100 enabled
servers of which none has a weight, the mean `100 / unweighted_count` is 0, the range of the draw is
empty and `gen_range` panics. The proof of `BalanceNeverPanics` needs the bound, and the run has the case.

Further statements the code does not keep are definitions without a run; adding them to the named
configuration as an `INVARIANT` shows the behaviour.

| Definition | Configuration | Statement | What the code does |
|---|---|---|---|
| `DelayIsMaximum` | `Handshake.cfg` | `crates/crypto/src/config.rs:30`, a maximum delay | accepts up to almost two intervals |
| `OneCallSuffices` | `Handshake.cfg` | `crates/cc-server/src/server.rs:77` | a request that leaves nothing for the second read may meet `WouldBlock` |
| `ZeroDataIsError` | `Tunnel.cfg` | `crates/client/src/protocol.rs:27-28` | a tunnel that the server closes without a byte counts as a success |
| `NoDuplicates` | `LogPage.cfg` | `lib/src/log/log.dart:99` of the UI | lines of a callback end in their line feed, those of the file do not: none is ever recognised as a duplicate |
| `EndIsTheEnd` | `LogPage.cfg` | `_loadMore` of the same file | the last chunk, which is not full, is dropped: the oldest lines are never shown (the `NeverKept` of `NoneMissing`) |
| `EveryDomainIsHonoured` | `SelectServer.cfg` | `crates/client/src/config.rs:24` | the domains of a server whose `init` failed are unsorted, the search misses some |
| `ZeroWeightIsUnused` | `SelectServer.cfg` | `template_client.yaml:15` | `>=` lets the first enabled server have one draw more than its weight |
| `WeightIsUsed` | `SelectServer.cfg` | `template_client.yaml:14` | the draws end at the mean times the number of servers; weights beyond it get none |
| `RemovalRemoves` | `Registry.cfg` | `proxy_service_mock.dart:128-133` | a domain that is direct and assigned loses one of the two |
| `OneServerEach` | `Registry.cfg` | `proxy_service_mock.dart:112-114` | a domain set to a server stays with the others |
| `HostsDiffer` | `Registry.cfg` | `proxy_service_mock.dart:177-178` | a server with a host that is there already is added |

## 6. What is not modelled

* The algorithms of the ciphers and of the key derivation: a sealed part opens only under its key and
  nonce, by assumption.
* `saveConfig` (`proxy_service_impl.dart`): it reads the configuration and hands one text to the
  platform's store, unawaited. Whether two texts may be stored out of order is that store's, which is not
  part of the repository; `get_config` itself reads the parts of the state `Registry` has.
* The address branch of `FindProxyForURL`: it calls `IsInNet`, and the browsers' function is called
  `isInNet`, so what happens for a numeric address is the browser's handling of an error.
* TLS (a library; it looks like the transport `EncryptedStream` assumes), the tables the process of a
  connection is looked up in (input and output only), parsing of the command line and configuration
  files, widgets, generated and vendored code.
* Configurations that make the code divide by zero or draw from an empty range (`max_connect_delay` 0,
  empty `header_padding` or `unauth_cooldown`): `HandshakeAssumption` excludes and names them.
* The address a first tunnel uses: `start_tunnel` selects a server, has its address looked up and then
  connects with the copy made before, whose address is 0.0.0.0:0. This happens on every first tunnel
  of a server that was loaded without an address, whatever the order of events.
* Data races: the code has none to model; shared state is behind locks and one atomic.

## 7. What would come next

Models: `get_config` and the page of servers as one composition with `Registry`, once `saveConfig`
waits for its store.
