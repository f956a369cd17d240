# Verification of stellaris-auth

TLA+ specifications of stellaris-auth, the configurations that model-check them
with TLC, and proofs that TLAPS checks. Paths are relative to the repository.

stellaris-auth runs a child (`terraform`, `tofu`, `terragrunt`) behind a local
forward proxy. CONNECT requests to hosts with a credential are intercepted: the
proxy terminates TLS with a leaf certificate of its own CA, sets the
`Authorization` header on every request and relays the reply. All other CONNECT
requests are tunnelled.

## 1. The system

| part | source | state | operations |
|---|---|---|---|
| leaf cache | `internal/ca/certs.go` | map from hostname to leaf, RWMutex | `GetOrCreate` |
| CA manager | `internal/ca/manager.go` | two files in the CA directory | `EnsureCA`, `GenerateCA`, `LoadCA`, `Exists` |
| trust bundle | `internal/ca/bundle.go` | one file in the same directory | `WriteBundle` |
| MITM handler | `internal/proxy/mitm.go` | two TLS connections, two buffered readers | `Handle` |
| tunnel handler | `internal/proxy/tunnel.go` | two TCP connections | `Handle`, `pipe` |
| proxy server | `internal/proxy/server.go` | two atomic pointers, the `http.Server` | `ListenAndServe`, `Addr`, `Shutdown`, `ServeHTTP` |
| bypass matcher | `internal/proxy/bypass.go` | patterns, fixed at start | `SplitHostList`, `Match` |
| credentials | `internal/credentials/*.go` | map from host to token, fixed at start | `Parse`, `Set`, `Lookup` |
| run flow | `cmd/stellaris-auth/main.go` | local variables, channel of the proxy's error | `runRootCmd`, `waitForProxy`, `prepareChildTrust` |
| setup | `cmd/stellaris-auth/main.go` | none | `runSetupCmd` |
| child runner | `internal/runner/process.go` | the child process and its environment | `New`, `buildChildEnv`, `Start`, `Wait`, `Signal`, `Run` |
| signal forwarding | `internal/runner/signals_unix.go`, `signals_windows.go` | channel of two signals (one on Windows), `done` | `setupSignalForwarding` |
| alias resolution | `internal/runner/resolve.go` | none | `resolveBinary`: a program or a shell alias |
| flags | `cmd/stellaris-auth/main.go` | package variables | `resolveEnvVarFlags` |
| release scripts, GitHub Action | `scripts/`, `action.yml` | none | build and download |

### How the parts interact

`runRootCmd` is a sequence: parse credentials, ensure the CA, write the bundle,
start the proxy in a goroutine, poll until it has an address, find the program (asking
the user's shell for an alias), build the child's environment, run the child, shut
the proxy down, exit with the child's code. What runs beside it:

* the goroutine in `ListenAndServe`, which shares two atomic pointers with main,
* a goroutine per connection, running `ServeHTTP` and then one of the two handlers;
  connections share the leaf cache and nothing else that changes,
* in a tunnel, two goroutines, one per direction, reporting on a channel,
* the goroutine that forwards signals to the child,
* the child itself, the client of the proxy, which reads the bundle when it likes,
* other stellaris-auth processes, which share the CA directory and its three files.

### What is hard, and what makes each part correct

* Leaf cache: callers race through the read-locked fast path. Correct: no map access
  beside a write, one leaf per hostname, every call returns, linearizable.
* CA directory: no lock, files truncated before they are written, processes killed
  anywhere. Correct: a process never signs with a key that is not its CA's; an
  existing CA stays; the directory can always be loaded; a child trusts its own proxy.
* MITM: clients pipeline, upstreams close, cut short or send interim replies. Correct:
  requests forwarded once, in order, with the token only; the k-th reply answers the
  k-th request; nothing follows a closing reply; requests get answered.
* Tunnel: two directions end at different times, peers vanish. Correct: bytes verbatim
  and complete at the end of a direction; the handler returns.
* Server and run flow: start-up and shutdown overlap, signals come at any time, serving
  and waiting may fail. Correct: the child's proxy is there while the child runs, the
  exit status is the child's, requests are drained, signals reach the child in order,
  the program ends after its child and not before.
* Credentials, bypass and routing: four sources with priorities, patterns with and without a
  port, spellings of one host. Correct: the highest priority wins, a bypassed host is never
  intercepted, a token goes to its own host only.
* Child environment: the parent's variables in either case, its own `NO_PROXY`, patterns by
  flag or variable. Correct: the child is led to the proxy and trusts it, loses nothing else,
  and is given the proxy's patterns. That it reads them as the proxy does is not so: a child in
  Go takes a host pattern for the names below that host too (`routing_child` in section 3).
* Alias: the text goes through the shell's quoting, an output full of other things, a parser
  and a splitter; rc files block. Correct: what runs is what the shell would have run, and
  the lookup ends.

`PROJECT.json` lists every hazard at its line, with the properties that watch it, or a
note saying why none does yet.

## 2. The modules

| module | models | composed with |
|---|---|---|
| `LeafCache` | `Cache.GetOrCreate`, one step per operation on the lock and the map | implements `LeafCacheAtomic` |
| `LeafCacheAtomic` | the promise of the cache: one step per call | |
| `CAStore` | runs and setups over one CA directory | implements `CARegister` when orderly |
| `CARegister` | the promise of the directory: one CA in force | |
| `Mitm` | one intercepted connection, client and upstream as actors | |
| `Tunnel` | one tunnelled connection, both copiers, both peers | implements `Relay` in each direction |
| `Relay` | the promise to two ends: bytes in order, the end after them | |
| `Session` | main, server goroutine, connections, child, forwarder, operator; Unix and Windows | |
| `Routing` | `Parse`, `Match`, the start-up warning, `ServeHTTP`'s decision | |
| `ChildEnv` | bypass lists on their way to proxy and child, `buildChildEnv` | extends and implements `Routing` |
| `Alias` | `resolveBinary`, the user's shell, the parsing of what it prints | |
| `MC*` | instances for TLC | extend the modules above |
| `*Proofs` | theorems | extend the modules above and `TLAPS` |

Conventions. A program counter variable (`pc`, `main`, `srv`, `copier`) names the place in
the code a goroutine or process stands at; `Goto` and its relatives move it. An action is
one operation of the code, up to the next point at which another actor can interfere.
Where an operation can fail there is a second action with its error path (`Dial`,
`DialFails`). In every module some operators are named for what they get wrong
(`RecheckMissBlind`, `CopyWriteIgnoresError`, `LoadFirstWins`). They are not part of `Next`:
each is a plausible slip in the operator below it, and serves to confirm that a
property notices when that slip replaces the real one. `PROJECT.json` pairs them.

### LeafCache

`readers` and `writer` are the RWMutex: `Lock` keeps new readers out, `Drain` waits for
those inside, as `sync.RWMutex` documents. `certs` is `Cache.certs`; `made`, which the code
does not have, records every leaf generated. A caller is one call and names the leaf it makes.
`Generate` is `GenerateLeafCert`; its five error returns are one `GenerateFails`.

### CAStore

`cert`, `key` and `bundle` are the contents of the files, named by the process that wrote
them, or `Absent`, or `Torn` between the truncation and the write inside `os.WriteFile`.
`held` is the `*CA` in memory, `trust` is what the child loaded. `regime`, chosen at the start
from `Regimes`, says how the directory is used: `orderly`, one process at a time; `overlapping`;
or `faulty`, where processes overlap and may stop (kill, full disk, unreadable file) at each
step. The directory is empty at first or holds the CA `Old` of an earlier process. In the orderly
regime the two files are one register: `CARegister` has a CA in force (`ca`), which a process
makes when there is none or when it is forced to, and which every other takes (`got`). The
mapping reads a CA that is being written as in force from the truncation of its certificate,
which nobody sees half-way.

Two abstractions matter. Of two writers that have both truncated a file the last one's contents
stand, because CA certificates have the same length up to a few bytes and come first in the bundle. `Exists` asks about both files in one step; files are never
removed and the certificate is created first, so its answer was true of the disk at one
of its two calls of `Stat`.

### Mitm

`sent`, `fwd`, `replies` and `out` are everything ever written in the four directions;
`got` and `read` say how far the handler has read. Bodies travel with their heads; a reply
whose body ends early has kind `cut`, one that `http.ReadResponse` refuses `malformed`; any request
may turn out not to be one, in its head or its body, and then counts as not read. A peer that leaves
may take with it what the handler has not yet read (a reset). A request is its `Authorization` values and whether it
asks to close. The upstream answers in order, and may send an interim reply first, which
`OnlyFinal` tells.

### Tunnel

Chunks are numbered in the order sent. `taken` is how far the proxy has read, `rcvd` what
was delivered, `eof` the directions half-closed, `fin` the peers that send no more, `gone` those
that vanished. `Hijack` takes what the HTTP server had read ahead, from nothing to everything,
since a read may return any part of it. `Handle` drops the buffer it is in.

`Relay` is what one direction promises: what arrives is a prefix of what was sent, and the end
of the stream comes after all of it unless the relay is broken. `Tunnel` has it
twice, `Up` and `Down`; `Relays` is the safety half, `Delivers` the liveness half.

### Session

`main` walks through `runRootCmd` from the `go` statement at main.go:226; `srv` through
`ListenAndServe`; `conn` holds connections from the accept queue (`backlog`) to a running
handler that `http.Server` still counts (`pending`) and one it has handed over (`hijacked`).
`taken` records the signals the channel took, for the properties. Exit codes of a child are a
constant set plus -1, which `ExitCode` returns for a child a signal killed; `os.Exit` keeps
eight bits. `Shutdown` does what `http.Server` does with its listener: it closes it when `Serve`
has registered it, and otherwise leaves it to `Serve`, which then closes it at once.
A signal ends the program when nothing is registered for it: `Signal` sends the two the program
registers for, in any phase, and `HangUp` is everything it never registers for (`SIGHUP` of a
terminal that closes, `SIGQUIT`, `SIGKILL`, a program that is ended on Windows).

`platform` is `unix` or `windows`. On Windows the channel holds one signal, only the interrupt is
sent, and the forwarder kills the child upon it and ends (`KillChild`); the child's code is then 1.
The code drops the result of `Kill`. The model takes `Kill` to end a child that runs: `os.StartProcess`
keeps the handle that `CreateProcess` returns, which has the right to terminate, so what is left to fail is a
`Kill` of a child that has already ended, and that changes nothing. The slip `KillFails` shows what
follows otherwise: the second interrupt orphans the child.

### Routing

A host is a sequence of labels in lower case, a trailing dot or none, and a port. An entry of
a source may be spelled with capitals, because the environment's duplicates are told apart
by the name as spelled and the others' by the name in lower case. `Readings` is what a list
of entries may come to: where two spellings of one host stand, Go's map order picks one. `Match`
is the code's suffix comparison on labels; `Covers` is the reference definition, written
from README.md:370, and `BypassHonoured` compares the two through `ServeHTTP`. Pattern forms are
those of the README: a name, `.name`, either with a port, and `*`.

### ChildEnv

`ChildEnv` adds to `Routing` what the operator said (`flag`, `envvar`), the program's own
environment (`parent`) and the child's (`child`). `Prepare` is `Routing`'s `Trust` with the patterns
that `SplitHostList` makes of the lists; `StartChild` is `buildChildEnv`. A variable is its key and
whether it is spelled in upper case; its value is who set it and, for `NO_PROXY`, the patterns it
lists. Lists are sets, since order and repetition mean nothing to who reads them. `NoProxyOf`,
`GoCovers` and `SkipsProxy` are external: they are how a Go child reads `NO_PROXY`. A Go child
never takes a proxy for localhost; no target here is localhost.

### Alias

Text is a sequence of symbols, as fine as the code tells them apart: a blank, the two quotes, a
backslash, letters (`Letters`, what may stand in a name), other signs (`Signs`), and one symbol each for bash's `alias `, for the name with its `=`, and for an
escape sequence. `world`, chosen once, is the user's machine: whether the name is on `PATH`, what
the alias means (words of pieces, each quoted or not), how far its words stand apart, how the shell
prints, what else is printed, and whether rc files end, block in the shell, or block in a program
that holds its stdout. `Meant` is what the shell would run; `RunsTheAlias` compares it with
what comes out of the shell's quoting, `ParseAliasDefinition` and `SplitArgs`. `PlainAliases` names
the aliases and the shell output that the code handles: no single quote, backslash or escape sequence in the alias,
and no other line of output that defines the name. It is the hypothesis of the theorems, and `MCPlainAlias` has TLC check
that the instance of the passing run meets it.

## 3. The runs

Passing runs, with the states TLC finds:

| run | instance | states | question |
|---|---|---|---|
| `leaf_cache` | 4 callers, 2 hosts | 52 509 | mutual exclusion, one leaf, every call returns, linearizable |
| `castore` | 2 runs, 2 setups (1 forced); orderly and faulty | 536 996 | what holds of a directory, empty or not, in the worst case; all that is promised in sequence |
| `mitm` | 3 requests | 29 699 | the loop: order, answers, closing, progress |
| `tunnel` | 3 chunks each way | 9 184 | both directions implement `Relay`; the handler ends |
| `session` | 1 connection, 3 signals, a hangup, both platforms | 292 714 | safety from start to exit, what may orphan the child, termination, delivery of signals |
| `routing` | `ChildEnv`: 4 sources, 2 hosts, 7 targets, 4 patterns, 5 variables of the parent | 629 452 | which token survives the merge, where requests and tokens go, what is warned of, what the child is told |
| `alias` | 2 words of 2 pieces, 4 kinds of pieces | 161 640 | what is run, when the lookup gives up, that it ends |

Why these bounds are enough to be interesting. Four callers on two hosts have two
racing for each leaf, or three for one with a fourth on another. Two runs and two setups
have every pair of commands overlap, a forced one among them. A third request lets one be
pipelined behind a reply that is still on its way, and a closing one come first, second or
last. A third chunk leaves one in flight, one in the copier's hands and one delivered. Three
signals are one more than the Unix channel holds. Connections of `Session` do not touch each
other: `http.Server` counts them, and one is enough for the count to be zero or not; the
theorem is for any number. In `Routing` each source names a host or two, the
environment possibly one host under two spellings; the registry has a credential for all its
ports and one for 8443, and is asked for under 443, 8443 and no port, with and without a
trailing dot; one pattern is everything, one the names below a domain, one that domain itself,
one a host's port 443. Credentials, patterns and variables together are at most `MaxSaid` = 4,
except that credentials alone may be as many as the sources hold: four is enough for a credential,
a pattern, and a `NO_PROXY` of the parent with an item of its own, or for two patterns by flag and
one by variable. Tokens are symmetric. In `Alias`
two words with two pieces have quotes begin, end, and meet in the middle of a word; longer
aliases repeat the same transitions of the splitter. The chatter is nothing, a space and an escape
sequence in front of the answer, or a line that defines a name which ends in ours.

Runs that end in a violation, each of one sentence of the documentation or a comment:

| run | property | what happens |
|---|---|---|
| `castore_two_first_runs` | `UsableWhenQuiet` | two first runs leave one's certificate with the other's key; every later run is refused (manager.go:140) |
| `mitm_interim` | `EveryRequestAnswered` | an interim reply is taken for the reply; the final one is never relayed (mitm.go:127) |
| `session_hijacked` | `AllConnectionsDrained` | `Shutdown` neither closes nor awaits hijacked connections, which tunnels and intercepted ones are (server.go:135) |
| `routing_child` | `SkipsOnlyBypassed` | the pattern `corp.io`, exact to the proxy, makes a child in Go skip the proxy for `r.corp.io`, whose token is then not injected (process.go:194) |
| `alias_quoted` | `RunsTheAlias` | an alias with single quotes is printed with them escaped; backslashes end up in the arguments (resolve.go:120) |

`PROJECT.json` quotes the sentence that each contradicts.

### What the passing runs leave out

The passing runs, and the theorems that say so, exclude some behaviour, nearly always by a
constant, and show that nothing else breaks the property. Setting the constant brings the behaviour back:

* The overlapping regime, for `UsableWhenQuiet` and `ChildTrustsProxy`: two first runs, see above.
  `UsableWhenOrderly`, which is `UsableWhenQuiet` for processes in order, is proved
  (`OrderlyLeavesUsable`) and no run checks it: where it failed, so would `RunGetsCA` for the next run.
  A second run also rewrites the bundle with the roots of its own parent, while the child of the
  first may be loading it (bundle.go:94, against README.md:68). And a run or plain setup may
  replace a CA that has come into being while it generated its own: `GenerateCA` asks `Exists`
  before it spends seconds on a key (manager.go:101, 140).
* The faulty regime, for the same: a process killed, or out of disk, after the key file is
  truncated leaves a CA that exists and cannot be loaded (manager.go:143). What survives
  overlap and faults is `HoldsOnePair` and `SteadyCA`, which are not restricted.
* Not a constant but a condition in the properties of `mitm`: `OnlyFinal`, the upstream has sent no
  interim reply so far. Interim replies do occur in that run; see `mitm_interim`.
* `EarlyData` in `tunnel`. With it `Relays` fails: of what a client sends before it has the reply
  to CONNECT, the part the HTTP server has read by then is lost with the reader that `Handle`
  drops (tunnel.go:40, against README.md:67). What such a client can rely on is proved: the rest arrives without a gap, and the other direction is relayed (`ArrivesWithoutGap`,
  `DownstreamRelayed`).
* Nothing in `session`: signals come in every phase. But `OrphansExplained` has two exceptions in its
  formula, and both happen in the run. One is `HangUp`, a signal the program never registers for. The
  other is the window between `Start` and `signal.Notify` (process.go:129, against README.md:624): a
  SIGINT or SIGTERM there ends the program and leaves the child running. TLC finds either as soon as
  its disjunct is dropped; that no other way is left is what the property and its theorem say.
* No constant: `ShutdownFindsNone`. When the child ends, or fails to start, before
  the server goroutine has stored its `http.Server`, `Shutdown` returns at once and the port stays
  open until the program exits. No property here forbids it.
* `Pieces` in `alias`, `PlainAliases` in its theorems: no single-quoted piece; see `alias_quoted`.
* A condition in `LookupEnds`: no program started by an rc file holds the shell's stdout, for
  resolve.go:92 waits for it beyond the three seconds that resolve.go:79 promises. It does happen in
  the run, and without the condition TLC finds the lookup waiting for ever.
* A condition in `WarnedUnlessByPort` in `routing`: a bypassed host with a credential is warned of when
  a pattern without a port covers it. A `host:port` pattern matches no host that the store spells
  without a port, so that nothing warns of it (main.go:339, against README.md:370).
* Nothing else in `routing`: `PatternsReachBothSides` says that proxy and child are given the same patterns and
  that the child skips what the proxy bypasses. The converse is `SkipsOnlyBypassed`, which fails
  (`routing_child`), and no further than the theorem `OnlyBelowExactHosts` says: for names below a host
  given without a dot. What the parent's own `NO_PROXY` names is excepted from it, as README.md:366
  has the child keep it; tokens for such a host are withheld without a warning.

## 4. Fairness

Only what the Go scheduler, timers and TCP give is assumed.

* `LeafCache`: weak fairness of each caller's steps. A blocked `Lock` excludes new readers and
  then acts when the last one leaves; that is modelled, so strong fairness is not needed.
  No caller is obliged to call.
* `CAStore`: a process that has started goes on through `GenerateCA` and `LoadCA`. Nothing says
  that one starts, reaches its child, or that the child ends.
* `Routing`, `ChildEnv`: none; their properties are safety properties.
* `Mitm`: the handler runs when it can (`WF(Handle)`), and an upstream that stays connected
  answers (`WF(UpstreamAnswers)`). Without the second a reply is no one's duty. Clients are free.
* `Tunnel`: the handler and both copiers run when they can, and a peer that has read the end
  of its incoming direction ends its own. This last is what the half-close of tunnel.go:66-69
  is for. It is not assumed of peers that were not told. `Relay`'s own fairness, which `Delivers`
  shows, obliges a relay that is not broken to deliver what was sent and then its end.
* `Alias`: the three-second context fires, and a read whose pipe is closed returns. Shells and
  programs owe nothing.
* `Session`: main, the server goroutine and the forwarder (`Forward` or `KillChild`) run while the program lives. The
  two time-outs, of start-up and of the drain, are steps of main and so happen. Nothing is
  assumed of the child, of clients or of how long a handler takes. `Terminates` therefore
  starts at the exit of the child, and does not rely on a handler that returns.
  `SignalsReachChild` promises nothing of signals the channel had no room for.

## 5. The proofs

Every theorem holds for all values of the constants that satisfy the named assumption of
its module. Each follows one scheme: an inductive invariant, one lemma per group of actions
that it is preserved, and the property from it.

* `LeafCacheProofs`. `IInv` is the type invariant with `LockInv` (who is past `Lock` is the
  writer, who is past `Drain` is alone), `CallInv`, `MissInv` (the miss seen under the lock
  still holds when the leaf is stored) and `MadeInv` (a generated leaf is in the map or in its
  maker's hands). `OneLeafPerHost` is not inductive: it needs `MissInv` to know that nobody
  stored a leaf meanwhile, and that needs the lock. `Linearizable` proves that each step is a
  step of `LeafCacheAtomic` or leaves it as it is, with the identity as refinement mapping on
  `host`, `certs` and `ret`. `LeafIsKept` and `SameLeafForAll` say what that means for connections over
  time: a leaf in the map stays, and everybody who gets a leaf for a hostname gets that one.
* `CAStoreProofs`. `BaseInv` holds in every regime and gives `AlwaysOnePair` and `KeyNeverAlone`.
  `CASteady` shows that `Settled` (a whole CA, nobody on the way to writing another, and every
  `LoadCA` half-way through holding its certificate) is closed until a setup is forced. The four
  orderly theorems rest on `SeqInv`, which the orderly regime implies: at most one process is
  active, what it saw is still so, the files are a whole CA whenever nobody writes, and the
  bundle is the running process's. `OrderlyRegister` is the refinement of `CARegister`; it needs
  `SeqInv` to know that the one writer is the one the mapping chooses. `OrderlyRunsNotRefused`
  is the safety half of `RunGetsCA`. What is proved of runs out of order is `CASteady`,
  `AlwaysOnePair`, `KeyNeverAlone` and `WriterRepairs`: torn or mismatched, the CA on the disk is
  replaced by a whole one when a forced setup gets to write it with no other writer about, whatever
  else is going on.
* `MitmProofs`. `BaseInv` (types, and where the handler stands in relation to the requests)
  gives `TokenOnEveryRequest`. The other three rest on `RepliesInv` (what the upstream wrote),
  `LockstepInv` (the handler is at most one reply behind) and `RelayedInv` (what was relayed is
  what the upstream wrote, and nothing malformed is). `NothingAfterClose` and `RepliesPassedOn` hold for any upstream; `FinalReplies` takes the
  other two to the requests, as long as no interim reply was sent.
* `TunnelProofs`. `PhaseInv` and `CopyInv(d, k)` (k chunks were lost before the copier started, and of
  the others it has written what it has read but for the chunk in its hands). For the upstream's
  direction `k` is 0, for the client's it is some number that `Hijack` determines, 0 for a client that
  waits for the reply (`PatientInv`). `ImplementsRelay` shows that each step is, in each
  direction, a step of `Relay` or invisible to it; it is the one theorem that assumes such a client
  (`~EarlyData`). Of any client, `ArrivesWithoutGap` says that nothing but the first chunks is lost, and
  `DownstreamRelayed` that the other direction is a `Relay` all the same.
* `SessionProofs`. `PhaseInv` ties main, child and forwarder, `PortInv` main, server and port,
  `CodeInv` the code main holds to the child's, `DrainInv` says that what is drained stays so
  because nothing is accepted once the listener is closed, `QueueInv` that sent and queued
  signals make up those taken. `PhaseInv` also says that a forwarder ends only after the child, on
  both platforms. `NoFalseSuccess` is an invariant of its own beside these: status 0 is the
  status of a child that exited with 0, and of nothing that went wrong. `OrphansOnlyInTheGap` needs
  both: that the forwarder has not ended while the child runs, and that `killed` means a signal no
  forwarder was there for.
* `RoutingProofs`. `MatchIsCovers` proves the code's matcher equal to the reference definition
  for names of any length. `StoreInv` holds after each source what `HighestPriorityWins` says of
  the end, with `UnreadInv` for the sources still to come; `RouteInv` is the routing properties.
  `BypassWarned` needs that `warned` is what the final patterns match in the final store, and that a
  pattern for all ports matches every spelling of the name it matches (`PortlessMatch`).
* `ChildEnvProofs`. `ImplementsRouting` shows that a step of `ChildEnv` is a step of `Routing` or
  invisible to it, so `RoutingProofs` carries over. `CInv` is `InputsInv` (types
  of what operator and parent said) and `PatternsInv` (from `Prepare` on the proxy's patterns are
  the operator's, and the child has what `buildChildEnv` made of them). `PatternsPassedOn` then needs `MatchIsCovers` on the
  proxy's side and that both spellings of `NO_PROXY` are set alike on the child's. `OnlyBelowExactHosts`
  bounds what `routing_child` shows.
* `AliasProofs`. `AliasTextSurvives` is about the functions: whatever words an alias is made of, however
  many, and however they are spaced, quoted, printed and surrounded, the parser and `SplitArgs` return
  them. It goes piece by piece, word by word: `PieceRead` says what the loop of `splitArgs` does with one
  piece, `WordRead` with a word, `SpacedRead` with an alias; `AnswerLine` and `OutputParsed` take the alias out of the
  shell's output. Each is an induction on a sequence. The library's induction theorems take an operator
  as a parameter, which the provers cannot instantiate; here the *set* of the sequences for which the
  statement holds contains `<<>>` and is closed under `Append`, so by `SeqInduction` it is all of them,
  and that follows by `SetInduction` from a fact without such a parameter, that `<` is well-founded on the
  naturals. `LookupInv` is the inductive invariant of the lookup: where it stands, what the
  shell has done and written, and why it ended. `TypeCorrect` needs no `PlainAliases`: whatever
  a shell prints, nothing is started that was not looked up.

Of several liveness properties the safety half is proved: that nobody is ever stuck, with the guards
of the actions written out in the place of `ENABLED` and a lemma or the definition to say that
they are the guards, and that what moves gets nearer to its end.

* `EveryCallReturns`: `NoDeadlock` (while a call is under way, somebody can take a step; it needs
  `HolderInv`, that the lock is held only by callers between `Lock` and `Unlock`) and `CallsGoForward`.
* `AnsweredUnlessInterim`: `WaitsForAnAnswerDue` (the handler never waits for a reply that has been
  given or a request that has been sent).
* `Terminates` of `Tunnel`: `WaitsForToldPeers` (the two copiers never wait for each other; a peer
  that is waited for has been told of the end).
* `Terminates` of `Session`: `MainIsNotHeldUp` (main waits for a running child and for nothing else).
* `SignalsReachChild`: `NoSignalStranded` (a signal yet to be delivered is in a channel that is still
  read) and `EachReceiptDelivers`.
* `RunGetsCA`: `OrderlyRunsNotRefused`.

Fairness then does the rest, and that step is TLC's. Only model-checked: the liveness properties (`EveryCallReturns`, the liveness half of
`ImplementsAtomic`, `AnsweredUnlessInterim`, `Delivers`, both `Terminates`, `SignalsReachChild`,
`RunGetsCA`, `LookupEnds`), since they rest on fairness and `ENABLED`, which the prover does not
treat; and the runs that end in a violation, since a
counterexample needs no proof.

## 6. Not modelled

* Contents of certificates, keys, serial numbers and their lifetimes. No code looks at a
  lifetime: a leaf outlived by a run of more than 24 hours and an expired CA are hazards that
  `PROJECT.json` lists with a note.
* HCL, the paths of the configuration files and the decoding of `TF_TOKEN_*` names: functions on
  characters, whose results `Routing` takes as data.
* The quoting of the name in the shell command that asks for an alias.
* The terminal's own delivery of Ctrl-C to the child's process group, beside what is forwarded.
* Idle and header time-outs of `http.Server`, which concern connections before their request.
* The flags other than `--bypass-host` with their fallbacks, logging, trust instructions, release
  scripts and the GitHub Action: no state that anything else reads.

## 7. Plan

Done, in this order of importance: `LeafCache`, `CAStore` with `CARegister`, `Mitm`, `Tunnel` with
`Relay`, `Session` on both platforms, `Routing`, `ChildEnv`, `Alias`, each with its proofs.

Next, to extend the model:

1. `Proxy`: `Routing`'s decision composed with the two handlers and the leaf cache for several
   connections, so that a request is followed from CONNECT to reply.
2. A clock for `CAStore` and `LeafCache`: validity of CA and leaves, long runs.
3. A terminal that signals the child by itself, as a variant of `Session`'s `Signal`.

Next, to prove more:

1. `Mitm`'s two directions as refinements of `Relay`, with heads and bodies for chunks;
   `TokenOnEveryRequest` and `RepliesPassedOn` are the state half of it.
2. A progress measure for `Tunnel` like the one of `CallsGoForward`, over chunks sent and read.
