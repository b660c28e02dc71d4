# Verification of apisix-go-plugin-runner

TLA+ models of the Go plugin runner of Apache APISIX, the TLC runs that check
them on small instances, and TLAPS proofs of every safety property those runs find
to hold, for every instance. `PROJECT.json` lists components, runs, mutants, findings, hazards and
theorems, and maps every modelling definition to the Go lines it stands for.

    cd tla
    tlc -workers 2 -config MCConfCache.cfg MCConfCache     # any run of PROJECT.json
    tlapm ConfCacheProofs.tla                              # any ...Proofs module

## 1. The system

APISIX starts the runner (or an operator does) and connects to it over a unix
socket. On a connection APISIX has one RPC under way at a time:

* **PrepareConf** carries the plugin configuration of a route and an idempotency
  key. The runner parses it, stores the result and answers with a *token*.
* **HTTPReqCall** and **HTTPRespCall** carry a token and an HTTP request or
  response. The runner runs the plugins of the configuration the token stands
  for and answers what they changed.
* **ExtraInfo** goes the other way, nested inside a call: while a plugin filters,
  the runner asks APISIX for a variable or a body on the same connection.

APISIX keeps a token for `conf expire time` and drops it when the runner answers
`CONF_TOKEN_NOT_FOUND`; it then prepares the configuration again and retries.

### Inventory

| Component | State it keeps | Operations | Interacts with |
|---|---|---|---|
| Configuration cache (`internal/plugin/conf.go`) | two ttl caches (token to configuration, key to token), a `uint32` token counter, a mutex | `PrepareConf`/`ConfCache.Set` (locked), `GetRuleConf`/`ConfCache.Get` (not locked), expiry | called by every connection goroutine; calls `ParseConf` of plugins |
| Token life (`getConfCacheTTL`, `ReportError`) | the runner's TTL; APISIX's token cache (external) | derive the TTL, report a dead token, restart | the cache and APISIX |
| Connection loop (`server.go`, `msg.go`, `error.go`) | header, call and reply builder of the goroutine; the byte stream | read frame, dispatch, report error, check size, write, close, recover a panic | all handlers, the builder pool |
| Builder pool (`util/pool.go`) | a `sync.Pool` of flatbuffers builders | get, put | all connections |
| Extra info (`askExtraInfo` in `request.go`, `response.go`) | the question and the buffered answer, `vars`, `body` | `Var`, `Body`, `ReadBody` | the connection in the middle of a call |
| Request phase (`plugin.go`, `request.go`, `req-response.go`) | pooled `Request` and `ReqResponse` objects, a context with a deadline | create, filter, what a plugin may do, build the reply, reset and reuse | plugins, both pools |
| Response phase (`plugin.go`, `response.go`) | pooled `Response` | the same for responses | plugins |
| Header bookkeeping (`header.go`) | raw headers, current headers, deleted names | `Set`, `Del`, `Get`, `View`, `HeaderBuild` | `Request`, `Response` |
| Plugin registry (`plugin.go`, `pkg/plugin`) | name to plugin | `RegisterPlugin`, `findPlugin` | the cache and both phases |
| Process life cycle (`server.go` `Run`) | socket path, listener, `done`, signal channel | clean, listen, chmod, accept loop, signal, deferred clean-up | the file system, APISIX, another runner |
| Sample plugins (`cmd/go-runner/plugins`) | limit-req: a limiter in its parsed configuration | their request and response filters | both phases, the cache |
| Test recorder (`pkg/httptest`) | what a plugin wrote | the operations of `pkg/http.Response` | tests of plugins |
| Command line (`main.go`) | run mode, profile and log files | `run`, the deferred profile | the process |
| Logging, version, error values | - | - | - |

### What is hard, and what makes each part correct

* *Configuration cache.* `Get` runs between any two statements of `Set`; entries
  expire at any moment and independently; a plugin may panic while the mutex is
  held. Correct when a token always stands for the request it was issued for, a
  cached key keeps its token, and no call blocks for ever.
* *Token life.* Two caches in two processes with lives that differ by a factor.
  Correct when a token APISIX still holds resolves, and leads to the configuration
  of the route it is held for.
* *Connection loop.* Panics, hang-ups and nested questions at every step, builders
  shared by all connections. Correct when every reply belongs to the call of its
  connection, and every call is answered or its connection closed.
* *Request phase.* Pooled objects that belong to another client a moment later.
  Correct when the reply is what the plugins of this call asked for.
* *Response phase and headers.* The same pool hazard; the chain ends at the first
  change, and what a change is depends on what was only looked at; three tables of
  header state that several operations change in parts. Correct when APISIX ends up
  with the response the plugins left, and the test recorder agrees.
* *Registry.* Read without the lock it is written under. Correct when it no longer
  changes once connections are served.
* *Process.* Kill, signal and a second process on one path. Correct when a new
  runner comes up whatever the last one left, and an old one leaves quietly.

The list `hazards` in `PROJECT.json` names each of these at its line.

## 2. Modules

| Module | Models | Notes |
|---|---|---|
| `ConfCache` | `conf.go` | one action per statement of `Set`; `Get` one action; `Tick` ages both caches |
| `ConfStore` | - | the abstract store: `PrepareConf` in one step, no lock, counter or clock |
| `ConfCacheRefinement` | - | the mapping from `ConfCache` to `ConfStore` |
| `TokenUse` | `ConfCache` composed with APISIX's token cache, `getConfCacheTTL`, restart | EXTENDS `ConfCache`, its actions are conjoined with those of APISIX |
| `HandleConn` | `handleConn`, `dispatchRPC`, `ReportError`, `msg.go`, `pool.go`, `askExtraInfo` | several connections and one builder pool |
| `HTTPReqCall` | `HTTPReqCall`, `requestPhase`, `Request`, `ReqResponse` | several connections, both pools, a plugin is any sequence of operations |
| `Header` | `header.go` | pure operators on the header record; APISIX's side (`Apply`) is external |
| `HTTPRespCall` | `HTTPRespCall`, `responsePhase`, `Response`, response-rewrite, the test recorder | EXTENDS `Header`; several connections, one pool |
| `RunnerProcess` | `RegisterPlugin`, the run command, `Run` | several processes on one socket path |
| `MC...` | - | finite values of the constants |
| `...Proofs` | - | invariants, lemmas and theorems about the module they are named after; see section 4 |

### State and actions against the code

**ConfCache.** A goroutine's `pc` is the statement of `Set` it executes next:
`lock` (70), `lookup` (73-85), `parse` (87-114), `count` (116), `take` (117),
`storeToken` (118), `storeKey` (123). `Panic` is a panic in `ParseConf` or in the
flatbuffers accessors: the deferred `Unlock` runs, `handleConn` recovers. A cache
entry is its value and the ticks it has left; an entry with none left is absent.
The ttl cache is external: `SkipTTLExtensionOnHit(false)` gives `Touch`, expiry
`Age`. Its `Set` and `Get` have errors other than `ErrNotFound` only for a closed
cache, which the runner never closes. A configuration is the sequence of the
entries that survive parsing, a value is what `ParseConf` makes of it ("good",
"bad" or "panic"). `issued` is history: for whom a token was stored.

**TokenUse.** `held` is APISIX's token cache. An HTTP request uses the token held
or asks for one (`Ask`, `Serve`, `Receive`), sends the `HTTPReqCall` and ends, or
retries after `NotFound`. It may end early (`Drop`). Time (`Pass`) goes by between any
two of these steps, so that an entry may expire between a key hit and the HTTPReqCall
that follows; `lag` is how long a request has taken. `Restart` is a new runner process
that APISIX does not notice. APISIX's side is external, modelled from the
RPCs and error codes the runner implements and from `getting-started.md`.
`late` and `used` in `held` are history: how long the request that got the token had
taken by then, and whether an HTTPReqCall has found it since. `limiter` is history: the token a route was last served with stands for the limiter
that limit-req made when the token's configuration was parsed.

**HandleConn.** A frame is its type, what becomes of its bytes (served, panic,
dead token) and for a builder's message its size. `in` and `out` are the two
directions of the stream. A header and the body after it are one step each way,
because nothing else writes to the connection; a hang-up between the two is the
truncated frame of `HangUp`. `LenSpace` stands for 2^24 and `MaxDataSize` is
derived from it as in the code. A builder that is not put back (`Request.Body`, a
panic, a failed write) is garbage, and its identity may return as a fresh one.

**HTTPReqCall.** A `Request` is the record of its fields, each `Nil` or a value
that knows which call it is from, so that a stale field is visible. `Reset` keeps
`r`, `rawArgs` and `cancel`, as the code does. The conditional decoding of headers
and arguments, the caches of `Var` and `Body`, first-status-wins in `WriteHeader`
and the order of the deferred calls are kept; headers and arguments are "as sent"
or "changed" (the module `Header` has the detail). The request filters of say,
fault-injection, request-body-rewrite and limit-req are actions beside the single
operations of `pkg/http.Request`. `intent` is history: what the plugins asked for. The 56 s context
timeout is `Deadline`.

**Header.** A header record is `hdr` (what plugins set), `rawHdr` (what APISIX sent)
and `deleteField`, as in the code. `hdr` and `rawHdr` go by canonical name,
`deleteField` by the key as it was spelled; a key is a name and a spelling.
`HeaderBuild` yields two groups, the deletions and then the sets, each in the order
of a Go map, and so a set.

**HTTPRespCall.** As `HTTPReqCall`: a `Response` is the record of its fields, and
`Reset` keeps `r`. `Header()` creates the header record on first use, which is what
`HasChange` sees. Every operation a plugin does on the `Response` is also done on a
`ResponseRecorder` (`rec`) that starts out with what APISIX knows of this response:
it is the reference for what plugins are told and for what they wanted. `wrote` is
history: whether a plugin wrote and whether another one ran after it.

**RunnerProcess.** `main` is the next statement of the process: the `init`
functions that register plugins (a duplicate or empty name ends the process), the
run command in mode dev, prod or prof (each may fail to open its files), then `Run`.
`loop` is the accept goroutine; `Accept` may also fail while the listener is open, which
the loop logs and survives. A `RemoveAll` that fails ends the process before `Listen`, and
is only logged afterwards; `Listen` and `Chmod` fail for what is at the path and for no
other reason. `path` is what the socket path names. `l.Close` unlinks by path, and so
do both `os.RemoveAll`. `met` is history: who ran beside another process.

## 3. Runs

| Run | Checks | Result |
|---|---|---|
| `conf_cache` | `TypeOK`, `TokenBinding`, `AnswerIsOwn`, `KeyStable`, `ImplementsConfStore`, `PrepareReturns` | holds |
| `token_use` | `TokenSelectsOwnConf`, `FoundTokenLasts`, `KeyOutlivesToken`, `LimiterKept` | holds |
| `token_expiry` | `ConfOutlivesToken` | violated |
| `token_restart` | `ServedConfIsOwn` across a restart | violated |
| `handle_conn` | `TypeOK`, `BuilderExclusive`, `ReplyIsForCall`, `AnswerIsAnswer`, `CallAnswered`, `HandlerEnds` | holds |
| `reply_length` | `LengthDeclared` | violated |
| `runner_process` | `TypeOK`, `NeverFatal`, `NoAcceptError`, `RegistryFrozen`, `BacklogDrains`, `QuitEnds` | holds |
| `socket_cleanup` | `CleansOwnFile` | violated |
| `http_req_call` | `TypeOK`, `InfoIsOwn`, `ContextScoped`, `ReplyIsIntent`, `ChainStops` | holds |
| `http_req_body` | `BodyIsIntent` | violated |
| `http_resp_call` | `TypeOK`, `RespIsIntent`, `SetArrives`, `RespInfoIsOwn`, `RespChainStops` | holds |
| `resp_chain` | `ChainCutByWrite` | violated |

### What they show

* `conf_cache`. No interleaving of two `Set`s, `Get`s, panics and expiry mixes up
  tokens and keys; to its callers the cache is the atomic `ConfStore`. A call that
  issues a token takes effect at `storeToken`, one statement before its key is
  stored.
* `token_use`. Whatever expires during and between calls, a token of the running process
  leads to its own route's configuration. An HTTPReqCall that finds its token extends the
  entry by the runner's life, which exceeds APISIX's: from then on the token is found as
  long as APISIX holds it. The key lives longer still, as long as a request takes no more
  than a fifth of the expiry time. A route keeps its limiter while two of its requests are
  no further apart than a runner entry outlives a token, less the time the requests took;
  one tick more and the key may have expired, so that the route is parsed again and
  starts with a full limiter: limit-req's "unique per route" is true of a route in
  steady use only.
* `token_expiry`. The comment in `getConfCacheTTL` wants the runner's entry to outlive
  APISIX's token. It does once the token has been found, but not before: a key hit extends
  the key entry and not the token entry (`conf.go:76-78`). So, whether or not
  the first request used its token: when APISIX's token has expired, one tick before the
  runner's entry does, the route is prepared again and gets the same token, and the entry
  expires before the HTTPReqCall arrives. (In TLC's shortest trace the first request ends
  without an HTTPReqCall.) Since the key outlives the token (`KeyOutlivesToken`), another PrepareConf, such as that of a
  retry, is answered with the same dead token and extends the key again, as long as one
  comes within the TTL; `getting-started.md:286` says APISIX will retry.
* `token_restart`. Tokens start at 1 again after a restart, so that a token APISIX
  kept may have been issued to another route: the retry that `getting-started.md`
  counts on does not happen, the request runs the other route's plugins.
* `handle_conn`. Builders are never shared, replies and questions belong to the
  call under way, and the answer read is the answer to the question asked, though
  nothing in the frame says so: it follows from one call per connection and from
  a wait that only ends with an answer or with the connection.
  Every call is answered or its connection closed, and the goroutine of a dead
  connection ends.
* `reply_length`. `2<<24 - 1` is twice what three bytes hold.
* `runner_process`. `close(done)` before `l.Close()` is what keeps the accept
  loop from spinning on a closed listener, and going on after an error is what keeps a
  passing shortage of file descriptors from ending the service; cleaning the path first is what lets a
  runner start after one that was killed. Since `init` functions run before `main`,
  the registry is complete before the accept goroutine exists, which is what makes
  the unlocked read in `findPlugin` safe.
* `socket_cleanup`. The exit of the old runner removes the new runner's socket.
* `http_req_call`. Nothing of one call shows in another although
  objects are reused and `Reset` keeps three fields; the reply has exactly the
  effect of the plugins' operations; the chain stops at the first response.
* `http_req_body`. `SetBody` with an empty body followed by `Body()` loses the
  rewrite, since `Body` takes an empty body for none.
* `http_resp_call`. Nothing of one response shows in another; the reply carries the
  first status and the body written; a plugin sees the same through a `Response` as
  through the recorder; a header set last arrives whatever was deleted before,
  because deletions are sent before sets and deletions under another spelling are
  not undone but overwritten.
  `SetArrives` leaves one thing open: Del, Set, Del of one key sends nothing, since the
  first Del forgets the raw value (`header.go:65`) and the Set forgets the deletion
  (`header.go:59`). The header then keeps APISIX's value, contrary to the comment of `Del`
  in `pkg/http/http.go:138`, but never the one set in between.
* `resp_chain`. `Header().Get` in one plugin ends the chain for the ones after it.

### Bounds

The safety properties that hold are also proved without these bounds (section 4); the
bounds matter for liveness, for the violations and for the mutants.

* `conf_cache`: 2 goroutines, 2 keys and the empty key, 6 requests (rejected and
  unknown entries, two without a key, one that panics, one that cannot be read), 2
  calls, TTL 2. Two calls are every pair that can race; TTL 2 lets token and key
  expire one before the other.
* `token_use`: 2 routes, 2 connections, 2 PrepareConf calls, lives 5 and 6 ticks
  (the smallest that differ under the factor 1.2), one restart. An HTTP request takes at
  most one tick with its retries (`MaxLag` = 1): a tick is a fifth of the expiry time, and
  by default far longer than any timeout of APISIX; it may fall between any two steps. The
  two calls suffice for a key hit before, at and after an expiry.
* `token_expiry`: the same with one connection and no restart; both calls are needed.
* `handle_conn`: 2 connections, 2 builders (all may be in use), 2 questions per
  call (so that a late answer could be taken for the next), one call of
  each kind, the good HTTPRespCall on a connection of its own; reply sizes that fit
  and that do not.
* `runner_process`: 2 processes, backlog 2, builds with two plugins, with a name
  registered twice and with an empty name. Two processes are enough for one to find
  what the other left and for the two to overlap.
* `http_req_call`: 2 connections and 2 objects of each pool, every part of a
  request, 2 plugins with an unknown one between them. `MaxOps` = 2 bounds the
  operations of the calls under way together: one in each of two calls, or two in
  one; a call that has ended gives its share back, so that an object is reused any
  number of times.
* `http_resp_call`: the same with `MaxOps` = 3 (Del, Set, Del; set, delete under the
  other spelling, read), one header name in two spellings, two values. Names do not
  interact in `header.go`, so one is enough. APISIX sends at most one value per name
  (`MaxRaw` = 1) and no empty ones: beyond that the code has further divergences,
  see "Not modelled".
* Symmetry is used where model values are interchangeable and no liveness is
  checked. `token_use` also has a `VIEW` that leaves out the answers APISIX has
  already read: no action and no property looks at one before the next call on its
  connection has set it, so states that differ only there are one.

### Fairness

* `ConfCache`: WF of the statements of `Set`, none of which blocks; SF of `Lock`,
  because `sync.Mutex` does not starve a waiter (its starvation mode). Arrivals
  and time are not fair.
* `HandleConn`: WF of each goroutine, with at most `MaxAsks` questions in a filter
  (plugins end); WF of APISIX reading what it is sent and answering questions.
  Neither sending calls nor hanging up is fair.
* `RunnerProcess`: WF of the main and of the accept goroutine, where no error of an open
  listener is owed; SF of `Accept`, because such errors (no file descriptors left) are
  temporary: if they went on for ever, nothing would ever be accepted, and the code can do
  nothing about it. Signals, kills and connections are not fair. Deadlock is not checked: all processes may have ended.

## 4. Proofs

Every invariant and every action property of the passing runs is a theorem, for any
number of connections, objects, keys, routes, processes and operations.

| Module | Theorem | States | Hypotheses |
|---|---|---|---|
| `ConfCacheProofs` | `TypeCorrect` | `TypeOK` | |
| | `KeyIsStable` | `KeyStable` | |
| | `TokensBound` | `TokenBinding` | `NoWrap` |
| | `AnswersOwn` | `AnswerIsOwn` | `NoWrap` |
| `ConfCacheRefinementProofs` | `CacheRefines` | `ImplementsConfStore` | `NoWrap` |
| `TokenUseProofs` | `RouteGetsOwnConf` | `TokenSelectsOwnConf` | `NoWrap` |
| | `FoundLasts` | `FoundTokenLasts` | `NoWrap` |
| | `KeyOutlives` | `KeyOutlivesToken` | `NoWrap`, `MaxLag <= TTL - ConfExpireTime` |
| | `LimiterStays` | `LimiterKept` | `NoWrap` |
| `HandleConnProofs` | `TypeCorrect` | `TypeOK` | |
| | `BuildersExclusive` | `BuilderExclusive` | |
| | `RepliesMatch` | `ReplyIsForCall` | |
| | `AnswersMatch` | `AnswerIsAnswer` | |
| `RunnerProcessProofs` | `TypeCorrect` | `TypeOK` | |
| | `ComesUp` | `NeverFatal` | |
| | `QuietExit` | `NoAcceptError` | |
| | `RegistryStays` | `RegistryFrozen` | |
| `HTTPReqCallProofs` | `TypeCorrect` | `TypeOK` | |
| | `ToldIsOwn` | `InfoIsOwn` | |
| | `WriteEndsChain` | `ChainStops` | |
| | `ContextLife` | `ContextScoped` | |
| | `FetchedIsIntent` | `ReplyIsIntent` | |
| `HTTPRespCallProofs` | `TypeCorrect` | `TypeOK` | |
| | `ReplyIsIntent` | `RespIsIntent` | |
| | `ChainStops` | `RespChainStops` | |
| | `ToldIsOwn` | `RespInfoIsOwn` | `Empty \notin Values` |
| | `HeaderArrives` | `SetArrives` | `Empty \notin Values`, `MaxRaw <= 1` |

The assumptions on constants are the `ASSUME`s of the modules: sizes are positive,
special values ("no request", "no builder") are no members of the sets they stand
beside, requests, chains and builds have their shapes, APISIX has one route per key,
and `TTL` is what `getConfCacheTTL` makes of `ConfExpireTime`. TLC evaluates them on
every run. The hypotheses are needed:

* `NoWrap` (fewer PrepareConf calls than tokens). After 2^32 tokens a number is issued
  again while its old entry may be alive.
* `MaxLag <= TTL - ConfExpireTime` (no HTTP request takes longer than an entry outlives a
  token). The key is renewed when PrepareConf answers, and APISIX counts from the moment it
  has the answer: a slower answer leaves it with a token whose key is gone.
* No empty header values, at most one value per name: section 5 says what the code
  does otherwise.

The bounds `MaxPrepares`, `MaxOps`, `MaxAsks`, `MaxRestarts` and `MaxBacklog` are
constants of the modules, as is `MaxLag`, and but for these hypotheses the theorems hold
for every value of them.

### Arguments

Each inductive invariant was checked by TLC on the instance of its run before it was
proved (the number of states in parentheses).

**ConfCache** (`LockInv`, `BindInv`: 46 thousand states). `KeyStable` is not inductive: a goroutine that
missed stores its key several statements later. `LockInv` adds `Exclusion` (whoever
executes a statement of the critical section is the one in `lock`, and serves a
request) and `MissPersists` (a key that missed stays absent until it is stored: only
the holder writes keys, time only removes them). `TokenBinding` needs that the token
about to be stored was never issued. `BindInv` adds `Fresh` (tokens above the counter
were never issued, nor the one taken and not yet stored; the locals are those of the
request) and `CounterPaid` (the counter plus the number of calls that have yet to
increment it is at most the number of calls), which with `NoWrap` makes
`(n + 1) % TokenSpace` equal to `n + 1`. That number is a cardinality, hence
`FiniteSetTheorems`. `IssuedGrows` says an issued token keeps its request.

**ConfCacheRefinement** (`RefInv`: the same). `BindInv` together with `Usable`: a request past
the lookup is well formed, and one past the parsing does not panic. `StoreToken` maps
to `Issue`, `KeyHit` to `Reuse`, `Panic` to `Fail`, `GetRuleConf` to `Get`, a tick to
`Expire`, and the other statements of `Set` to stutters. In `Issue` the
abstract key is written one statement before the concrete one; that nobody can tell is
`Exclusion` and `MissPersists`.

**TokenUse** (`UseInv`: checked by TLC on the 681 thousand states of one connection with
three `PrepareConf` calls and a restart; with two connections it is only proved).
`BindInv` is kept by APISIX's steps and starts afresh after a restart. What APISIX relies on is not the token entry, which expires when it is not
used, but whom the token was issued for, which `IssuedGrows` keeps, and the key entry:
`TiedInv` says that whatever token of this process is held, in an answer, about to be used
or remembered by the limiter was issued for its route, and that the key of the route is
cached with it for so many ticks more: `TTL` less the time the request has taken when
PrepareConf answers, then one less with every tick. Each of the four bounds is what is left
of the one before it (`TiedGrows`, `TiedKept` and `TiedAges`), and a bound that is used up
says nothing. Tokens then select their own configuration whether or not the bound still
holds, and two tokens of one route whose bounds are positive are one. For `FoundLasts`,
`HeldTied` adds that the entry of a token that was found lives at least as long as the
token is held: `Get` makes it `TTL`, both age together, no step but a tick shortens a life.

**HandleConn** (147 thousand states). The properties speak of one frame, the reason
they hold is the whole conversation. `ConnInv(c)` ties the statement a goroutine is at
to what is on its connection in both directions, to the call APISIX waits for and to
the message in the builder: at any time one side has the word, and at most one frame is
under way. Connections meet in the builder pool only; `HoldInv` says the builders in
use are pairwise different and not in the pool, so a step on one connection leaves the
`ConnInv` of the others alone.

**RunnerProcess** (`InitInv`, `LoopInv`, `AloneInv`: 27 thousand states). `LoopInv` ties the accept
goroutine to the main one: it exists from `signal.Notify` on, the listener is open as
long as `done` is not, and so the error of a closed listener implies `done`. For `NeverFatal`,
`AloneInv` says that a process that has met nobody finds the path as it left it itself:
empty after `Clean`, its own after `Listen`.

**HTTPReqCall** (1.1 million states) and **HTTPRespCall** (512 thousand). `HoldInv`:
no two handlers have one object, and none has an object that is in the pool.
`FreeInv`: an object nobody holds is as `Reset` leaves it, whatever the fields are that
`Reset` keeps. `AgreeInv` says, statement by statement, that the object a handler holds
agrees with its history variable (`intent`, `rec`): a cached field is `Nil` or of this
call, and a part is what the plugins made of it. `ReplyInv` says that a reply is what
`FetchChanges` finds in the object until it is reset. `SetArrives` and `RespInfoIsOwn`
need `HeaderInv` beside: for each name, what plugins set is in `hdr` and else
`rawHdr` has the value wanted; `rawHdr` is as sent or empty, and empty for every name in
`deleteField`. It does not say that a name deleted last is in `deleteField`: after Del,
Set, Del it is not.

### Only model-checked

* Liveness (`PrepareReturns`, `CallAnswered`, `HandlerEnds`, `BacklogDrains`,
  `QuitEnds`): fairness is outside the prover's reach.
* The violations: a counterexample is one behaviour, for which a small instance is
  enough.

## 5. Not modelled

* Repeated and empty header values. The operators of `Header` have them, the runs
  leave them out, because the outcome is known from the code: `Set` to the first of
  several raw values is not sent and the other values stay; `Get` after `Set` to the
  empty string returns the raw value; `Del` of a header whose value is empty is not
  sent.
* A response body of no bytes. `FetchChanges` does not send it (`response.go:220`), so that
  a plugin cannot empty a body; the recorder does not tell an empty write from none either,
  and nothing in the repository says what should happen, so no property is stated.
* `View()` hands out the table itself, so that writes through it are recorded,
  contrary to its comment in `pkg/http/http.go:146`. It is deprecated.
* `ParseConf` of the sample plugins beyond its three outcomes, regular expressions,
  random percentages and the delay of limit-req. response-rewrite writes status 200
  whatever status is configured; the model has it as it is in the code.
* A recorder made without `NewRecorder`: with a nil `HeaderMap`, `Header()` returns
  nil the first time.
* Flag parsing, the version command, logging: input and output only.
* Flatbuffers encoding, the unix socket, the ttl cache, `sync.Pool`: external,
  modelled by how the runner uses them. A status code is a small number; its
  truncation to 16 bits in `FetchChanges` is not.

## 6. Plan

All components with logic of their own are modelled, and every safety property that
holds is proved. What could be added:

1. A theorem with a weaker hypothesis: what remains of `SetArrives` with repeated header
   values.
2. The properties that are violated, restricted to where they hold:
   `ServedConfIsOwn` without a restart is `TokenSelectsOwnConf`, `ConfOutlivesToken` of a
   token that was found is `FoundTokenLasts`; `CleansOwnFile` without overlap could be
   stated.
