# Formal models of rust-tiny-frpc

TLA+ models of the client, from its command line to its tunnels, the TLC runs that check them on
small instances, and TLAPS proofs for all instances. Paths are relative to the
repository (`src/...` here is the repository's own `src/` directory).

```
tlc -config MCRetry.cfg GatewayRunner.tla       # one run; see "Runs"
tlapm GatewayRunnerProofs.tla                   # one proof module
```

## 1. The system

rust-tiny-frpc drives the ssh tunnel gateway of an frps server. Two binaries
share configuration and command generation:

* **tiny-frpc** (gateway) embeds an ssh client. It runs one task per proxy that
  keeps a tunnel up, reconnects, backs off and optionally renames.
* **tiny-frpc-ssh** (native) starts the system `ssh` once per proxy and waits.

| Component | Source | State | Operations | Model |
|---|---|---|---|---|
| Gateway runner | `src/runner/gateway.rs`, `src/runner/mod.rs` | closed flag, `active` map, per task: ex number, backoff, loop counters | `run`, `run_proxy`, `try_proxy`, `start`, `wait`, `close`, `run(config)` | `GatewayRunner` |
| CloseState, NativeCancel | `src/ssh/gateway.rs`, `src/ssh/native.rs` | atomic flag, `Notify` | `close`, `cancelled` | `CloseState` |
| Tunnel client | `src/ssh/gateway.rs` | own CloseState, session slot, output buffer | `start`, `authenticate`, `pump`, `close` | `TunnelClient` |
| Bridges | `src/ssh/gateway.rs` (`TunnelHandler`) | semaphore per session, a task per connection | `forwarded_tcpip`, the spawned task | `Bridge`, `ForwardPool` |
| Native runner | `src/runner/native.rs`, `src/ssh/native.rs` | children, JoinSet, NativeCancel | `run`, `spawn`, `wait` | `NativeRunner` |
| Rename | `src/rename.rs` | none | `next_ex`, `apply_rename_prefix`, `strip_rename_prefix` | `GatewayRunner`, `Commands` |
| Configuration | `src/config/*` | none after loading | `load`, `parse` of both formats, includes, `complete`, `validate` | `Configuration`, `Loaders`, `Wildcard`, `Startup` |
| Command generation | `src/command.rs`, `shell_words` of `src/ssh/native.rs` | none | `gen_extra`, `parse_to_native_ssh`, `warn_unrepresentable`, `redact_command` | `Commands`, without `redact_command` |
| CLI, entry points | `src/cli.rs`, `src/lib.rs`, `src/bin/*` | none | `parse`, `apply_overrides`, `run`, `run_client` | `Startup` |
| Keys, util, logging, version | `src/keys.rs`, `src/util.rs`, `src/logging.rs`, `src/version.rs` | none | path, host and log text | not modelled |
| frps, the network, the operating system | external | registrations, session output, signals, processes | | as environment actions |

**How they interact.** The main task spawns the joining task
(`GatewayRunner::run`), which spawns one task per proxy. Each proxy task builds a
`TunnelClient`, puts it in the shared `active` map, awaits `start()`, takes it out
again and acts on the result. `close()` is called by the main task on a signal and
by the joining task on a panic: it sets the runner's CloseState, then closes every
tunnel in the map, each of which has a CloseState of its own. The session handle
is shared by `start()`, the tunnel's slot and the task `close()` spawns. All proxies,
the sessions they lost and other clients compete for the names in frps' registry.
Before any of this, one pass goes from the arguments and the files to a validated
configuration and from there to one payload per proxy.

**What is hard.** The flag is read and acted upon at different moments; the map
is swept under a lock that does not cover the check; `select!` drops and recreates
waiting futures; a panic skips clean-up code; the end of a session arrives as
several messages any of which may be missing; the rename sequence and the backoff
are state that survives reconnects; a bridge outlives the session whose permit it
holds; a name may be held by the client's own lost session; files include files,
each loaded by the function that loads a whole configuration; frps splits a payload
at every space, so one value shifts all the others. `PROJECT.json` lists each hazard at its line
with the properties that would catch it.

## 2. Modules

```
                 StickyCancel  <--refines--  CloseState   <- CloseStateProofs
TunnelStates <-- Tunnel        <--refines--  TunnelClient <- TunnelClientProofs
     ^
     +---------- GatewayRunner               <- GatewayRunnerProofs
                     ^--- NameRegistry  (EXTENDS: the same runner, with frps)
                                             <- NameRegistryProofs
                 NativeRunner                <- NativeRunnerProofs
                 ForwardPool   <--refines--  Bridge       <- BridgeProofs

Text <- Configuration <- Loaders  <-+- Startup  <- MCStartup
                      <- Commands <-+      ^
                         Wildcard <-+      +------- StartupProofs
                         Commands <- CommandsProofs <-+
```

* **CloseState**: a step is one access to the atomic flag or to the `Notify`.
  tokio promises that a `notified()` future completes when `notify_waiters()` is
  called after the future was *created*; `generation` and `created` model that.
  `Drop` is the `select!` that takes another branch; `pump()` then makes a new
  future. `StickyCancel` is what users rely on; the refinement lets the other
  modules treat cancellation as a flag.
* **TunnelClient**: `start()` as its sequence of awaits, `close()` as its three
  steps (flag, slot, spawned disconnect), pump's messages. frps decides
  (registers, refuses the name, rejects), sends its banner later, talks and ends
  with or without an exit status; the network may fail at any moment and what was
  not received is lost. Output is a sequence of pieces (`banner`, `conflict`,
  `text`), and the 64 KiB buffer holds `OutputCap` of them. It implements
  `Tunnel`, whose transition relation is `TunnelStates!NextStatus`.
* **GatewayRunner**: one action per step of a proxy's task, of the joining task
  and of the main task. The tunnel of a proxy moves by `NextStatus`, and each attempt
  of a task is a behaviour of `Tunnel` (`TunnelsRunToTheirEnd`). `tried`,
  `kept` and `raced` are history variables no action reads. `start()` is three
  steps on purpose (check and build, insert, run): another thread can run
  between the check of the flag and the insertion, since both binaries use the
  multi-threaded runtime.
* **NativeRunner**: the tasks that spawn and await ssh, the `select!` of `run()`
  and its drain; signals and the exits of children are environment actions.

* **Bridge**: the forwarded connections of one proxy over several ssh sessions. A
  handler accepts a channel, takes a permit of its session or drops the channel,
  and spawns a task that dials and copies; each direction of the copy ends by
  itself. The task outlives its session. `ForwardPool` is what the limit promises,
  and every session implements one.
* **NameRegistry** extends `GatewayRunner` without changing an action of it: each
  step of a tunnel is joined with what frps does at that moment (registers, refuses,
  closes), a lost link leaves a name held by nobody alive until frps notices, and
  other clients come and go. `last` and `refused` are history variables.
* **Text, Configuration, Loaders, Commands, Wildcard** are operators. A text is a
  sequence of pieces the program never splits, with blanks and commas as pieces of
  their own, so that splitting, joining and stripping are modelled by what they do.
  `Loaders` has one parser per kind of key, as the code does, and both formats;
  `Wildcard` has the recursive matcher and, separately, what a pattern denotes, and says
  for which patterns the two are claimed to agree (`WellFormed`).
* **Startup** is the state machine around them: the loop over the arguments, one of
  them a step, the choice of the format, `parse` with `load_includes` as a stack of frames, the end
  of `parse` (complete, hand proxies and visitors to the including file), overrides
  and validation. `MCStartup` holds its directories and command lines.

Most modules with actions have a section *Faulty variants*: actions with one plausible mistake,
used by no specification. `PROJECT.json` names, for each property, the variant
that must break it. `DocumentedIniKey`, `KnownFlags`, `NamingFlags`, `PatternDenotes`, `Written`,
`Declared` and `IsSwitch` are references the code is compared with, written from what is promised
and not from the code. `Written` is the list of items that the files have, and `Declared` what the
comment on `complete()` makes of it: each item completed once, at the end, with the user of the
main file.

## 3. Runs

| Run | Instance | Question |
|---|---|---|
| `retry` (`MCRetry.cfg`) | 1 proxy, renaming on, shipped counts (2 same-name, 3 renamed, 3 names, 3s..30s) | Is the rename sequence right, is the working name kept, does the backoff only shrink after a good session, does the loop ever stop by itself? |
| `shutdown` (`MCShutdown.cfg`) | 2 proxies, renaming off, panics possible | Does close() reach every tunnel but a racing one; does a panic stop the others and leave nothing connected; is every tunnel waited for to its end; does a shutdown end? |
| `slip` (`MCSlip.cfg`) | 2 proxies | *Violated*: does close() reach every tunnel? |
| `close_state` (`MCCloseState.cfg`) | 3 waiters, 2 closers | Is a wake-up ever lost? Is it a sticky cancellation, liveness included? |
| `tunnel_client` (`MCTunnelClient.cfg`) | 2 closers, buffer of 2 pieces, 2 pieces after the banner | Is the result frps' verdict, does a long session still count as clean, does close() always take the session down, does it implement `Tunnel`? |
| `native` (`MCNative.cfg`) | 3 children | Does run() leave a child behind, does one tunnel's end kill another, does a heard signal end the process? |
| `native_signal` (`MCNativeSignal.cfg`) | 2 children | *Violated*: does any signal end the process? |
| `bridges` (`MCBridge.cfg`) | 3 connections, 2 sessions, limit 2 | Is a permit ever lost or made, is a session's limit kept and used in full, does a full pool drain, what can keep a bridge whose session is gone? |
| `bridge_total` (`MCBridgeTotal.cfg`) | 2 connections, 2 sessions, limit 1 | *Violated*: is the limit one on all bridges? |
| `registry` (`MCRegistry.cfg`) | 2 proxies of one name, 2 candidates, 1 other client, 1 lost link or failed set-up | Does each proxy come back, does the configured name, and does an address change for any reason but a refusal? |
| `startup` (`MCStartup.cfg`) | 8074 launches | Is what runs what the files and arguments say, and what is included what the patterns name; do both formats and both binaries agree; does frps read the proxy that was configured, renamed or not, where no value can be misread; does loading end? |
| `startup_prefix` (`MCStartup`'s `MCStartupPrefix.cfg`) | a file includes another, and that one a third or not, with a user or without | *Violated*: is an item completed once? |

**Bounds.** Proxies share only the flag, the map and the joining task, and no two
of them interact except through a sweep, so two show every interleaving of a sweep
with another task; one suffices for the retry logic, whose state is per proxy, and
there the real counts and delays are used. Two closers are all there are: a signal
and a panic (every further panic sweeps after the one before it). `MaxText` makes
the output exceed the buffer by one piece. Two sessions and one connection more than
permits show a full pool, one that is turned away and one that outlives its session.
In `registry` the names are as many as those who want one, without which a proxy may
have to wait for another client for ever; one trouble (`MaxTroubles`) puts a ghost of
either proxy at any point of the other's cycle, and the retry counts are small because
`retry` has the real ones. The launches of `startup` are four families, each varying one
thing: which of four files include which, by one or two of eight patterns, with users
and unloadable files among them (a circle is cut off at `MaxDepth` = 6 calls, which
is more than any path without one has; all its patterns are well-formed); every type of proxy with every one and two
keys, in six styles of value (plain, with a space, with an `ex_7_` of the user's own and
a comma in its metadatas, with a quote, looking like a flag, of the wrong kind or out of
range); the same keys in ini sections; and
every two arguments, every three with the last like the first, and every four of the options and
switches that may take each other for a value. The files that include each other have items with
ports of their own, so that no two of them are alike. `Numerals` are the numbers these files write, with the last port and
the first that is none; `ExPieces` are the prefixes of the sequence and one that only a
user writes; `MetaKeys` are the two keys of the metadatas; `Alphabet` has the characters of the names and
patterns, in the order that a range of a class goes by. Nothing else is bounded: all runs explore their full state
spaces.

`CHECK_DEADLOCK FALSE` is used where the modelled component really ends: all calls
returned (`close_state`), the attempt was dropped (`tunnel_client`), the process
exited (`native`), every connection was handled (`bridges`). The runner, the registry
and `startup` keep deadlock checking; their ends are stuttering actions.

**Fairness.** Weak fairness of each task's own steps (the runtime polls what is
ready, a sleep ends), of a tunnel's set-up (every await of it has a timeout) and
of a cancelled tunnel (its select! has the cancellation as a branch). No fairness
for frps, the network, a child's exit, the operator's signal, a panic or a call
of close(): a tunnel may stay open for ever, and liveness properties are stated so
that they do not depend on it. In `Bridge` a dial is fair to fail, since
`DIAL_TIMEOUT` ends it, and never to succeed; a copy is fair to see the end of a channel
whose session is gone; nothing is asked of the local service. In `NameRegistry` frps
answers an attempt that nothing disturbs and finds out about a lost link in the end;
no other client ever has to leave. `Startup` is a sequential program that takes its
next step. `FlushesOutput` in `NativeRunner` assumes the pipes
of a dead child close, which a descendant of ssh that inherited them could delay.

## 4. What the violated runs show

* **slip**. A proxy task reads the flag in `start()`, the main task stores it and
  sweeps the map, the proxy task inserts its tunnel. That tunnel has its own
  CloseState, so nothing ever cancels it, and the process waits for it until frps
  ends the session. The comment on `CloseState` (`src/ssh/gateway.rs:84`) says a
  tunnel that starts after close() still observes it. The `shutdown` run and the
  theorem `SweepIsCompleteButForTheRace` show this window to be the only one.
* **native_signal**. When the first ssh child ends, `run()` leaves the `select!`
  that listens for signals and drains the rest without listening. A signal sent to
  the process alone is then lost (one sent to the whole process group also reaches
  the children). README.md says both binaries treat the signals as shutdown.
* **bridge_total**. Each ssh session has a semaphore of its own, and a bridge is not
  ended with its session: after a reconnect the old bridges are not counted. The
  comment on `max_forward_connections` (`src/config/model.rs:59`) calls it the upper
  bound on concurrently bridged connections. `EachSessionIsAPool` is what does hold.
* **startup_prefix**. `parse` completes what a file has and then hands it to the file
  that includes it, whose `complete()` takes it for its own (`src/config/toml_load.rs:95`, `:120`).
  Where both set a user, the name of a visitor, or of a proxy under `userDoublePrefix`, has
  both prefixes. The comment on `complete()` (`src/config/model.rs:90`) says it runs once, at the
  end of loading. What does hold is `ItemsAreDeclared`: nothing else of an item depends on it,
  and where no included file sets a user, its name does not either.

More disagreements are listed under `findings` without a run of their own. Each one is why
a property is claimed under a condition:

* A `[` that is not closed ends the match of an include pattern: `[a` takes a file `[b`, while
  the comment (`src/config/toml_load.rs:203`) says it is treated literally. `ItemsAreDeclared` is
  checked, and proved, for well-formed patterns (`WellFormed`).
* `warn_unrepresentable` says (`src/command.rs:136`) that the user needs to know of a value
  with a space, and does not look at the subdomain, the user of http, the multiplexer, the
  locations and the allowed users. With such a value frps reads an argument too many, and
  nothing was said. So `PayloadReadsBack` is claimed where nothing was warned of *and* those five
  have no space (`UnwatchedHaveNoSpace`).
* A rename strips every `ex_N_` in front of a name before it puts one there. The name `ex_1_n`
  that a user chose becomes `ex_2_n`, and its first candidate is the name that was refused. The
  comment on `strip_rename_prefix` (`src/rename.rs:60`) forbids its callers to do so.
  And a rename looks for the naming flags at every word of the payload: in
  `--http-pwd --sd --host-header-rewrite x` the password is taken for the flag of the subdomain,
  and the flag after it gets the prefix, while the comment (`src/rename.rs:30`) says only the flags
  of the identity are touched. So `CandidateIsRenamedProxy` is claimed for names and domains without
  an `ex_N_` (`HasExName`), and where no other value is a naming flag (`NoValueIsNamingFlag`).
* The comment on `shell_words` (`src/ssh/native.rs:134`) says generated commands never have a quote.
  A value is written as it is, and its quote is taken for the shell's. So `FrontEndsAgree` is claimed
  where no value has one (`PlainCommand`).
* `validate` asks for a name ("proxy name is required", `src/config/model.rs:242`) when `complete()`
  has already put the prefix in front of it: under `userDoublePrefix` a proxy without one is started
  as `u.`.
* Same-name retries are granted in every cycle of a never-renamed proxy, where the comments
  say only in the first.

What `registry` does *not* say: a renamed proxy goes back to its configured name when
its session ends, and a session that stays up is not interrupted for it. Where the
names are fewer than the claims, `EveryProxyComesBack` cannot hold and is not claimed.

## 5. Proofs

All proofs hold for every value of the constants that satisfies the named
assumptions (`RetryAssumption`: counts and delays are naturals, the base delay is
at most the cap, the sequence has at least one name; `CommandsAssumption`; the
proxies, waiters and closers may be any sets; `ConnsAssumption`: the connections are
a finite set; `LimitsAssumption`; `BoundsAssumption`: the output buffer holds at least
one piece; `RegistryAssumption`; `DepthAssumption`: one file can be loaded;
`LaunchesAssumption`: the arguments are a finite list, and a value of a parsed TOML
file holds what its kind says, without a word on what is in its arrays and tables;
`FilesAssumption`: the names of files are a finite list, spelled in the alphabet; `NumeralsAssumption`: the numbers of
ini files are naturals, no two are written alike, none is written as a blank, and 0 and 1
are written `0` and `1`; `NumbersAssumption`: none is written as a blank or a comma;
`ExPiecesAssumption`: the prefixes of the sequence are prefixes, and no blank or comma is
one; `MetaKeysAssumption`: the keys of metadatas are finitely many).

* **GatewayRunnerProofs**. `TypeCorrect` first. For the shutdown, the properties
  are not inductive: that a sweep misses only racing tunnels needs to know, before
  the insertion, that the task about to insert was recorded in `raced`, and that
  no tunnel is cancelled before the flag is set; that run() returns with nothing
  connected needs that every *reaped* panic is cancelled whenever no sweep is
  pending. `ShutdownInv` is that conjunction. For the names, `NamingInv` says
  exactly which names were refused so far in the rename phase: the configured one,
  and those at most `attempt` steps back in the cyclic sequence (`StepsSince`).
  From it follow both that no candidate repeats and that giving up means all were
  tried, with no assumption that the two counts agree. `SequenceSteps` is the
  arithmetic of one step of `next_ex`. The two action properties follow from the
  invariants and a lemma that names the only steps that can matter.
* **CloseStateProofs**. `NoLostWakeup` is inductive given that futures are created
  at past generations; with it, each step is a step of `StickyCancel`.
* **TunnelClientProofs**. Each step is a step of `Tunnel` or a stutter. That the result
  is frps' verdict, and that a long session counts as clean, rest on `VerdictInv`: what
  was sent and not yet forgotten (the queue and the buffer) says what frps decided, and
  the banner can only be the first message of a session, so it reaches an empty buffer
  and the cap, whatever it is, never drops it. Nothing else about the cap is used.
* **NativeRunnerProofs**. One inductive invariant relates each task's stage to its
  child, and gives both safety properties.
* **BridgeProofs**. A task that gives back a permit keeps the type of the semaphore only
  because it took one, so type and conservation are one invariant (`BridgeInv`), with
  the fact that an accepted connection has a session. A step takes one permit and adds
  one holder, gives one back and removes one, or is `Quiet`. From the same three cases
  each step is a step of every session's `ForwardPool`, or a stutter of it.

* **GatewayRunnerProofs** also shows that what a task does with its tunnel is, attempt
  after attempt, a behaviour of the abstract `Tunnel` (`AttemptsComplete`), which is the
  other half of `ClientImplementsTunnel`: the runner asks of a tunnel only what a
  `TunnelClient` gives. It rests on `FreshInv`: a task that is not at its tunnel has
  none, so an attempt begins at the beginning.
* **NameRegistryProofs**. `RegistryRunsTheRunner` first: a step of the composition is a
  step of the runner, so its invariants hold here too. `AddressChangesOnlyOnConflict`
  compares two registrations that may be many attempts apart; `RefusalsAt` is what is
  known of a proxy at every moment between them: with no name in its session it was
  refused the one it asked for; trying candidates it was refused the configured one;
  and past the candidate it had last, that one too. The link may be lost and the
  ghost of a session be in the way at any of these moments.
* **StartupProofs**, in six parts. *Types and flags*: both loaders give a proxy that
  has nothing set but fields of its type (`ProxyInv`), and completing a file, handing
  its items to the file that includes it and the overrides keep that (`LoadInv`, which
  speaks of every frame of the stack). So the flags, each pushed only for a field that
  is set, are known to frps. *Settings*: the lowest frame keeps the main file's keys
  however many files are loaded above it (`MainInv`). *Arguments*: `IsSwitch` says
  that an argument is a switch when an even number of arguments that want a value stand
  before it; the parser looks at one argument at a time. `ArgumentInv` relates them:
  the parser waits for a value exactly when that number, for the next argument, is odd.
  *What is sent*: a payload is its flags and values joined by blanks, so where no value has
  a blank, warned of or not, and no item of a list is empty or has a comma (`Plain`), frps' split
  gives them back, and what it reads for each field is what was
  configured, lists and metadatas item by item (`FrpsReadsTheProxy`). A rename changes the
  values of the naming flags and gives the payload of the renamed proxy
  (`TheCandidateIsTheRenamedProxy`), if besides no name or domain begins with an `ex_N_` and no
  other value is a naming flag; that prefixes never stack needs none of this. The shell words of the
  native command, whose quotes protect nothing when no value has one, make up the payload of the other
  binary (`TheFrontEndsAgree`), if besides no host or path has a blank. Section 4 says
  why each of these conditions is needed. All three are about the proxies that `LoadInv` leaves in a running
  client. *Includes*: `Written` counts down a depth and has no stack; `DeclareInv`
  says of every frame that it has the items of its own file, and of the files it is through with,
  each as it is for the depth that is left, and that the patterns and matches
  it has left are the rest of the list. An item is followed in two ways, as the code completes it
  in every file on its path and as it is written. `DeclareInv` needs the first; `Written` is the second.
  The two are alike at every depth (`AllLevelsAreAlike`): an item completed any number of times, and
  once more by the main file, has all it had but for its name (`CompletedItemIsAlike`), and its name
  too where the files on the path have no user. That depth is enough for the files above follows
  from the height of the stack. What the recursive functions involved compute is shown by
  induction (`TakesListsExist`, `TakesIncludesExist`, `DeclaresAtExists`). A frame asks the
  matcher and `Written` asks what a pattern names, so the two have to agree
  (`IncludesFindWhatTheyName`). They do on every pattern in which each `[` starts a class
  and no two ranges of a class touch (`WellFormed`; section 4 shows the first half to be
  needed, and nothing says what `[a-b-c]` names), for names and patterns of any length
  (`MatcherFindsThePattern`). The matcher walks the name along the pattern and the reference
  cuts the name after it has taken the pattern apart; `Agrees` says that from one place of
  the pattern on they answer alike for every rest of the name, and is shown from the end of
  the pattern to its beginning (`BackwardInduction`), one lemma for each kind of item. Two
  of them have something to show: a run of stars is one step of the matcher and one item for
  each star, and a class is scanned once, from the left, where the reference looks at all its
  dashes (`ScanFindsMembers`). *The two loaders* (`TheLoadersAgree`): for any accepted TOML
  file that ini can express, the ini loader gives the same configuration from its
  transcription. A transcribed section has one entry for each documented key of the table
  (`EntriesAreWritten`) and `DocumentedIniKey` is injective, so what a reader finds under a
  key is what was written there (`KeyIsRead`). Then one lemma for each kind of value says
  that the two readers agree on it: texts, ports, counts, flags, lists (what is joined by
  commas splits into the same items, and trimming leaves each as it was), metadatas. The
  fields that the ini loader reads for a type of proxy are those the TOML loader accepts for
  it, under the documented names (`FieldsAreDocumented`). `SettingsAgree` and `ProxiesAgree` put these together for the
  main section and for a proxy, and `OnlyTheRest` says that the loader, which takes every
  section but `common` for a proxy, is left with the proxies in their order.
  `ExpressibleInIni` names what ini cannot say: includes, visitors, a proxy called
  `common`, list items that are empty, have a comma or begin or end with a blank, a port
  that is not a number, and an integer flag other than 0 and 1 (any number but 0 is true in
  TOML, only `1` is in ini).
* **CommandsProofs**. What `apply_rename_prefix` gives does not depend on a rename done
  before (`PrefixesNeverStack`), for payloads of any length with anything in them. Its
  operators are folds, which stand for recursive functions over the index sets of a
  text: `FoldExists` shows that these exist, by an induction over a set of numbers
  (`NumberInduction`, from the least element that the well-foundedness of `<` gives).
  Then splitting, filtering and joining are runs of one step per element (`SplitRun`,
  `NonEmptyRun`, `JoinRun`), which give one equation for an element more, and by
  induction over texts: what is joined splits into what was joined (`JoinThenSplit`,
  `JoinThenWords`). A renamed value begins with the prefix, what is left of it when the
  prefix is stripped again is what was left before, and the words that are renamed are
  the same ones the second time (`SameFlagWalk`): a renamed value is never taken for a
  flag, because the word after a naming flag is a value whatever it looks like. Where a
  command line has no quotes, its shell words are its words (`ShellWordsAreWords`).

Only model-checked: all liveness (the leads-to properties, the fairness parts of the
refinements), which is outside what the prover handles. Every safety property of a passing
run is the statement of a theorem or, for the refinements, its safety part is.

## 6. Not modelled

* Time: delays elapse at any moment; only the backoff's length is kept. So nothing is
  said of how long a shutdown takes while a set-up waits.
* Log lines, `redact_command`, usage and version texts.
* The syntax of TOML and INI (quotes, comments, the split into lines) and of templates:
  a file is its parsed contents and whether it renders. All files are in one
  directory, and no file changes while it is loaded.
* Hosts and ports as text (`src/util.rs`): brackets around IPv6 addresses.
* `src/keys.rs` and `check_server_key`: which key is tried, and whether the server's is
  accepted, is part of "the handshake or the authentication fails".
* Backslashes in `shell_words`: no launch writes one.
* A failing lock (a poisoned mutex, which no code path produces).
* What the process should do after a panic when no signal comes: nothing states it.

## 7. Plan

In this order:

1. Key resolution and `check_server_key`, as the environment of `Authenticates` and
   `Connects`: which errors are retried although they cannot go away.
2. `shell_words` with backslashes, and hosts with colons, in `Commands`.
