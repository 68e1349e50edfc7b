# A verification of exhume_agent

`exhume_agent` is an investigation agent for disk images: an investigator talks
to a model, the model proposes *steps*, the investigator approves one, and the
agent runs it, a bounded number of tool calls against registered evidence, to a
*checkpoint* with findings. The program's promise is a chain of custody: nothing
runs without an approval that is on record, nothing runs before it is on record,
and what happened is never rewritten.

These TLA+ modules model the parts of the program that keep that promise, TLC
checks them on small instances, and the TLA+ proof system proves the central
invariants for every instance. Paths are relative to the repository; the program
is under `src/` of it, hence `src/src/...` below.

    tlc -workers 2 -config InvestigationLifecycle.cfg MCInvestigation.tla
    tlapm InvestigationProofs.tla

## 1. Inventory

### The parts and how they interact

    host or TUI --submit, commands, cancel, close--> AgentSession   session.rs
                                                        | turn_gate, active_turn, history
                                                        v
                                                     Agent          agent.rs
                                                        | chat
                                                        v
       provider <--requests-- step runtime --reserve, complete, finish--> InvestigationStore
       (providers/)            runtime.rs                                 investigation.rs
                                   | execute                                  |
                                   v                                          v
                                 tools/                     row agent_investigations, report
                                                            and execution log files
       providers take access tokens from TokenCache (auth/cache.rs), which loads and
       renews them through CredentialVault (auth/store.rs); auth.rs signs accounts in.
       UiHandle (ui.rs) carries events and approval requests to the host.

| Component | State it keeps | Operations | What is hard | What makes it correct |
|---|---|---|---|---|
| Investigation store, `investigation.rs` | one row per session: state_json, revision, exported_revision; two exported files; a gate per instance | open, set_case_brief, propose_steps, decide_step, begin_step, authorize_tool, record_provider, check_destination, complete_tool, finish_step, interrupt_step, record_finding, review_finding, repair_exports | many stores on one row (optimistic revisions); commit and export are separate; dropped futures; crashes between two files; late completions | one step with authority, granted by a human, once, under one brief; budgets; immutable outcomes; files never claim a revision they miss; several stores behave as one ledger |
| Agent session, `session.rs` | status, active_turn with its token, history, turn_gate; rows of agent_sessions and agent_messages | submit, prepare_case, decide_step, propose_steps, review_finding, repair_exports, clear_history, cancel, close, open | check-then-lock, a gate whose handover is FIFO, cancellation between any two awaits, a status write that fails, futures dropped by their owner | one turn or command at a time; a closed session is inert; no step is left running by a turn that returned; memory agrees with the rows; events pair up; turns end and close closes |
| Step runtime, `runtime.rs` | the round and no-progress counters of a turn, the permit in use | chat, run_step, finish | acts on what it read before; each store operation may fail before or after its commit; cancelled anywhere; must end | a tool runs only on a recorded, exported reservation; an answer is a saved checkpoint; permitted calls get an outcome; every step it takes is one the ledger allows |
| Agent, `agent.rs` | tool registry, rows of messages and sessions, the table of an older version | ensure_session, save_message, load/clear history, legacy migration | two tables cleared one after the other; a migration that is not one transaction | stored conversation is what the model is shown; no old message is lost |
| UI channel, `ui.rs` | current turn id, bounded event channel, approval requests | emit, request_approval | try_send drops, send waits; responders dropped | every turn's end is seen; a decision answers the request it was shown for |
| Token cache, `auth/cache.rs` | per process: generation, a token for each account, back-off; one mutex | access (automatic, explicit, cache only), refresh of the account list, save_and_seed, disconnect | callers that go away, generations that other processes write, a store that fails, the refresh token that rotates | no stale token; a renewed token is never lost by a caller; failing stores are opened once |
| Credential vault, `auth/store.rs` | the OS vault, the index file with its generation and mark, a file lock | load, refresh, save | three writes of a save that may break off between any two; a lock that fails fast; an index that disappears | a half-written save is never served |
| Sign-in, `auth.rs` | a pending attempt, registrations, the host id | begin, callback loop, exchange, complete, disconnect | minutes pass between the two transactions of an attempt | an account id stays with its client and subject; what an attempt says is true |
| Tool outcomes, `execution.rs` | none | classify | boundaries of truncation and completeness | a class the store accepts for every result |
| Reports, `report.rs` | rows of updates, a row and a file with the text | initialize, append, rebuild, export | concurrent rebuilds, a rebuild that breaks off | a rebuild with no other beside it shows every update |
| Providers, `providers/` | a streamed response in progress | request, stream reconciliation | order and identity of streamed items | the actions executed are those the provider completed |
| Shell and approvals, `tools/shell.rs` | a child process group | approve, run, kill | three time limits against an answer | no command runs without its answer, none outlives its call |
| Evidence tools, evidence I/O, index, `tools/`, `evidence_io.rs`, `index.rs` | the index database, dumps of extracted files | open, read, extract, list, query | size bounds, a file that changes while it is read, dumps that were altered, the identity of an index | a success is earned; an index is of the evidence it names |
| Specialists, `tools/specialists.rs` | stored verdicts, artifact rows | delegate, query, store | verdicts of others, limits, findings without grounds | a verdict answers the question it is served for; findings rest on queries. Hosts call them; an investigation step cannot, since `tool_destinations` declares no policy for them |
| Terminal interface, `tui.rs` | pending approval, status line, conversation pane, typewriter | key, event, result and tick handling | events, keys, results and ticks in any order | what is shown belongs to the turn it is shown for |
| Policy, configuration, command line, paths | none that changes | parse, resolve | | |

`PROJECT.json` lists every hazard at its line, with the properties that guard it.

## 2. The modules

| Module | Models | Relation to the others |
|---|---|---|
| `Investigation` | the row of one session, and every store operation as one atomic step | the abstract specification of the investigation's part |
| `InvestigationStore` | several stores on that row and its files: load, commit, lock, two file writes, mark | implements `Investigation` (run `store_concurrency`, property `Refinement`) |
| `Runtime` | one conversation turn at the ledger: chat, rounds, actions, finish, cleanup | composes with `Investigation`, whose operations are its steps (property `ImplementsLedger`) |
| `Session` | the calls that share one session: turns, commands, cancellation, close, restart | sees the runtime and the ledger only through the one step that could run |
| `CredentialVault` | the lock, the index, the vault and the three writes of a save | no specification of its own: the operators that the next two share |
| `TokenCache` | the caches of several processes and all calls that use or write the vault behind them | extends `CredentialVault`; the vault holds versions of credentials |
| `SignIn` | sign-in attempts and disconnections on registrations | extends `CredentialVault`; the vault holds registrations and the host id |
| `Terminal` | the event loop, the event channel, approvals, the shell tool | a module of its own; a turn is reduced to the tool calls it makes |
| `EvidenceStorage` | opening the evidence database, the legacy conversation, saved messages, and what all calls on evidence share | base of the next four |
| `DigitalReport` | initialize, append, render, store, export | extends `EvidenceStorage` |
| `EvidenceTools` | extraction, the tools that read evidence, the classification of outcomes | extends `EvidenceStorage` |
| `Specialists` | delegations and stored verdicts | extends `EvidenceTools`, whose extraction it calls |
| `EvidenceWork` | all of these on one case, interleaved | composes the four |
| `InvestigationProofs`, `StoreProofs`, `RuntimeProofs`, `SessionProofs`, `TokenCacheProofs`, `SignInProofs`, `TerminalProofs`, `EvidenceProofs` | theorems | extend the modules they prove about; `StoreProofs` and `RuntimeProofs` also instantiate `InvestigationProofs` with their row |
| `MC...` | values of the constants for TLC | one per module with runs |

An operator whose comment says "A variant ..." is a wrong version of the operation below
it. It is used by no specification here: put in the place of the right one it must
break the property that guards that operation, which shows that the property can
fail.

### Investigation

The variable `ledger` is the deserialised `state_json`, `exported` whether
`exported_revision` equals `revision`. Every operation is a relation
`Op(s, t, ...)` between the snapshot it loads and the one it records: that is how the
code is written (`load`, change a local `InvestigationState`, `persist`), and it lets
`InvestigationStore` load in one step and commit in another. `BeginStep`,
`AuthorizeTool`, `RecordProvider` and `CheckDestination` take `ready`, because they
call `ensure_exported` on the revision they loaded.

| In the code | In the model |
|---|---|
| `InvestigationState.steps[..].state`, `turn_id` | `ledger.steps[id]`, with `"Absent"` before the proposal is made |
| `executions`, outcome `Option` | `ledger.executions`, a sequence in order of reservation, `None` while unfinished |
| `providers` | a set of turn and destination |
| `findings`, `decisions` | by identifier; a log |
| `StepProposal` | `Plan[id]`: a proposal is determined by its identifier, which the store requires to be fresh |
| `ProcessingDestination` and its matching | `Covers`, `Allowed`; `ANY` is an unrestricted field |
| text, hashes, time stamps, layout | left out; a text counts as blank or not, an argument as permitted by the selectors or not |
| duration limits | a refusal that records nothing, hence no step: any of the guards may refuse at any time |

`CloseCalls` is the closing of unfinished executions as unknown that ending,
interrupting and reopening share; `Stop` is what every scope violation does: the
running step becomes a checkpoint and its calls stay as they are.

### InvestigationStore

A call is one of the points `idle`, `change`/`reopen`, `export`, `report`, `log`,
`mark`/`failed`. `Commit` is the `UPDATE ... WHERE revision = ?`; `Lock` the first
statement of the export's transaction, which takes SQLite's write lock;
`WriteReport` and `WriteLog` the two `atomic_write`s, each of which may fail before
or after the rename; `CommitExport` the end of the transaction. `Fail` is a
refusal, a database error or a dropped future at any of these points (not
between the two files: there the code has no await), `Crash` the death of the process.
Each store has a gate of its own, so one call per store is general.

The refinement mapping is `ledger <- db` and leaves the flag free (`exported <- TRUE`), because a repair of
another store that fails can clear the mark between a call's loading and its commit,
so that the flag a call acted on is not the current one. What the flag is for is
stated on the files instead (`ReservedOnFiles`).

### Runtime

`run.at` is where the turn is, `run.permit` the index of the execution whose permit is held.
The store operations are `Investigation`'s relations; `Saved` and `Unsaved` say
whether the export that ends each of them succeeded, `Fault` that nothing happened.
`Unsaved` is the `Err` that
`persist` returns after the commit. `Drop` is the session's cancellation or timeout,
`Sweep` the session's interruption after it, `Command` whatever the
investigator does between turns, `Restart` the process's death and reopening.
A media service that answered is recorded before its call is completed (`RecordResponse`), so that a failure
between the two leaves the call to the interruption; and `finish` reads the state once more behind its last
write, so that a saved checkpoint may still be a rejected attempt (`Invalid` in `Propose` and `Amend`).
The provider is external: `Respond` chooses any number of actions up to `MaxCalls`
and each action is any tool in any scope.

### Session

Each call is a task and each label of `pc` a point where it may be preempted,
dropped or lost: the awaits of `submit`, of the commands, of `clear_history` and of
`close`. `turn_gate` is tokio's mutex: turns and commands use `try_lock`, `close` waits in
a FIFO queue and gets the gate directly when it is released. `cancelled` is the set
of cancelled tokens, `active` the turn in `active_turn`. Of the investigation the
model keeps `step`, the state of the step that could run, and `runner`, its turn.
A prepare_case, decision, proposal, review or repair is one step (`Manage`) since it
runs under the gate and the store makes each of them atomic, which
`InvestigationStore` shows. `Statement(ok)` is a database statement; `MaxFailures` of
them fail. Every early return of `submit` is there: the closed session, the busy
gate, the status that cannot be saved at the start and at the end, the instruction
and the answer that cannot be saved. `Sweep` may end the step, fail, or commit and
fail in the export, and tells the caller (`"Unswept"`) of both failures.

### CredentialVault and TokenCache

A credential is a *version*, a number in the order in which the service issues
them, with 0 for none. `vault` maps accounts to versions, `renewable` is the set of versions whose
refresh token the service would accept: `Renew` issues the next and takes the old one out, which is
rotation. `index` is `accounts-index.json` with its state and generation; a generation,
32 random bytes in the code, is the next number, so that "new" means what it does there.

| In the code | In the model |
|---|---|
| `vault_lock_sync`, which fails if the file is locked | `lock`, the call that owns it; `Busy` for the failure |
| `LockedVault` and what a transaction changes in it | `copy[c]` |
| `save_with_generation` | `Invalidate`, `Keep`, `Publish`, with every failure between them |
| `CacheState` behind the tokio mutex | `cache[p]`, `mutex[p]`; the mutex is held over awaits, as in the code |
| `access_locked` | `Read`, `Decide`, `LoadRequest`, `Renew`, `Save`, `AdoptRenewed` |
| `cached_access`, `refresh_metadata`, `save_and_seed` | `ServeCached`, `LoadStatus`, `SeedSaved` |
| `spawn` around an operation, so that it outlives its caller | `Detached`: `Abandon` is not enabled for it |

`tries` and `seen`, `served`, `lost` are history: what `BackoffPaces`,
`ServedWasCurrent` and `VaultStaysRenewable` speak about. Waiters for the mutex enter in
any order, which includes tokio's queue. A usable token is chosen when the cache is seeded and
checked again when it is used, as in the code; `Expire` may fall between.

### SignIn

Of a registration the model keeps the client id, the subject and which attempt obtained its
credentials; `IdOf` is the hash of a client id to an account id, and need not be injective.
`Open` is `begin_chatgpt_sign_in` up to its save, `Receive` one request to the loopback listener as
`validate_callback` reads it (whether it carries the attempt's state, an error, a code, a client
id), `Exchange` the token request and the validation of the identity, `Register` the beginning of
the second transaction. A signature, an issuer, an audience, an expiry and a nonce are one choice.

### Terminal

`channel` holds events (as `NoCommand`) and approval requests; `Emitted` is `try_send`,
which drops at capacity, `Ask` waits for room as `send` does. `reply[x]` is the state of the oneshot
responder, `"dropped"` when the loop overwrites `pending_approval`. `EndTurn(FALSE)` is the
limit of a turn, `TimeOut` that of a tool, `Exit` the end of the command, by itself or by its own limit.
A dropped call kills its process group (`Stopped`). `Quit` is a key, or the end of the terminal's input or a failed
drawing, which may come with a popup open: its responder is dropped with it. Texts are reduced to whose they are.

### EvidenceStorage, DigitalReport, EvidenceTools, Specialists, EvidenceWork

`job[c]` is what call `c` is for and `pc[c]` the await it is at; between two awaits
any other call may run. `Break` ends a call at an await: an error of a statement, a file or a service
that is returned, a dropped future, a dead process. `before[c]` is the set of calls that had ended when `c`
began, which the properties need to say "not at the same time". A *world* (`Worlds`) gives each call
its job and says what the case holds at the beginning.

All tools look at one indexed file. Its content is a size and a form; a content is also its SHA-256
digest and the path of its dump. `ChangeSource` replaces the content, as happens in a folder that is
in use. Each tool ends in `Return(c, raw, found, withheld)`: `raw` is what `execution::classify`
looks at, and `outcome` what it makes of it, while `truth` records whether the tool did its work and
whether it left something out, from the data and not from its marks. A verdict
of a specialist carries the question that was asked, and for a database the numbers of the queries its
findings cite. `ensure_evidence_row`, of an external crate, inserts the row if there is none.

## 3. What is checked

| Run | Question | Bounds, and why they suffice |
|---|---|---|
| `ledger_lifecycle` | Is authority granted once, by a human, to one step on one turn under one brief, and gone for good when it ends? | three proposals, so that two others compete with the live one; two turns for reuse; three briefs, one blank and one that alone selects a step's evidence; one call a step |
| `ledger_calls` | Do budgets, prerequisites, findings and immutable outcomes hold through stops, late completions, reviews and reopening? | two steps, of which one has two dependent tools and a retry: the second failure, the last call and a repeated prerequisite all occur; one finding, one review |
| `store_concurrency` | Do several stores with failures and crashes anywhere implement the atomic ledger? Do the files keep up? | two stores, which is enough for every race on one revision; seven revisions: brief, proposal, decision, begin, reservation, completion and one more |
| `session_calls` | Are memory, rows, events and the running step consistent when turns, commands, a close and cancellations race, and does everything end? | two turns, a command, a close whose future may be dropped, one failing statement, one restart |
| `runtime_turns` | Does a turn act only on what is recorded, under each processing policy? | two tools, one with a service of its own; three briefs that allow both services, one or none; two actions a response; one fault |
| `runtime_finish` | Is an attempt at a checkpoint that fails half way retried or interrupted, never reported as saved, and does a polled turn end? | two steps, a finding and a proposal in one finish; two faults, so that the retry fails too |
| `token_calls` | Is any token served that was replaced or removed, is any renewed one lost, and is a failing store spared? | three calls in nine combinations, in one process and in two; two accounts; two faults, so that a failure follows a crash or a lost index; one expiry |
| `sign_in_attempts` | Do overlapping attempts and disconnections keep registrations and the host id true? | two attempts and a disconnection; two client ids that hash to one account, and a third; two subjects; one fault |
| `terminal_popups` | Does a command run only if it was approved, is the status true, and does every turn end for the investigator? | three commands over two turns and a channel of two: a popup, a displaced one and a full channel at once |
| `evidence_work` | Does the work of hosts on one case stay bound, complete and earned? | two or three calls in sixteen worlds, chosen so that every pair that shares state meets; one fault or one change of the file; sizes on both sides of each limit |

`terminal_typing` and `store_reopen_files` end in a counterexample; see below.

The properties, beyond one type invariant per module:

* `Authority` (`OneLiveStep`, `HumanGranted`, `DecidedOnce`, `TurnBinding`):
  at most one step is approved or running and no proposal waits beside it; what runs
  or ran has its approval in the log; no proposal is decided twice; a turn is bound
  to one step and an execution to its step's turn.
* `RetiredForGood`, `ScopeFrozen`, `OutcomesImmutable`: what a step of the ledger may never do.
* `PlanIsKept` (`WithinBudget`, `DependenciesObserved`) and `FindingsGrounded`: relations between a
  proposal, the calls it made and the findings that cite them, over its whole life.
* `Refinement`, `ExportedMeansWritten`, `ReportNeverOlder`, `ReservedOnFiles`: two stores are one ledger;
  the mark is set only over files that have the revision, up to outcomes that a
  reopening added (see below); an old exporter never overwrites a newer report; a step begins and a
  call is reserved only on a revision whose files exist. That `BeginStep` and `AuthorizeTool` look at the
  flag says nothing by itself; this property says that the flag can be believed when they do.
* `ClosedForGood`, `TurnsWorkAlone`, `NoStrayStep`, `HistoryIsStored`,
  `EventsOfATurn`, `AnswerStored`: the session's mutual exclusion as what it is for. The
  exceptions they name (`"Unswept"`, a dropped future, an early return on a status
  that cannot be saved) are the code's own: they are its error returns.
* `CancelledIsHeeded`: a turn that is cancelled while its runtime is not being polled, and that has not
  completed, is never polled again and never answered, in the rows, in memory or by an event; so it
  stays out not only of the next poll but through the sweep, the status writes, failures and a
  restart. It says nothing of a turn that completes in the poll that races with the cancellation: the
  code keeps that answer. `AnswersFollowInstructions`: in the rows and in memory an answer stands directly
  behind its own instruction, whichever turn, clear_history or restart came in between.
* `ToolRunsOnRecord`, `AnswerIsSaved`, `PermittedCallIsClosed`, `ImplementsLedger`.
* `CacheMatchesVault`: what is cached under the generation of a readable index is what the vault holds, in
  every process. `ServedWasCurrent` says the same to a caller: the token it got was in the
  vault at some moment of its call, so after a disconnection has returned no later call is given
  its token. `CacheMovesForward`: no cache goes back to an older generation.
* `VaultStaysRenewable`: a refresh token that the service has rotated reaches the vault although its caller
  goes away; only a fault in between can lose it. `BackoffPaces`: a failing store is
  opened once under one back-off, and a deliberate retry does not inherit one.
* `RegistrationBinding`, `AttemptsAreTrue`: an account id stays with its client and subject; what an
  attempt reports, and the host id the browser was shown, is in the vault.
* `ApprovalIsGiven`: a command runs only in its turn, while its call waits for it, and only if a key
  approved it in its own popup; a responder is dropped only when nobody waits. `StatusIsTrue`: the
  interface is idle exactly if no turn is under way and no result waits.
* `StorageIsBound`: a database that one opening prepared serves no other source, and no message of an
  older version is in neither table. `ReportCatchesUp`: a report call with no other beside it leaves everything
  in the row and in the file. `OutcomesAreEarned`: no tool result claims more than was done.
  `VerdictsAnswer`: a verdict answers the question it is served for, on grounds that exist.
* `TurnsEnd`, `CloseCloses`, `RunEnds`, `TurnsAreShown`: liveness.

Between them the passing runs take every action of every module.

### Deadlock

Investigation always can repair its exports and a store can always load or reopen, so these runs
check for deadlock. Elsewhere the system really stops, when its calls have returned or its faults and
turns are spent, and the configurations turn the check off. That nobody waits for ever is checked
as liveness where the code justifies fairness.

### Fairness

`Session`: a started call is polled (`WF` of its actions), which is the executor's contract; no call need
start and nobody need cancel. The timeout of a turn has strong fairness: the turn
alternates between its `select` and its runtime, `TimeOut` is enabled again and
again, and the timer of `tokio::time::timeout` fires once its deadline has passed.
Without it a provider that hangs keeps the gate, as the code intends up to
`turn_timeout_secs`. `Runtime`: weak fairness of the work of a turn that is polled,
nothing about commands, restarts or cancellation. `Terminal`: the limit of a turn fires, and the
event loop, whose `select!` picks among ready branches at random, comes round to a
result that waits; no key, no event and no end of a command is relied on.

### Disagreements between code and documentation

Two runs end in a counterexample, each of one property that a document states.

* `store_reopen_files`. `docs/investigation-contract.md:40` calls the database
  authoritative. `open` closes unfinished calls as unknown in the snapshot it loaded
  and records that only when it interrupts a step; if no step is live and the files
  are behind, it exports the changed snapshot. The files then say *unknown* where
  the row has no outcome yet, and the mark is set. The way there: a scope violation stops a step while a call is open, the
  process dies before the export, the session is opened again.
* `terminal_typing`. `tick` writes the next piece of the answer into the last message, whichever that is
  (`src/src/tui.rs:232`). The status is idle as soon as the answer is there, so the investigator may
  submit while it is still being typed; the instruction becomes the last message and is overwritten,
  and the answer stays cut off. The comment at line 150 speaks of "the latest agent response".

What else was noticed, without a run of its own:

* `docs/kali-live-agent-audit.md:20` says that three consecutive responses without
  executable progress interrupt a step. `run_step` counts a response without any
  action, and one with an invalid finish and no progress; a response whose actions
  are all refused leaves the counter alone. The step still ends (`RunEnds`), by its rounds.
* Two openings of an empty database at once may insert two partition rows, and if they are for different
  sources both succeed although the database is bound to one; `OneSource` promises it only for
  openings after another's end. Nothing in the repository opens one database twice at once.
* Two concurrent report calls may leave the row and the file without the other's update until the next
  call; `ReportCatchesUp` promises it only for a call with no other beside it.
* A migration that breaks off half way is not continued: once a message is there the remaining rows stay
  in the old table. Two at once copy rows twice. `LegacyKept` says that no row is lost.
* A reply of the image model that is not JSON is stored as a verdict of score 0 and served again for the
  same objective (`specialists.rs:1065`).
* A stored verdict is found by its file, objective, provider and model (`specialists.rs:465`), not by the content it was
  reached on. When the file changes afterwards the old verdict is served for the new content; `VerdictsAnswer` does
  not promise otherwise. A cache that cannot be read counts as empty.

## 4. What is proved

Theorems hold for all values of the constants that satisfy the named assumptions:
any number of steps, turns, tools, evidence sources, destinations, any plan, any calls.

**`InvestigationProofs`.** `Authority` together with `TypeOK` is inductive. None of its four parts is
on its own: that a second approval is impossible (`OneLiveStep`) needs that no
proposal waits beside a live one; that a decision is unique (`DecidedOnce`) needs that a decided
step is neither absent nor pending; that a begun step had an approval
(`HumanGranted`) needs it of approved ones; and `TurnBinding` needs that steps that
have not begun have no turn. The proof separates the operations that change who has
authority (save a brief, propose, decide, begin), each with an `...Effect` lemma that says what it does to every
step and a lemma that it preserves `Authority`, from the *quiet* ones, which
only take authority away and change nothing that `Authority` reads in any other way
(`QuietPreserves`). `NextAuthority` is the induction step, and `AuthorityHolds`, the
four theorems for its parts and `TypeCorrect` follow. `ScopeFrozenHolds` and
`RetiredForGoodHolds` use the invariant and one more classification of the steps
(`NextSettled`). The assumptions: step and finding identifiers differ, `None` is no
identifier, brief or outcome, the set of step identifiers is finite, and the inputs are of their types.

What the ledger has recorded comes from a second classification. `LedgerCases` puts every step of the store into one of four
classes: it advances the record (finishes calls, appends decisions), reserves one call with everything
`authorize_tool` checked, records a finding, or reviews one; in all four an execution is continued, never
rewritten (`Extended`), which is `OutcomesHold`. `WithinBudget` is not inductive: a completion turns an
unfinished call into a failure. `Budget` counts the unfinished calls of a tool with its failures (`Attempts`),
so that only a reservation raises the count, and a reservation needs that none is unfinished. `Relied` says of
one call what it found when it was reserved; positions are fixed and usable outcomes never change, so nothing
later takes it away. Findings cite finished executions only, hence keep their grounds (`StillGrounded`).
That only `BeginStep` makes a step run and only a reservation lengthens the record (`BegunReady`,
`ReservedReady`) is what `StoreProofs` needs for `ReservedHolds`.

**`StoreProofs`.** The stores implement the ledger (`StoresImplementLedger`), for any number of stores,
crashes and failed writes and any bound on revisions. The refinement is no step-by-step matter: a commit
records a snapshot that was computed from a row loaded earlier, and is an operation of the ledger only
because the row has not moved since. `StoreInv` says so of every call (`CallOf`): if it still has the
revision of the row, what it holds is the row, or the row with its lost calls closed (`Current`), and the
one call that owns the write lock has it. For the files, `MarkedFiles` keeps a marked revision and its two
files together, and `Current` says which of them the owner of the lock has already written.
With it `ExportedHolds`, `ReportHolds` and `ReservedHolds` follow, and `StoresKeepAuthority` and
`StoresKeepRecord` carry the ledger's theorems over to the shared row, through `INSTANCE` of
`InvestigationProofs` (the assumption about the ledger's constants is repeated as `LedgerAssumption` and discharges those of
the instance in `ProvenAssumptions`).

**`RuntimeProofs`.** A turn takes only steps of the ledger (`RuntimeImplementsLedger`), so that the ledger's
theorems hold while it runs (`RuntimeKeepsRecord`), for any plan, tools and faults. `RunInv` binds the run to the
record: the step it began keeps its turn whatever becomes of the step (`Holds`); the last permitted call
belongs to both and is closed, or the step still runs (`PermitOf`, which gives `PermittedCallHolds`); from
the permit to the end of the tool nothing else is recorded, so that the call is the last one, open and in
the files, and its destination covered by the brief, which makes recording the service of a
tool a permitted operation (`OnRecord`, `ToolRunsHolds`); and what is about to be answered is a saved
checkpoint (`Answering`, `AnswerHolds`). The parts lean on each other and on the ledger's `Authority`. There is one lemma per action of the turn, reduced to what happens to the ledger
(`Stepped`, `Settled`) and what happens to the run.

**`SessionProofs`.** `GateInv` says that a call between its taking of the gate and its
release owns the gate, and that the session is open meanwhile. It is inductive by
itself: one lemma per kind of call, over moves inside, leaving and staying outside.
It gives that at most one call is inside (`GateHolds`). `CountInv` is what
`ClosedForGoodHolds` needs of the restart counter. `RunnerInv` ties a running step to a turn
that is still at work, was told that the sweep failed, or was dropped; with
`GateInv` it gives `NoStrayStepHolds`: the turn at work owns the gate. The only
assumption is that `None` is no call and that the kinds of calls are disjoint.

From the same gate: nobody else acts while a turn waits for its runtime (`TurnsWorkAloneHolds`), and a
turn enters the runtime only past its token (`IntoTheRuntime`). `ServedInv` adds that a turn has no outcome before
its end and an answer only if it completed; then a turn that was cancelled before that, and is not in the
runtime, can neither be polled nor answered by any later step (`UnservedStays`), which gives `CancelledIsHeededHolds` and,
by induction over the rest of the run, `CancelledForGood`. `EventInv` follows a turn from event to event:
none before it started, one beginning while it is at work, during which the interface has its id, and one beginning
with one end or nothing at all when it has returned (`Told`); what is left of a dropped turn keeps its
one beginning. It gives `EventsHold`. `TalkInv` compares the conversation in memory with the stored one: `Alike` at every point
where no call is half way through changing both, and at the three points where one is (`saved`, `answered`,
`wiped`) alike but for what that call still owes. With `failures` counted, equality is lost only by a
statement that failed. `FollowInv` adds that from the saved instruction of a turn to its answer nobody else
writes, so that the instruction is still the last message (`Asked`); `AnswersFollowHold` follows. `HistoryHolds` and `AnswerStoredHolds` follow; `SuffixIs` is the lemma about
`IsSuffix`, by positions, that the proof needs.

**`TokenCacheProofs`.** `TypeCorrect`, and `CacheNeverStale` for any number of accounts,
processes, calls, faults and expiries. `CacheMatchesVault` is not inductive: publishing an index
might make an old entry look current. The invariant `TokenInv` is about generations: nobody
knows one that was not drawn (`GenInv`); while a call writes the vault the index is not ready, and the
generation it will be published under is in no other copy, no cache and no reading
(`WriteInv`), for which the owner of the lock must be alone (`LockInv`); what it publishes is what
it kept and has the version it renewed (`CopyInv`); and until the index moves on, what a call will put
into its cache is what the vault holds (`LaterInv`, `PlaceInv`). The steps fall into those that leave
the store alone (`Quiet`), those that open it (`Opens`), the three writes, a renewal, a
crash and a lost index, with a lemma for each class. Two assumptions: accounts are finitely many, and the workloads are of
their type. That a new generation differs from every earlier one is built into the model; in the code
it is a matter of 256 random bits.

`ServedHolds` follows from `TokenInv` and what each call holds (`CallServes`): inside the
mutex of its process it is alone with the cache (`Owns`); if the generation it read is the one of its cache,
what it would find there it has seen in the vault during the call (`Knows`), and so it has what it adopted
from the store (`Adopts`).

Three more theorems rest on these invariants. `CacheForwardHolds`: a ready index has the last generation that
was drawn (`NewestIndex`), so that a call which read it or published under it is not behind the cache it is about to
replace (`AheadOf`). `BackoffHolds`: whoever opened the store and failed records it before the mutex passes on
(`PaceInv`). `VaultHolds`: versions that were issued and are not yet in the vault are in the hand of one call each (`Pending`),
the copy a call is about to keep differs from the vault in its own account only (`Drafted`), two accounts never
share a version (`Distinct`), and what cannot be renewed is the version that the owner of the lock is replacing
or one that a fault threw away (`RenewInv`).

**`SignInProofs`.** `BindingHolds` and `AttemptsHold`. The vault is written from a copy in the memory of a
call, so both are about copies: a call that writes owns the lock (`HoldsLock`), its copy extends the vault
by what is due to that call alone (`CopySucceeds`) and holds what the call is about to report
(`CopyIsComplete`). Only an attempt that publishes its account is credited with one, and keeps the credit
(`PublishesOwn`, `CreditIsDue`), and what it has told its owner stays true (`Told`).
Assumed: there is a subject, and `NoAccount` is no registration.

**`TerminalProofs`.** `ApprovalHolds` and `StatusHolds`. A prompt is displaced by a later request, and that
is made only after the call of the earlier one has ended: `TerminalInv` says that one call is under way at a
time, within its turn (`OneCall`), that nothing shown or earlier in the channel still waits when a request
follows it (`RequestsInOrder`), that a responder says yes only if a key did (`RepliesAreDue`), and that the
result of a turn comes when it no longer works (`ResultsAreLate`).

**`EvidenceProofs`.** The four properties of `EvidenceWork`, for any worlds, calls, contents, limits
and faults. `EvidenceInv` joins six parts: where a call can be and what it then holds (`CallInv`),
what is left to copy is still in the old table (`LegacyInv`), the source of a prepared database
(`SourceInv`), what a rendered text shows when nobody else reports (`ReportInv`), what a
stored or pending verdict answers (`VerdictInv`) and what an outcome rests on (`OutcomeInv`).
Every action is first reduced to a few facts about how one call moves (`Moves`, `Placed`, `Fits`),
and the parts are shown to be preserved from those. Assumed are the types of a world and that `Limit` is a number.

**Only model-checked.** Every safety invariant, action property and refinement that a passing run checks is
now stated by a theorem. What is left to TLC are the four liveness properties, `TurnsEnd`, `CloseCloses`,
`RunEnds` and `TurnsAreShown`: liveness under fairness and enabledness are out of the prover's reach. So are facts that
need induction over data, of which no property here is one (`WithinBudget` and its like are about
cardinalities and positions, not about recursive definitions), and recursive operators, of which no module here has any.
`FilesMatchDatabase` and `InstructionsStay` are false, as their runs show. Each inductive invariant was also
checked by TLC on the instance of its module's run.

## 5. What is assumed and what is left out

* A database statement whose future is dropped was executed or was not, but is
  not executed later; this is a property of the driver.
* `atomic_write` replaces a file as a whole; a crash leaves the old or the new one.
* SQLite gives one writer at a time, and rolls back a transaction that is dropped.
* tokio's mutex hands a released lock to its first waiter.
* Identifiers that the program generates are fresh; a finding without an
  identifier, which gets a new one in each attempt, is not modelled.
* Times are not measured: a limit may strike at any moment at which it could.
* The service that issues tokens accepts a refresh token once and rejects what it has rotated or revoked;
  it may answer, fail or not answer.
* Waiters for the cache's mutex get it in any order.
* A load of the vault that writes nothing takes and releases the lock in one step (`LoadRequest`). That another process
  finds the lock busy meanwhile is not shown as such; to that process it is a store that fails (`Fail`).
* A host id of the kind that an earlier version wrote (`auth.rs:122`) is, like a missing one, the host id 0: the code
  replaces both before it uses either.
* The kill of a process group is what the code does on unix. Elsewhere the shell alone is killed, and nowhere is a
  descendant that has left the group; neither is among `alive`.
* A dump is written under a temporary name and renamed; another program may alter one (`"torn"`).
* Bounds: `MaxReviews`, `MaxRevision`, `MaxFailures`, `MaxRestarts`, `MaxCalls`, `MaxFaults`,
  `MaxExpiries`, `MaxTurns`, `AnswerLength`, `Capacity`, and the limits of sizes, rows and
  queries, which are the code's limits in smaller units. Nothing
  else in the modules is cut off; plans, workloads, worlds and identifier sets bound the rest.

### Not modelled

* Policy and configuration, command line, library entry and paths keep no state.
* `providers/`: HTTP and subprocess I/O, and the parsing of a streamed response, which is read to its end
  before anything is made of it.
* `index.rs`: `init_index` and `init_index_with_options`, which nothing in the repository calls, and the
  indexing that external crates do.
* `agent.rs`: the registration of tools and the prompt window; `load_history` only reads.
* `detect_fs`, `partitions` and `notes`: a query or an external crate's answer. The validation
  of statements in `query_index` is parsing.
* `extract_file` without a partition of the index (`extract_file.rs:137-204`). It writes its dump in place, under
  a name from the file id and the digest, and without looking at a dump that is there: a crash leaves half
  a dump, and a second extraction truncates the first one's for a moment. What `OutcomesAreEarned` says of dumps
  is said of indexed extraction only.
* Prompts, wording, progress events, drawing, editing keys, slash commands, diagnostics,
  the parsing of URLs, tokens and claims.

## 6. Plan

Done: every component of section 1 that keeps state, as far as section 5 says. Left, in this order:

1. Proofs across modules: that `Session` sees of the runtime and the ledger what `Runtime` does, as a
   refinement of the step it keeps.
2. The reconciliation of streamed output items, as a pure operator against a reference definition.
3. The session's events through the channel: `Session` and `Terminal` composed, so that the end of a
   turn that the channel dropped is traced to what the host shows.
