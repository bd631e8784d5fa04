# A verification of the escrow core

This project models `src/src`, the core library of a bitcoin escrow protocol: the
contract virtual machine (CVM), the records an escrow agent keeps, and the statements,
receipts and audits by which the members of a contract and the agent check each other.
TLC model-checks the modules on small contracts; TLAPS proves the central results for all
contracts. Paths below are relative to `src/src` unless they begin with `docs/` or `test/`.

## 1. The system

Members negotiate a proposal, endorse it, and an agent publishes it as a contract. Members
fund it with deposits, each locked to the contract by a covenant of pre-signed transactions,
one per spending path. Once funded, the contract is activated: a virtual machine starts, and
members submit signed witness statements to it. Programs (k-of-n endorsements, hash-locked
claims) decide which actions a statement may perform on which paths; a schedule of tasks
performs actions when nobody does. The first path that is spent or resolved is the machine's
output, and the agent completes the covenant's signatures for that path.

The library is synchronous and functional: an operation takes a record and gives back a
record. The concurrency is outside of the functions: members sign and submit independently,
the agent interleaves evaluation with runs of the schedule, confirmations come from the
chain. Inside, a call of the engine is a loop of loops whose steps may fail one by one.

| Component | State | Operations | Interacts through | What is hard |
|---|---|---|---|---|
| CVM engine, `cvm/lib` | `MachineData`: paths, status, store of votes, pending tasks, hash chain, output | `init`, `eval`, `run` | called by agent and by auditors; all effects in the returned record | partial failure inside a call, task/statement order, a machine closed without output |
| Programs, `cvm/lib/methods` | votes per path and action in the machine's store | `endorse`, `claim` | called by the engine | votes that stay recorded when the statement fails |
| Witness statements, `core/module/witness`, `core/validation/{witness,contract}.ts` | statements, signatures, receipts | create, endorse, verify, commit, verify receipt, replay | member -> agent -> member | a replay that must agree with an agent who also ran the schedule |
| Deposits, `core/module/deposit` | one record per deposit with five signed stages | register, confirm, lock, release, close, spend, settle | agent; chain oracle; covenant | a later step must not change what an earlier signature covers |
| Contracts, `core/module/contract` | one record with seven signed stages and running sums | create, cancel, add/confirm/remove funds, secure, activate, close, spend, settle | deposits' values, machine's head and output | missing guards, sums kept in two ways |
| Accounts, covenants, returns, recovery, `core/lib`, `core/module/account` | two-party signing contexts, partial signatures | request, create, register, commit, settle | member <-> agent | partial signatures bound to the right transaction and session |
| Proposals, `core/lib/proposal.ts`, `core/validation/proposal.ts` | none | create, check, tabulate | before publishing | checks against what the engine takes for granted |
| Draft sessions, `client/lib` | draft, members, roles, endorsements | create, join, leave, endorse, reset, publish | members pass the draft around | arrays shared and changed in place, stale endorsements |
| Chain oracle, `client/class/oracle.ts` | none | queries, `poll_address` | HTTP; records are confirmed, spent and settled by its answers | answers that are old when they are used, retries that run out next to the answer |
| Clients, schemas, utilities | none | one request or check each | HTTP; a record must parse at every client | the unions of the schemas tie the fields of a record together |

What makes each correct:

* **Engine.** One output at most, decided once and by the last commit; commits in time order
  between activation and expiration; a dispute stops every spend; no task is lost, repeated or
  overtaken; a call that throws changes nothing; an undecided contract is decided by its
  schedule.
* **Programs.** No endorsed commit without its quorum for exactly that action on that path.
* **Statements.** Whoever holds contract and statements computes the agent's machine; a receipt
  verifies against the machine it was made for; a statement is committed once.
* **Deposits and contracts.** Every signature the agent hands out keeps verifying through every
  later legal operation; the sums agree with the deposits; a deposit is spent one way.
* **Draft sessions.** What is published is what every signature on it covers; a seat is taken
  once; leaving undoes joining.
* **Proposals.** However an accepted contract ends, it pays every member what its role is owed.
* **Covenants.** No nonce signs twice; what was taken in completes to what the network accepts;
  one transaction for an output; outputs of a secured contract are paid together or recovered,
  and every output comes back in the end.
* **Oracle.** A record never says of the chain what is not so; a deposit that is there is found.

`PROJECT.json` lists the hazards with their lines and the properties that watch over them.

## 2. What is modelled

Five groups of modules, each a system of its own: the drafts that lead to a contract and its
publication; the engine with its programs and the statement/receipt/audit protocol; the records
of deposits and contracts that an agent keeps with a machine; the accounts, covenants, returns
and recoveries behind those records, with several contracts and the chain; the chain as a client
sees it.

| Module | Models | Kind |
|---|---|---|
| `CVMState` | `cvm/lib/{action,path,state,schedule,program}.ts`, the methods, `util/base.ts`'s patterns: the data of a machine and every function on it | operators |
| `CVM` | `cvm/lib/main.ts` with the loops of `schedule.ts` and `program.ts`: one action per step of a call | state machine |
| `CommitLog` | what a machine promises its host | abstract specification |
| `CVMEval` | the same calls as functions of a machine (folds) | operators |
| `CVMAtomic` | `CVM` and `CVMEval` together: the calls against the functions | property |
| `CVMSession` | members who create and endorse statements, an agent with a machine, its receipts and the auditors' replays: `core/module/witness`, `core/lib/program.ts`, `core/validation/{witness,contract}.ts`, `client/api/signer/witness.ts` | state machine |
| `Notary` | `util/notarize.ts`, `core/lib/tx.ts` and what the `state.ts` of deposits and contracts share: the text a receipt signs | operators |
| `DepositState` | `core/module/deposit/{data,state,util}.ts`, `verify_deposit_sigs()`, `core/schema/deposit.ts`: each operation as a guard and a function of the record | operators |
| `ContractState` | `core/module/contract/{data,state,util}.ts`, `verify_contract_sigs()`, `core/schema/contract.ts`, the running sums and `tabulate_funds()` | operators |
| `Escrow` | an agent with one contract, its deposits and its machine: the operations above after the checks of `core/validation` | state machine |
| `Proposal` | `core/lib/proposal.ts`, `core/validation/proposal.ts`, `create_contract()` and `verify_contract_publishing()` | operators |
| `DraftSession` | `client/lib/{session,enrollment,membership}.ts`, `client/api/signer/draft.ts`: signers who work on copies of a draft and hand them on | state machine |
| `Publication` | a draft, and the agent that receives, checks and publishes it | composition |
| `Account` | `core/module/account`, `core/lib/session.ts`, `core/validation/account.ts`, the signer's checks: keys, session tokens, addresses | operators |
| `Covenant` | `core/lib/{covenant,return,recovery}.ts`, `core/validation/covenant.ts`: sessions, partial signatures, what the network accepts | operators |
| `Pledge` | what an escrow promises of the outputs in its custody | abstract specification |
| `Custody` | an agent with several contracts, funders, the chain; records as in `DepositState` and `ContractState` | composition |
| `Oracle` | `client/class/oracle.ts` and its schemas, and the records that follow its answers | state machine |
| `MCCVM`, `MCCVMClose`, `MCCVMSession`, `MCEscrow`, `MCDraft`, `MCCustody`, `MCOracle` | contracts, statements, funders and bounds for TLC | instances |
| `CVMState_proofs`, `CVM_proofs` | lemmas on the functions of a machine, theorems of the engine | proofs |
| `CVMSession_proofs` | theorems on the agent, its receipts and the replays | proofs |
| `DepositState_proofs`, `Escrow_proofs` | lemmas on one record, theorems on the agent | proofs |
| `Publication_proofs` | theorems on drafts and on the contract made of one | proofs |
| `Custody_proofs` | lemmas on one signing session, theorems on the agent with its contracts | proofs |
| `Oracle_proofs` | theorems on the record of a deposit and the chain | proofs |

`CVM` and `CVMEval` are built on `CVMState`, `CVMSession` on `CVMEval`; `Escrow` is built on
`DepositState` and `ContractState`, both on `Notary`, and takes of the machine only what the
contract reads: head, closed and output, moving as `CommitLog` lets them. `Publication` is built
on `DraftSession` and that on `Proposal`; `Custody` on `Covenant`, that on `Account`, and on the
records of `Escrow`; `Oracle` on `DepositState`.

### State

`data` is the `MachineData` the host holds, `vm` the working copy that `revive_vmstate()` makes
of it. A hash is represented by what it is taken of: `head`, which the code computes as a hash
chain, is the sequence of the inputs committed, and `step` is its length. A label is a string, a
regular expression of the terms is the sequence of its alternatives, and `Substring` says which
pattern occurs inside which label, since `regex()` is not anchored (`lock` matches `unlock`). A
signature is its key. `NoStamp` stands for a null time. `updated_at` never changes in the code
and is the activation time. `Null` is the string "null": `TermsAssumption` keeps paths from being
named so, as the code's own `path === 'null'` test does for statements.

### Actions

`Eval` and `Run` are the host's calls. Within a call, `pc` says where it stands:

| `pc` | code | actions |
|---|---|---|
| `schedule` | the loop of `run_schedule()`, over `get_tasks()` | `SkipTask`, `StartTask`, `FinishSchedule` |
| `task` | the loops of `run_task()` over actions and paths | `TaskOnPath`, `TaskWithoutPath`, `NextTaskAction`, `FinishTask` |
| `program` | `run_program()` and the rest of `eval_witness()`'s loop body | `ProgramPasses`, `ProgramPends`, `ProgramFails`, `ProgramThrows` |

`get_tasks()` filters before the loop runs; the model tests each task when it comes to it, which
is the same because neither `stop_at` nor `updated_at` changes on the way. A `VMError` ends the
evaluation and keeps what the earlier steps did (`ProgramFails`); any other error leaves
`eval_witness()` and the host keeps the machine it had (`ProgramThrows`). Errors inside a task
are swallowed (`TryUpdate`). An empty array of statements still resets the error and returns.

In `CVMSession` a member creates a statement under the first program that fits (`Create`), others
find a program with their key and add their signatures (`Endorse`), and the agent takes in what
verifies (`Submit`), in the order of `test/src/e2e/settle.test.ts` (lines 246-277) and
`src/demo/09_submit_statements.ts`: verify the statement, evaluate it, make a receipt; run the
schedule now and then. A template may be stated again, so equal statements come twice. The server
itself is not in the repository; it is assumed to keep no statement whose evaluation ended in an
error.

### Records and receipts

A record is a function on its field names, with `Null`, `FALSE` or 0 where the `INIT_*_STATE()`
objects have it; the stamps of an operation (`confirmed_at` and the like) go with its flag and are
left out. `Note` is the text of a receipt: the record with the fields that the `GET_*_STATE()`
object of the stage puts back. A receipt is its text, so "the signature verifies" is equality of
the text kept with the text the record has now, which is what `verify_proof()` decides. A funder's
covenant is a value in `Escrow`; what is inside is the subject of `Custody`. `ParseDeposit` and
`ParseContract` are the unions of the schemas, which say what fields go with what flags; `TypeOK`
asks them of every record.

The actions of `Escrow` are the operations in the order of
`test/src/e2e/{settle,return}.test.ts`; the agent's request handlers are not in the repository.
What the core functions check is in the guards of the records (`CanLock`, `CanClose`, ...), what
`core/validation` checks is in the guards of the actions (`Fundable`, a closing with no covenant).
What neither checks is an assumption on the agent, made where the end-to-end tests do so:

* it secures a published contract, activates a secured one, closes an active one on a machine
  with an output, spends a closed one (`activate_contract()` and `spend_contract()` have no guards,
  `close_contract()` asks for a closed machine only);
* it withdraws a fund only while the contract waits for funds or is canceled, cancels only before
  the activation;
* a deposit that comes with a commit request may be locked right away or stay unlocked under its
  covenant, as in the tests.

`Lock` is guarded by what `verify_lock_req()` and `lock_deposit()` check and no more: neither looks
at the record's covenant, so in `Escrow` a deposit that was committed without a lock may be locked
later with another covenant. In `Custody` the agent locks what comes with a commit at once, as the
end-to-end tests do; this is an assumption on the agent there, without which nothing in the code
keeps the deposit from a lock for a second contract.

### Drafts

`held` is the copy of the draft that each signer works on; `Share` replaces a signer's copy by
another's, as `encode_session()` and `decode_session()` do, so copies diverge, and older ones with
older signatures come back. Of a proposal, paths, payments and programs are kept: what joining
adds and leaving takes away. An address is a wallet and an index, since each join counts a fresh
wallet from 0 and `rem_member_data()` recognises a member's entries by searching addresses. The
wallet library is not in the repository; `has_address(addr, n)` is taken to know the first `n`
addresses. `rem_member_data()` gives it the number of the draft's paths for the paths and of the
payments for the payments, while a member's payment has the index after its paths: a payment may
stay behind when its member leaves, and these entries are the `Strays`. A signer joins with its
default credential; the options `hid` and `idx` of `join_session_api()` are left out.
`PolicyAssumption` and `TemplateAssumption` say what the schemas check, and that the programs of a
policy and of the template are distinct, that those of the template have keys of their own, and
that no address of the template is a member's.

In `Publication` the agent receives the draft that was published (`Receive`) some time later,
checks the proposal and its endorsements, and makes a contract of it. The terms no member
changes (deadline, effective date, duration, value, schedule) are not read by any step of a draft,
so they are picked when the request is received. The agent reads its clock twice: `check_stamps()`
has one `now()` (`current`), `create_contract()` another (`created`), not earlier than the first. A template of the contract is the bag of its
outputs, since the code sorts them before it encodes them.

### Custody

A key, a nonce, a hash or a seed is a record of what it is made of, and a taproot address is the
key it pays to, with the recovery script it is tweaked by. A partial signature holds its key, its
base nonce and the session it signs: group, nonces, tweak, message. `Nonce` is what it is made
with: the base nonce and the tweak. `SigValid` is what the network accepts for an output.

| `Custody` | code |
|---|---|
| `MakeAccount` | `request_account`, `verify_account_req()`, `create_account()` |
| `Register`, `Commit`, `Lock` | `register_funds_api()`, `commit_funds_api()`, `lock_funds_api()` of the client, then the agent's checks and `create_deposit()`, `lock_deposit()`, `add_contract_funds()` |
| `Confirm`, `Withdraw`, `Close`, `Return` | the operations of the records with `get_return_tx()` where a return is completed |
| `Secure`, `Activate`, `CloseWithOutput`, `Cancel`, `Spend` | the operations of the contract; `Spend` completes the settlement of all its deposits |
| `Fund`, `Mine`, `Tick`, `Broadcast`, `Recover` | the chain: outputs arrive, are mined and age, transactions the agent completed arrive at any time, funders recover alone (`recover_funds_api()`) |

What a funder signs depends on the account, the output and the contract alone, so a request that
was sent long ago and comes late or again is the one it would make now; requests are therefore
not kept, and one for contract `s` may reach the agent for contract `c`. The machine of a contract
is the output it closes with.

### Oracle

The answers of the host are operators on the chain of the moment (`GetTx`, `GetOutspend`,
`GetAddressUtxos`). A poll is a loop with a program counter, as the host and the chain move on
between its turns. An answer the agent asked for is kept in `status` until it is used, when the
chain may be another: unmined transactions are dropped or replaced, blocks are final.

## 3. The runs

| Run | Question | Result |
|---|---|---|
| `cvm_escrow` | The contract of `test/src/vm/vectors/escrow.json`: does every interleaving of arrays of statements with runs of the schedule leave one output, quorums behind each endorsed commit, no task overtaken, a decided schedule and a log as `CommitLog` promises? Does the schedule decide a contract whose members walk away? | holds |
| `cvm_close` | A contract that uses the rest: a claim, locks, a close by two members, a wildcard task, programs that share an id, an unknown path. The same, and each call as the engine's functions compute it. | holds |
| `cvm_closed_final` | Is a closed machine final, as `docs/data/machine.md:77` says? | violated |
| `session` | Members create and endorse statements, the agent takes them in, repeated or late: does what members sign verify, is a statement committed once, does whoever has the accepted statements and the time of the last run compute the agent's machine, and is each receipt what they compute, too? | holds |
| `session_replay` | Can the execution be verified from contract and statements alone, as `docs/resources/intro.md:198` says? | violated |
| `escrow` | Two funders come, are confirmed, leave, close or are spent in any order: do all receipts verify, do the sums agree with the deposits, are the funds of a secured contract kept for its settlement, and does the settlement verify? | holds |
| `escrow_canceled` | Does the receipt of a cancellation (`docs/data/contract.md:53`) verify? | violated |
| `draft` | Two signers join, leave, endorse, reset and exchange copies in every order until one publishes: is the proposal always that of its members, does it verify for each; does the contract verify for whoever endorsed it and pay every member on every path? | holds |
| `deadline` | Is `deadline_at` a timestamp, as `docs/data/contract.md:25` says? | violated |
| `custody` | Two outputs, two contracts that may take them, requests in any order and for either contract: does no nonce sign twice, is every completed transaction valid and the only one for its outputs, are outputs of a secured contract paid together, does every output come back? | holds |
| `custody_recover` | Does it come back with a return address of the funder's wallet, as `docs/resources/intro.md:247` says? | violated |
| `oracle` | A poll and an agent that acts on answers while transactions arrive, are mined, dropped and replaced: does the record follow the chain, and is a deposit that stays found? | holds |

The violated runs are the findings of `PROJECT.json`:

* **A close without output does not end the machine.** `eval` and `run` return early on an output
  alone, and a `close` has none. A task due later still commits, moves `closed_at`, and makes the
  path it names the output, even if it only locked it: `state.status` reads `closed` after any
  further update, so the path just named becomes the output (`state.ts:57`).
* **Statements do not determine the execution.** `verify_contract_execution()` replays statements
  and never runs the schedule, so a machine that its schedule decided does not verify.
  `ReplayDecides` shows what does hold: statements plus the time of the last run determine it, as
  long as no statement is accepted with a stamp older than that run.
* **The receipt of a cancellation never verifies.** Its text is the record as it stands
  (`state.ts:127`), which holds the receipt itself as soon as it is written.
* **The deadline of a contract with an effective date is a duration.** `get_deadline()` returns
  `effective - published` in one case and `published + deadline` in the other
  (`core/module/contract/util.ts:63-77`).
* **A recovery to a wallet's address is never accepted.** The recovery script asks for the key of
  the return address, `recover_funds_api()` signs with the signer's own. The end-to-end test uses
  an address of that key, the demo one of the wallet.

Other places where code and documents differ, met while modelling; the models do what the code
does, and no run is about them:

* `verify_witness_receipt()` wants the machine's `commit_at` to be the statement's stamp, so a
  receipt of a statement that was processed and committed nothing does not verify
  (`core/validation/witness.ts:90`, `docs/resources/get-started.md:375`).
* `add_contract_funds()` adds a deposit's value to `tx_total`; `tabulate_funds()`,
  `secure_contract()` and `docs/data/contract.md:39` (subtotal and fees) do not. `FundsTabulate`
  asks for the documented sum from the securing on, where it holds.
* `verify_lock_req()` and `lock_deposit()` do not look at the covenant a record may hold already:
  a confirmed deposit that was committed and not locked may be locked again, and
  `add_contract_funds()` counts it twice. `rem_contract_funds()` takes one of the two off when it
  leaves; `secure_contract()` makes all sums anew.
* A member whose role has paths and a payment, and who leaves and joins again, may find its old
  payment still in the draft. `verify_member_data()` then throws for it, and no member can endorse
  that copy until it leaves once more (`client/lib/enrollment.ts:111`).
* Nothing bounds the time between `check_stamps()` and `create_contract()`: a contract made late
  may be effective before its deadline (`core/module/contract/data.ts:42`).
* The feerate of a request to close a deposit is not used: `create_return_psig()` reads the rate
  of the registration (`core/module/deposit/api.ts`, `docs/api/deposit.md:164`).
* `verify_session()` looks at the entries of those who joined, not at the seats nor at the
  signatures; seats are not checked when a draft is published either
  (`docs/resources/get-started.md:164`). What is checked there is the sum of each path.
* A deposit that came with a commit request and was not locked yet holds a covenant, which
  `core/schema/deposit.ts` demands to be null: `deposit.verify()` of the client,
  `verify_close_req()` and `release_deposit()` refuse it. `TypeOK` of `Escrow` names the case.
* `can_endorse()` looks for any program that has the signer's key and the statement's method,
  action and path, and not for the one the statement names (`core/module/witness/api.ts`): it may
  say yes to a signer whose signature makes the statement fail.
* `verify_return_psig()` drops the result of its check, and nothing calls the check of the grace
  period of a deposit's lock (`core/validation/covenant.ts:103`, `deposit.ts`).
* `get_max_vout_size()` of a proposal without paths is the maximum of nothing, minus infinity
  (`core/module/contract/util.ts:82`).
* The copies that `add_member_data()` and `rem_member_data()` make of a proposal share arrays with
  the caller's, and `has_signature_api()` drops the answer of `verify_endorsement()`; no caller
  in the repository looks at the older copy or acts on the answer.

### Properties worth a word

* `KeepsPromise` is refinement: `CVM` implements `CommitLog` with `log <- data.head`,
  `closed <- data.closed`, `outcome <- data.output`. It says in one formula that the log is
  append-only and in time order, that an outcome is decided at most once, by the last commit, and
  that nothing follows it.
* `QuorumBacked` relates the log to the votes: an endorsed commit has a quorum of distinct members
  on record for exactly its action and path.
* `PendingTasksTimely` and `TasksRunOnce` say that a statement never overtakes a task: were a
  commit to come first, `check_update_stamp()` would drop the task silently.
* `ScheduleDecides` says what an undecided machine looks like when its schedule has been worked
  off: each path that was due to be spent is disputed or locked, each close has closed it. Tasks at or past the
  expiration are excepted, since the code drops them.
* `CallsAreFunctions` compares the step-by-step engine with `CVMEval`, written independently of
  it: errors half-way through an array, early returns and partly recorded votes show here.
* `BatchReplays` compares the two ways in which `core/validation/contract.ts` evaluates a list of
  statements (as one array, and one by one). They agree if the stamps are in order and nothing
  closed without output, also where the agent's own schedule ran ahead of a statement; and of a
  machine that a statement decided, `verify_contract_session()` passes, which sorts its statements
  and takes them as one array.
* `ReceiptsReplay` says of all receipts handed out what `ReplayDecides` says of the machine: each
  is the receipt a member makes of the replay of the statements up to it, though the agent's
  machine had run its schedule in between, and `verify_witness_receipt()` passes on that replay.
* `DepositReceiptsVerify` and `ContractReceiptsVerify` quantify over all stages signed so far: a
  record goes on changing after each receipt, so they fail as soon as one operation writes one
  field that the text of one earlier stage does not put back. The exceptions are stated in them: a
  deposit closed and then spent, since `spend_deposit()` does not look at `closed`; and the
  receipts of a cancellation and of the funding it undoes.
* `FundsTabulate` compares the sums kept call by call with those made of the deposits at once. A
  deposit that was locked when it was a fund already (`recounted`, kept by the model alone) is in
  the sums once more, and stays there when it leaves; the property says that this is the one way
  in which they disagree.
* `SecuredFundsStay` relates the contract to each deposit while funders act on their own; what
  keeps a funder from closing a committed, unlocked deposit is the covenant on its record alone.
* `SettlementVerifies` is what members check at different times (`verify_contract_activation`,
  `_close`, `_spending`), stated for all times after. It needs the agent to wait for an output: a
  machine closed without one moves on (see the findings), and a contract closed on it would not
  verify.
* `ProposalIsMembers` says that leaving undoes joining, whoever came and went in between: with
  programs that members share, terms the template holds already, and paths of the same label.
  What leaving may not undo is a payment of a role with paths. `DraftsVerify` says that nobody is
  left, by what others do, with a draft they cannot endorse: unless the member itself came back to
  a payment it left behind (`PaidOnce`), its seat verifies.
* `EndorsersVerify` and `MembersArePaid` go from the copies of a draft to the contract made of one:
  whoever signed verifies what was published, and is paid on every path what its role is owed.
* `NonceOnce` compares all partial signatures there may be, sent or not: two with one key and one
  nonce sign the same session. All sessions of a token start from one nonce of the agent, so it is
  the tweak alone that keeps them apart.
* `TransactionsValid` relates a transaction to covenants taken in long before it, by way of
  accounts, registrations and records that were released, locked again and closed in between.
* `KeepsPledge` is refinement: `Custody` implements `Pledge`, in which outputs of a secured
  contract are paid together on one path, returned to nobody before the pledge is lifted, and
  recovered by their owner at most once their locktime has passed. A recovered output takes the
  settlement of the others with it, which is what they then come back by.
* `RecordFollowsChain` is about answers that are old when they are used.

### Bounds

Times are ticks from the activation (0) to the expiration (6). The stamps of statements and the
`stop_at` values are chosen around the schedule's timers (2 to 5): before, equal to and after
them, and close to the expiration. Statements cover each program with votes apart, together,
repeated and by strangers; arrays have up to two elements, in either order of stamps, so the
second element meets a machine that the first, and the tasks between them, have changed. The log
needs no bound: the votes, the paths and the tasks run out. In `session` one statement goes round
at a time, with up to two signatures (`MaxSigs`), which is what a threshold of two needs; two
stamps lie on either side of the first task. `MaxAccepted` (3) bounds the statements an agent
accepts; two statements are enough to disagree on order, the third is for a vote that completes
what two orders of the others left. Deadlock checking is off since a machine with an output
really stops.

`MCEscrow` has deposits of 8 and 9 for a subtotal of 9 and fees, so that either is short alone and
both suffice; two covenants, so that a lock may replace one; two blocks, so that a settlement may
be repeated with another; two paths and three commits, so that the machine may close without an
output and take one later. Two deposits are the fewest in which one changes while the sums hold
the other. Only the commits need a bound (`MaxCommits`). Deadlock checking is off: once
`MaxCommits` commits are spent without an output, an active contract waits for good.

`MCDraft` has two signers and two roles: a buyer of one seat with a path, a seller of two with two
paths, so that both signers may hold the same role; both have payments, the buyer's at an address
that leaving finds, the seller's at one that it finds only among enough payments. Roles share a
program, the template shares another, and paths share a label with the template's. One signature
on a copy (`MaxSigs`) is enough for it to be current, stale, or made by one who has left or never
joined; a draft is followed until it is published, received or refused, where the model stops. The
terms have each optional field present and absent, the stamps let a request come in time and late
and the contract be made at once or later. Of the two values one is what the entries of a buyer
and a seller add up to, the other is this with a payment left behind. The signers are
interchangeable (`MCSymmetry`), and the run has no liveness.

`MCCustody` has two outputs of one funder at one address, which only together fund a contract, so
that a settlement has two inputs and either may be missing; two contracts that share a path's
name and template, so that a covenant of one could be taken for one of the other; a locktime of
one tick. One token (`TokenIds`) is in the run; with two the safety properties were checked once
over 384,680 states, and the theorems below hold for any number. Deadlock checking is off, as
everything may be spent in the end.

`MCOracle` has two outputs of one address and three tries, which is what it takes for a poll to
miss one output and be told of another, and for the last answer to be the first that has any.

### Fairness

`CallsReturn` is weak fairness of the engine's internal steps: a call is synchronous code, and
once begun it goes on. `HostPolls` is strong fairness of `run` for each `stop_at`: the calls of
`eval` disable it again and again. Polling is an assumption on the host, since nothing in the library polls by
itself: without it no schedule ever runs. In `Custody` blocks keep coming, and a funder whose
output is unspent recovers it in the end: the document's promise is to funders who use the path.
The agent is under no fairness there. In `Oracle` requests are answered or fail, and timers fire.

## 4. The proofs

Every safety invariant and action property of the passing runs is a theorem, and so are the three
comparisons with another specification (`KeepsPromise`, `CallsAreFunctions`, `KeepsPledge`).
`CVM_proofs` holds for all terms, schedules, batches of statements and polling times;
`CVMSession_proofs` for all members, templates and stamps besides; `Escrow_proofs` for any number
of deposits, all values, covenants, blocks and commits; `Publication_proofs` for all signers,
roles, policies, templates and fees; `Custody_proofs` for all devices, funders, tokens, outputs,
rates and contracts; `Oracle_proofs` for any number of outputs and tries.

| Module | Theorem | Statement |
|---|---|---|
| `CVM_proofs` | `TypeCorrect` | `Spec => []TypeOK` |
| | `OneOutput` | `[]OnlyOutputSpent`: a spent path is the output of a closed machine |
| | `DisputesHold` | `[]DisputedOnlyResolved`: a disputed path is only ever the output by a resolve |
| | `Quorums` | `[]QuorumBacked` |
| | `TasksTimely`, `Decides` | `[]PendingTasksTimely`, `[]ScheduleDecides`, if `TimersForward` |
| | `RunOnce` | `[]TasksRunOnce`, if `TimersForward` and `ClosesOnce` |
| | `PromiseKept` | `Spec => KeepsPromise`: the engine implements `CommitLog` |
| | `CallsReturnFunctions` | `Spec => CallsAreFunctions`: the loops compute the functions of `CVMEval` |
| `CVMSession_proofs` | `TypeCorrect`, `CommitsOnce` | `[]TypeOK`, `[]CommittedOnce` |
| | `Replays`, `Verifies` | `[]ReplayDecides`, `[]StatementsVerify`, if `TimersForward` |
| | `Receipts` | `[]ReceiptsReplay`, if `TimersForward` |
| | `BatchesReplay` | `[]BatchReplays`, if `TimersForward` |
| `Escrow_proofs` | `TypeCorrect`, `Funds` | `[]TypeOK`, `[]FundsTabulate` |
| | `DepositReceipts`, `ContractReceipts` | `[]DepositReceiptsVerify`, `[]ContractReceiptsVerify` |
| | `FundsStay`, `Settlement` | `[]SecuredFundsStay`, `[]SettlementVerifies` |
| `Publication_proofs` | `TypeCorrect`, `ProposalMembers`, `MembersVerify` | `[]TypeOK`, `[]ProposalIsMembers`, `[]DraftsVerify` |
| | `Endorsers`, `Paid` | `[]EndorsersVerify`, `[]MembersArePaid` |
| `Custody_proofs` | `TypeCorrect`, `Nonces` | `[]TypeOK`, `[]NonceOnce` |
| | `CovenantCompletes` | a covenant that was verified settles every path |
| | `Transactions`, `OneForEach` | `[]TransactionsValid`, `[]OneTransaction` |
| | `PledgeKept` | `Spec => KeepsPledge`: the agent and the chain implement `Pledge` |
| `Oracle_proofs` | `TypeCorrect`, `RecordFollows` | `[]TypeOK`, `[]RecordFollowsChain` |

**The argument for the engine.** None of the invariants is inductive on the host's machine alone,
because a call works on a copy for many steps before the host sees any of it. `IInv` therefore says of both
machines what updates keep (`Settled`), says that the copy continues the host's machine
(`Continues`: the log extends it, and closing and output change by a commit only), and says that
no loop of a call tries an update on a machine with an output (`Undecided`), which is what the
early returns of `main.ts` and `schedule.ts` are for. `Settled` strengthens `DisputedOnlyResolved`
to "a disputed path stays disputed until there is an output", which needs `PathActionAllowed` to
refuse every action but `resolve` on such a path. `UpdateSettles` shows that one accepted update
keeps `Settled`; `ReturnStep`, `RunScheduleStep`, `NextStatementStep` and `TryUpdateStep` carry
that through the pieces the actions share; `CallStep`, `ScheduleStep` and `ProgramStep` have one
case per action. For `PromiseKept`, each step either leaves `data` alone or replaces it by a
machine that continues it (`HostStep`), and the latter is a `Commit` or a stutter of `CommitLog`.

**Votes, tasks and the schedule.** `Quorate` says that every endorsed commit has its votes in the
store; the store only grows, so it is enough to look at the commit that a program makes
(`PassedQuorum`). For the tasks, `TaskInv` says where the loop stands: the pending tasks are the
last ones of the sorted schedule, the loop's queue is that list (or nothing more is due), a
statement runs when no pending task is due (`NoneDue`), so no commit can be later than a pending
task (`OnTime`). `TasksRunOnce` adds that two commits of the machine differ: those that move a
path leave it in a state which refuses the same action again (`Unique`), and those that close come
of different turns of the loops, since every such commit is assigned to a task and an action that
had its turn (`ClosesRan`). `ScheduleDecides` follows from what each task leaves behind when its
loops are half-way (`Worked`), and that no later update takes it back (`DecidedStays`: a locked
or disputed path stays so while there is no output).

These need `TimersForward`: the schema lets timers be negative, such a task is never due, and
`shift()` then takes off the wrong task. `ClosesOnce` is needed because two scheduled closes at
one time make two equal commits. Both are hypotheses of the theorems that use them, and the
instances assert that their schedules fulfil them (`MCAssumption`).

**Calls as functions.** The functions of `CVMEval` are folds, one in another: statements, tasks,
actions, paths. `CallAt` says where a call stands in each of them: the machine it began with, the
prefix that is done in every fold, and the working copy as the value of the innermost prefix. Each
action of `CVM` moves one prefix by one (`PathTried`, `ActionOnPath`, `TaskFinished`,
`ProgramGoesOn`); an early return jumps to the end of a fold whose remaining steps change nothing
(`Halted`: with an output, or with a flow other than `next`, a fold stands still). When the call
returns, every prefix is the whole list.

**The argument for the session.** The folds are handled by sets of machines: if a set is closed
under accepted updates and shifts (`TasksStay`) and under programs (`ProgramsStay`), then it is
closed under `EvalSchedule`, `EvalWitness` and the replay. `Good`, `Fresh`, `Later`, `ByTask` and
`Closing` are such sets; `CommittedOnce` and `StatementsVerify` are properties of a set each. For
`ReplayDecides`, running the schedule twice is running it once to the later time (`RunTwice`), and
a statement no older than the last run commutes with it, since it runs the schedule to its own
stamp first (`StatementAfterRun`). For `BatchReplays`, a statement at the end of an ordered list
is at the end of the sorted array (`SortedStays`), and the flow of the array ends early only on a
machine that closed, by an output or by a close (`FlowIs`, `Closing`). What remains is that the
replay decides no later than the agent did. An agent that ran its schedule ahead of a statement
has done tasks that the replay still has before it, and a task may do on one machine what it no
longer does on the other. `Trails` says how they differ: the agent's machine is the replay's with
the first tasks taken off, each of which the replay's refuses. A refused task stays refused
(`ProgramRefuses`), save that a later dispute lets it resolve, and a resolve decides the machine. So
`TrackInv` holds: at every time past the last statement and the last commit, the replay run to that
time has an output or is trailed by the agent's machine run to that time (`Meets`). For
`ReceiptsReplay`, the machine that evaluates a statement is the replay's, as the statement runs the
schedule to its own stamp before (`SubmitReplays`); a commit of the statement is at its stamp
(`ReceiptIs`).

**The argument for the records.** `NoteKept` says that the text of a receipt depends only on the
fields it does not put back. `DepositInv` and `ContractInv` join the receipts with what the flags
tell of the stage reached, which is needed to know *which* receipts exist when an operation
writes; there is one lemma per operation (`LockKeeps`, `SecureKeeps`, ...). A contract's sums may
move only while its sole receipt is that of the publishing, which puts them back (`FundsKeep`).

**The argument for the agent.** `SecuredFundsStay` is not inductive: its funds are confirmed and
under a covenant long before the securing, and the contract is secured on a sum whose deposits
must then stay the same ones. `IInv` of `Escrow_proofs` adds that each fund holds a covenant and
is open from the day it is listed (`FundingInv`), that a settled cancellation has none left
(`CanceledInv`, without which a late confirmation would change sums under a receipt), that the
machine of a closed contract has an output and so stands still (`ClosedInv`), and that the
transaction is the one of the funds listed (`SpentInv`). `RecordStep`, `NewRecordStep` and
`ContractStep` are the three shapes of step; one lemma per action applies them.

`FundsTabulate` compares sums kept call by call with sums made at once. The sum over a set of
deposits is a fold that chooses its elements in an order nobody knows, so `SumStep` (the sum of a
set is one value plus the sum of the rest) holds for the chosen element only; `SumRemove` proves
it for every element, by the least set size that is a counterexample. `SumsInv` has one clause per
stage, each with the deposits counted twice, and one `Tabulate...` lemma for each operation on the sums. `TypeOK` needs that each field
is null until its flag is set (`ContractTyped`, `DepositTyped`), which is what the unions of the
schemas ask.

**The argument for drafts and their contracts.** A proposal is built by folds (`concat`, filters,
one program after the other), and its order depends on who joined when. `ProposalIs` therefore
describes a proposal by sets: its paths are those of the template and of the members, each once,
its payments these and strays besides (`PaymentAdded`, `PaymentsStay`), and of its programs there is one for every combination of terms, with the keys of all
members whose policies have these terms. `JoinIs` and `LeaveIs` show that a join adds a member to this
description and a leave takes it away, which is the claim that leaving undoes joining;
`Drafts` keeps it for every copy, whatever copies are shared. `ProposalMembers` and
`MembersVerify` follow. `Received` says that the agent checked what it made the contract of, and
`Endorsers` follows from it. For `Paid`, a template of the contract is a bag, and
`BagTotal` says that the outputs of a bag add up to the entries of the sequence it was made of
(`TotalAdd`, again over sets in an unknown order); what a member is owed is among these entries
by `ProposalIs`, and the sum of each path was checked.

**The argument for the signatures.** A session is determined by its tweak (`SessionDetermined`): the
tweak holds the id of the covenant or the deposit, thereby the account and its group, the nonces
and the message. So two partial signatures with one nonce, which holds the tweak, are of one
session (`NonceDetermines`). That every partial signature there may be is of a determined session
follows for the funders' from how they are made, and for those in transactions from an invariant.
`IInv` of `Custody_proofs` says that the registration behind a deposit passed
`verify_register_req()`, that a fund of contract `c` holds the covenant its funder makes of that
registration for `c` (`FundsLocked`: late and misdirected requests are refused by the covenant's
id), and that a closed contract has an output of its own. Then each completed signature is valid
(`CovenantCompletes`, `ReturnCompletes`). For `OneTransaction`, `JInv` adds where a completed
transaction comes from: it is the return of a deposit that is closed or spent, or the settlement
of a contract that is spent (`TxsKnown`), which goes on being so because such a record and its
funds no longer move (`TxsStay`); a fund is neither closed nor spent (`FundsOpen`), and its
covenant names one contract.

**The refinement of `Pledge`.** The mapping reads the pledge of an output off the contract that
lists it while that is secured, and its fate off what spent it. The contract is a choice, so the
first thing to show is that there is nothing to choose (`FundsOne`, `PledgesOne`); the path is one,
too, but it is the same for all outputs that one transaction spends (`FateIs`). `QInv` adds to
`KInv` (records, ages, owners and stages) how each output on the chain was spent (`Placed`) and
which contracts stand (`Standing`). Then every action maps to one step of `Pledge` or to none:
`SecureMaps`, `CancelMaps`, `ReturnMaps`, `PayMaps`, `RecoverMaps`, `ChainMaps`; every other action
leaves the view of each output as it is (`NoStep`).

**The argument for the chain.** An answer is used when the chain may be another. `IInv` of
`Oracle_proofs` says that an answer which reads confirmed is about a transaction that is mined
(`StatusInv`), as blocks are final (`MinedStays`), and that it is about the deposit or about what
the record says it is spent by. That the host's answer to `get_outspend` names that very
transaction needs that an output has one spend at a time (`ChainInv`): a recovery only replaces a
settlement that is not mined.

**Assumptions.** `TermsAssumption`, `LabelAssumption`, `InitAssumption`, `CallsAssumption` and
`SessionAssumption`: the constants have their types, no path is named "null", the machine's own id
is no program's, and `init_vm()` does not throw on the terms. `LabelAssumption` says that the
action labels are strings, which is true of the literals but not known to the provers.
`EscrowAssumption` says that `Null` is no covenant, path or block and that values are numbers;
`ContractAssumption` that fees and sizes are; `PolicyAssumption`, `TemplateAssumption`
and `PublicationAssumption` are those of section 2 and the types of the fees
and stamps; `CustodyAssumption` that the locktime is a number; `OracleAssumption` and
`NullAssumption` that `Null` is no output, answer or transaction and that there is at least one try.
TLC evaluates all of them in the runs of their modules.

A few facts about values are hypotheses of the theorems that need them, since they are true of the
values TLC works with but a set theory without types does not decide them: `Null` is no receipt
(`NotesApart`), no number and not the label "return" (`NullApart`), no contract, and nothing that
is on the chain (`PledgeApart`). `PledgeApart` further asks for a locktime that is not 0, as the
policy's minimum is not, and for contracts whose templates are not those of a return, since the
mapping tells a settlement from a return by what it pays.

**Folds.** The provers have no induction over data and cannot use the library's induction
theorems. The lemmas on folds take another way: a recursive function on numbers exists if every
finite part of it does, and the least number that is a counterexample gives the one before which
is none (`LeastNat`, `Climb`, `FoldsExist`, `PrefixSteps`). So a fold is described by the sequence of
its prefixes, and a property of it by the set of prefixes that have it.

**The sort.** `Array.sort` is modelled by ranks instead of recursion (`SortBy`), so that
`SortByProperties` (a permutation in key order) could be proved for every length: ranks are
injective because they grow with a strict total order, hence onto by counting.

## 5. What is only model-checked

* All liveness: `ScheduleSettles`, `FundsComeBack`, `FundsFound`. Liveness under
  fairness and `ENABLED` are out of the prover's reach.
* Schedules with negative timers are in no run and in no theorem that assumes `TimersForward`; the
  other theorems of the engine cover them.

## 6. What is not modelled

* Cryptography is ideal: hashes are injective, signatures cannot be made without the key, and the
  arithmetic of the two-party signatures, of taproot tweaks and scripts is the libraries'.
  The signing device and the wallet are not in the repository.
* The server is not in the repository. Its request handlers are the operations of the library in
  the order of the end-to-end tests, after the checks of `core/validation`; where neither checks
  something, the assumption on the agent is stated above.
* The client's calls (`client/api/client`, `client/class`) each build one HTTP request and keep
  nothing. Of the signer's calls, what they check and sign is part of the actions.
* Fee estimates, broadcasting and `fund_address()` of the oracle ask and return.
* Shapes of strings, conversions of transactions and addresses, parsing of terms. The regular
  expressions and access lists that decide what a program may do are in `CVMState`.
* Funders of `Custody` sign as the client does; what somebody may send who does not use the
  client is outside.
* After a settlement is broadcast, `Custody` stops: the settling of records is in `Escrow`, and
  how they follow the chain in `Oracle`.
* `sort()` of `get_statements()` also reorders the caller's array, which no caller in the
  repository looks at again except `verify_contract_session()`, where it is modelled.

## 7. Plan

1. Larger instances: two funders and two tokens in `custody`, with fewer outputs of each.
