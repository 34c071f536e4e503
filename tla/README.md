# TLA+ models of web3.js (this repository's sample)

This directory holds TLA+ models of the stateful parts of the web3.js sources under
`src/`, the TLC configurations that check them, and `PROJECT.json`. `PROJECT.json` lists
the components, the runs, the seeded faults (mutants), the map from every definition to
the source lines it models, the findings and the hazards.

`spec.md` describes the ABI codec. Only the codec's re-export index
(`web3-eth-abi/src/index.ts`) is under `src/`. The code under `src/` that keeps state or
interleaves is the account wallet and `signTransaction` (`web3-eth-accounts/src/index.js`),
the EIP-1193 base provider (`web3-utils/src/web3_eip1193_provider.ts`) and
`Web3Eth.subscribe` with `fromBlock`, and the ENS `Resolver`, whose methods await the
registry, an EIP-165 check and a contract call in turn. The pure code with hard cases is
`validation.ts`, `getRevertReason` (which decodes revert data with the codec of `spec.md`),
`hashMessage`/`sign`/`recover` and the pre-commit script `check_changelog.js`.

## 1. Inventory

| Component | Source | State | Operations | Interaction |
|---|---|---|---|---|
| Wallet | `web3-eth-accounts/src/index.js` 309-419 | the wallet object itself, used as a map: accounts under their index, checksummed address and lower-case address; `length`; `localStorage[defaultKeyName]` | `create`, `add`, `remove`, `clear`, `encrypt`, `decrypt`, `save`, `load` | calls `Accounts.privateKeyToAccount`, `create`, `encrypt` and `decrypt`; `save` and `load` use `localStorage`, which survives a page reload |
| Accounts | same file, 40-303 | none, apart from the account objects it creates (key, `privateKey` field, bound closures) | `create`, `privateKeyToAccount`, `signTransaction`, `sign`, `recover`, `hashMessage`, `encrypt`, `decrypt` | `signTransaction` sends `net_version`, `eth_gasPrice` and `eth_getTransactionCount` concurrently when fields are missing, then writes the results into the caller's `tx` |
| Eip1193Provider | `web3-utils/src/web3_eip1193_provider.ts` | `_chainId`, `_accounts`, the event emitter | `_onConnect`, `_onDisconnect`, `_onAccountsChanged`, `_getChainId`, `_getAccounts` | a transport subclass calls `_onConnect` and `_onDisconnect`; `_onConnect` runs two concurrent requests whose handlers update the state and emit events; listeners receive `connect`, `disconnect`, `chainChanged` and `accountsChanged` |
| Web3Eth.subscribe / subscriptions | `web3-eth/src/web3_eth.ts` 1555-1611, `web3_subscriptions.ts` | the subscription manager's subscriptions (not in this repository) | `subscribe`, `clearSubscriptions`, `_processSubscriptionResult/Error` | with `fromBlock`, past logs are fetched on `nextTick` and pushed into the live subscription |
| RPC wrappers | `web3_eth.ts`, `net_rpc_methods.ts`, `web3-net/src/rpc_methods.ts` | none | one request per method | request manager (not in this repository) |
| Transaction validation | `web3-eth/src/validation.ts` | none (pure) | shape predicates, `validateGas`, `validateLegacyGas`, `validateFeeMarketGas`, `validateChainInfo`, `validateCustomChainInfo` | called before a transaction is sent |
| Revert reason | `web3-eth/src/utils/get_revert_reason.ts` | none | `getRevertReason`, `parseTransactionError` | ABI error decoding |
| ENS resolver | `web3-eth-ens/src/resolver.ts` | the registry reference | `getAddress`, `getPubkey`, `setAddress`, `supportsInterface`, ... | registry, then an EIP-165 support check, then a contract call |
| ABI codec | `spec.md` (only the re-exports are under `src/`) | none (pure) | parse, classify, encode, decode, selector, error matcher | used by contracts, events and revert reasons |
| Changelog check | `scripts/check_changelog.js` | none | one pass over the staged files | git |

**Hard behaviours.**
- **Wallet.** It is synchronous, but its method contracts interact through a shared
  numbering. `add` gives a new account the index `length`. After a `remove`, `length` no
  longer matches the occupied indexes. `remove` can throw half way, which leaves partial
  effects. `save` and `load` persist the wallet across a reload.
- **Provider.** Two requests per connection are in flight at once. Their replies arrive
  in any order, can fail or lack a result, and can arrive after the transport closed.
  Connections can overlap with replies from earlier connections. The node's chain and
  accounts change independently of the provider.

**What makes them correct.**
- **Wallet.** An account is held under all its names or under none. `length` counts what
  is held. Every account handed out can sign. `clear` empties the wallet. `save` then
  `load` restores it.
- **Provider.** Listeners that follow `chainChanged` and `accountsChanged` know the
  provider's state. Every connection is announced. Account changes are applied. `connect`
  never follows the `disconnect` of the same connection.
- **signTransaction.** Concurrent calls can share one `tx` object, which the continuation
  mutates. A signed transaction has defined fields and a fresh nonce, and every call
  settles.
- **subscribe with fromBlock.** The replay of past logs and the live logs must together
  deliver every log, once, with no gap between `eth_subscribe` and `eth_getLogs`.
- **validateGas.** It dispatches twice, on the fields present and on the type string,
  compared with `>` as strings.
- **getRevertReason.** Revert data from the node is untrusted: a well-formed encoding must
  decode to its error, and a corrupted one must never be reported as a custom error.

## 2. Structure

Each component is one module with its state as `VARIABLES`, one action per operation
or await, `Next` and `Spec`, parameterised by `CONSTANTS`. Each `MC_*.tla` gives the
constants small values, and each `.cfg` names the invariants and properties of one run.
`AbiCodec` is composed into `RevertReason`, which decodes revert data with it. Pure code
(`TxValidation`, `AccountsMessage`) is a set of operators over a variable that ranges
over every input and never changes, so each invariant is checked on every input.
Two components have an abstract specification of what they promise. `ProviderEvents`
is implemented by `Eip1193Provider`, and `ChangelogDecision` by `Changelog`. Each
detailed module instantiates its abstract one with a refinement mapping, and a run
checks the abstract `Spec` as a `PROPERTY`.

## 3. Modules

### Wallet.tla (web3-eth-accounts/src/index.js)

**Variables.**
- `slot` is the wallet object's property table. A property name is an index
  `<<"ix",i>>`, a checksummed address `<<"cs",k>>` or a lower-case address `<<"lc",k>>`.
  A key in `MixedCase` has an address with an upper-case letter. For any other key, both
  spellings are the same property.
- `objs` is the heap of account objects created by `add`. Each object records its key,
  the index it was given, and whether its `privateKey` is still set.
- `length` is `this.length`. `stored` is the `localStorage` entry.

**Modelling choices.**
- The methods are synchronous, so each one is a single action.
- `remove` runs its three "null the key, delete the property" statement pairs in code
  order (`NullAndDelete`, folded over the three names). Reading a deleted property ends
  the call with the effects made so far, as the TypeError does.
- `clear` is a fold of `remove` over the indexes below the length it read on entry.
- `save(password)` is enabled when `encrypt` would not throw; a throwing save changes
  nothing. A keystore (`Keystore`) is a record of the key, version 3, the kdf and a MAC
  that only its password reproduces.
- `load(password)` folds `add` over the stored keystores (`DecryptCall`). `decrypt`
  rejects a keystore whose version, kdf or MAC does not check, and the first rejection
  ends the loop.
- `Reload` empties the in-memory wallet and keeps `stored`.

**Bound.** `MaxAdds` bounds the account objects created between reloads; two passwords.

### Eip1193Provider.tla (web3-utils/src/web3_eip1193_provider.ts)

**Variables.**
- `chainId` and `accounts` are the provider's fields.
- `chainReq[s]` and `acctReq[s]` are the two branches of the s-th `_onConnect`. A branch
  moves idle → sent → arrived (with a reply) → settled.
- `events` is the emitter's output, in order.
- `nodeChain` and `nodeAccts` are the node's state. `NodeSwitch` changes them.

**Modelling choices.**
- A reply is produced from the node's state when the node answers (`ChainReply`,
  `AcctReply`). It can also fail, or lack a result, in which case the code falls back to
  `''` or `[]`.
- The reply is applied later (`ChainDeliver`, `AcctDeliver`), in any order with respect
  to other replies.
- The arrival of a reply, its `.then` or `.catch` handler, and the `Promise.all`
  continuation all run in one macrotask, so they form one step.
- `SameAccounts` is the code's change test exactly as written.

**Refinement.** `ProviderEvents.tla` is what the provider promises its listeners. The
chain id and the account list change only in a step that announces the new value, and
every announcement is a change. `View == INSTANCE ProviderEvents WITH announced <-
ChangeEvents(events)` maps the abstract announcements to the log's chainChanged and
accountsChanged events. The connect and disconnect events, the requests and the node
are hidden. The run checks `ImplementsProviderEvents == View!Spec`.

**Bounds.** `MaxSessions` bounds the connections. `MaxSwitches` bounds the changes of
node state.

**Fairness.** Weak fairness on replies and handlers. The event loop justifies it for
handlers. For replies it is an assumption about the transport: `_onConnect` sets no
timeout, so a request that never settles blocks `connect` forever (the hazard at
provider.ts:90).

### TxValidation.tla (web3-eth/src/validation.ts 30-238)

Every function of the file is an operator: the shape predicates (`isBaseTransaction`,
`isAccessList`, `isTransaction1559Unsigned`, `isTransaction2930Unsigned`,
`isTransactionLegacyUnsigned`, `isTransactionWithSender`, `isTransactionCall` and their
`validate*` wrappers), `validateChainInfo`, `validateCustomChainInfo`,
`validateLegacyGas`, `validateFeeMarketGas` and `validateGas`. Each returns the error it
throws, or `"ok"`. `Init` is a disjunction over three input families, one variable each:
gas transactions `tx`, sender objects `val`, chain-info transactions `chainTx`.
- A field is absent, or one of the string classes the checks tell apart: strict hex, a
  negative hex, a string of two characters that is not hex (`len2`), any other string
  (`bad`), an address, a 32-byte hex.
- The type is kept as its characters, and `StrGt` is JavaScript's string order. The
  code compares the type with `>` and `===`.
- An access list is a record telling an array from another object, with its entries.
- The reference definitions (`TypeValue`, `WellFormedLegacy`, `WellFormedFeeMarket`,
  `WellFormedAccessList`) are the numeric value of a type and the complete transactions
  of the doc comments.
- A fee-market transaction typed `'0x02'` is not in `WellFormedFeeMarket`, which asks
  for `'0x2'`. The code rejects it: `'0x02' < '0x1'` as strings, so the second dispatch
  of `validateGas` goes to `validateLegacyGas`, which throws on the missing gasPrice.
  `WellFormedAccepted` does not cover that input.

### SignTransaction.tla (web3-eth-accounts/src/index.js 36-164)

Concurrent `signTransaction` calls, with callbacks, against a node whose nonce advances
as signed transactions are mined.
- `txo` holds the callers' tx objects, and two calls may share one.
- `pc`, `args` and `obj` hold each call's place, its `Promise.all` entries and its object.
- `Reply` is the node answering one request with a value, null or a failure. A failure
  rejects the `Promise.all` at once. The last answer and the continuation (`Continue`:
  the null check, `_.extend` into the caller's object, `signed`) form one step, because
  nothing else runs between them.
- `Mine` advances the node's nonce past a signed transaction's.
- chainId and gasPrice are abstracted to one value. The nonce keeps its number.
- **Fairness.** `WF` on `Reply`: the node answers every request, an assumption on the
  transport.

### AccountsMessage.tla (web3-eth-accounts/src/index.js 170-202)

`hashMessage`, `sign` and `recover` over JavaScript values as tagged records: text, text
that `utils.isHex` accepts (`"cafe"`), a digest, `undefined`, an object with fields.
`recover` is `RECURSIVE`, as the code is: an object first argument recurses on its
`messageHash`, `v`, `r`, `s`; four arguments recurse on the encoded signature.
eth-lib's signing (not in this repository) is a set of operators whose one property is
the one the code relies on: a signature recovers its signer against the digest it signed
and another address against any other. `in` ranges over every message, key and argument
form of `recover`.

### LogsReplay.tla (web3-eth/src/web3_eth.ts 1555-1610, web3_subscriptions.ts)

`subscribe('logs', {fromBlock})`: the await of `eth_subscribe`, the `fromBlock` test, and
the `nextTick` replay of `getPastLogs`, whose results are pushed into the subscription.
Beside it the other subscription classes, and `clearSubscriptions(notClearSyncing)` with
the filter `shouldClearSubscription`.
- `reg` is the name-to-class table the context was built with: `Web3EthConstructor`
  takes `registeredSubscriptions` (with its aliases `pendingTransactions` and
  `newBlockHeaders`) unless the options bring their own table, which the runs give a
  `SyncingSubscription` under the name `chainSync`.
- `sub[n]` and `data[n]` are the state and the events of the subscriptions under the
  names `Others`. `OnNotify` is the result or error handler of their class.
- `shouldClearSubscription` tests the class (`instanceof SyncingSubscription`), not the
  name.
- The node and the socket are the environment. `chan` is one FIFO socket carrying
  replies and notifications. Every block holds one log, named by its block number, and
  sends every other live subscription a notification, which may carry an error.
- `OnPastLogs` pushes every past log, or an error, without checking that the
  subscription is still registered. `OnLog` and `OnNotify` are the subscription manager's
  delivery, which drops the notifications of a removed subscription.
- A logs subscription whose `eth_subscribe` is outstanding is not yet the manager's, so
  a clear leaves it alone.
- **Fairness.** `WF` on the node's answers and on the client's handlers. The client's
  event loop handles every socket message. The caller and the chain may stop.

### Resolver.tla (web3-eth-ens/src/resolver.ts)

Two callers call the resolver's methods while the name owners repoint names in the
registry (`SetResolver`, at most `MaxChanges` times).
- `pc[c]` follows a call through its awaits: `resolving` (getResolverContractAdapter),
  `checking` (supportsInterface of checkInterfaceSupport), `calling` (the record method),
  then `done` or `threw`. `res[c]` is the resolver contract the call obtained.
- `records[r][n]` is what resolver `r` holds for name `n`; `setAddr` writes it.
- `IfaceOf` stands for `interfaceIds[methodsInInterface[m]]` of config.js (not in this
  repository); a method without an interface id throws before any request.
- `supportsInterface(name, id)` sends a strict hex id as given, and any other string as
  the first four bytes of its sha3 (`interfaceIdParam`, with `Sha3Id` for the hash).
  It throws on `''`.
- Any request may fail, and a resolver at the zero address has no code, so its calls
  fail.
- **Fairness.** `WF` on the three answers of each call: the node answers every request.

### Changelog.tla (scripts/check_changelog.js)

The pre-commit script: `git diff --cached --name-only`, a `forEach` over the staged paths
into a `Map` from package name to two flags, a loop over the `Map` in insertion order,
and the exit status. A path is a sequence of segments; the regex
`/packages\/([^/]+)/`, the code-file regex and `endsWith('CHANGELOG.md')` are tables over
segments (`EndsPackages`, `CodeSegs`, `ChangelogSegs`). `GitFails` is the `catch`, which
exits 0. Staged lists are every list of up to three distinct paths of nine.
- **Refinement.** `ChangelogDecision.tla` is what the script promises. Its variable
  `git` is `"unasked"`, `"answered"` or `"failed"`. `Ask` is git giving the list. `Decide`,
  once git has answered, exits 1 exactly when some package, as the script's tests judge
  paths, has a code change and no changelog, and 0 otherwise. `Skip`, the only other way
  to exit, takes git from unasked to failed and exits 0. `Changelog` instantiates it with
  the same constants, `staged` and `exit`, and `git` read off the phase (`"start"` is
  unasked, `"caught"` failed, any other answered). The run checks
  `ImplementsDecision == Decision!Spec`. A script that exits 0 after a successful
  `git diff` with an unlogged change does not refine it. So the `forEach`, the `Map` and the loop
  over it must together compute the decision, and the script must reach it.
- **Fairness.** `WF` on `Next`: the script is sequential, so once started it runs to its
  exit.

### AbiCodec.tla (spec.md 4.2-4.6, spec-modelled)

Only the codec's re-export index is under `src/`, so this module is modelled from the
spec. A type is a record (`UintT`, `IntT(n)`, `AddressT`, `BytesNT(n)`, `BoolT`,
`BytesT`, `StringT`, `DArrayT`, `FArrayT`, `TupleT`).
- `IsDynamic`, `StaticWords` and `HeadSize` are the classifier and the static sizes.
- `Enc` and `EncList` are the head/tail encoder. Offsets are in bytes, from the start of
  each region. A uint is written modulo the word, an address modulo its bytes, and an
  int in two's complement over the whole word, so an out-of-range value that escaped
  its check would not decode back. Fixed bytes are one word, left-aligned.
- `EncodeChecked` runs the 4.3 checks (`EncError`) before encoding. They are
  ValueOutOfRange for uint, int and address, ByteLengthMismatch for fixed bytes longer
  than declared, and TypeValueMismatch for a fixed array or tuple of another arity.
- The decoder's `Signed` reads an int from the low bytes of its declared width. Every
  int the encoder writes is sign-extended over the whole word, so on the encoder's
  output this read gives the same value as a full-width one. The runs do not tell the
  two apart.
- `DecAt`, `DecPointer`, `DecTail`, `DecList` and `DecItems` are the decoder. It checks
  that offsets are multiples of the word and not past the buffer, that every region
  fits, that bools are 0 or 1, and that arrays stay within `MaxElems`.
- `MatchAndDecode` is the error matcher. It always tries Error(string) and
  Panic(uint256), and it separates NoMatch from FragmentDecodeError.
- A word is `W` bytes of radix `Base`, held as its number. The runs use 2 bytes of
  radix 16, so offsets and lengths follow the real arithmetic on a shorter word. A
  selector is the name with the canonical type list, because hashing is out of scope.

### RevertReason.tla (web3-eth/src/utils/get_revert_reason.ts 28-88)

`GetRevertReason` is the one step. The call succeeds, or it throws one of the error
shapes the request layer builds, and `parseTransactionError` turns the error into the
result.
- With a contract ABI, the revert data is decoded against the ABI's error fragments
  (`ErrorsAbi`, `decodeContractErrorData`).
- `CorruptPayloadRejected` assumes that `decodeContractErrorData` leaves `errorName`
  undefined when the selector matches and the payload fails to decode. That is the
  FragmentDecodeError of spec 4.6; the codec is not under `src/`.
- `MC_RevertReason` builds the revert data by encoding every argument list of a small
  value domain for each fragment. The ABI has three errors and a function, and there is
  one error outside it, plus the standard two.
- Each encoding is used exactly, with a spare zero word, cut short by a word, with its
  first tail offset set to the data's length, and with a bool word set to 2.
- `Probes` are type and value lists at and one past the edges of every type's range,
  with fixed bytes shorter, equal to and longer than declared, and arrays and tuples of
  the wrong arity. The variable `probe` ranges over them and never changes, as the
  inputs of the pure modules do.

## 4. Runs

| Run | cfg | Expect | Shows |
|---|---|---|---|
| wallet_safety | MC_Wallet.cfg | pass | The two address spellings always agree, `length` ≥ the used index slots, and a `save` with any password writes a keystore for every account held with its key, over every sequence of add, remove, clear, save, load and reload (3 keys, one all-lower-case; 2 passwords; MaxAdds 4; 51744 states) |
| wallet_held_keys | MC_Wallet_HeldAccountsHaveKeys.cfg | violation | add, add, remove(0), add, remove(address): an account still held loses its private key |
| provider | MC_Eip1193Provider.cfg | pass | The provider implements `ProviderEvents`: `_chainId` and `_accounts` change only with an event carrying the new value, and no such event is emitted without a change; and every `_onConnect` is eventually announced by `connect`, with failing requests (2 connections, 1 node switch; 395632 states) |
| provider_accounts_change | MC_Eip1193Provider_AccountsChangeApplied.cfg | violation | A different account list of the same length is ignored |
| tx_validation | MC_TxValidation.cfg | pass | `validateGas` accepts only one gas family with non-negative prices and every complete legacy and fee-market transaction; a sender object accepted has one complete fee family; `validateChainInfo` lets through only unambiguous chain information (40629 inputs) |
| sign_safety | MC_SignTransaction.cfg | pass | Every call that waits on the node settles, signing or rejecting, whatever the node answers (2 calls, 2 shared objects, MaxNonce 2; 126902 states) |
| recover_sign | MC_AccountsMessage_RecoverInvertsSign.cfg | violation | `recover` of what `sign` returned throws (object form) or names another address (hex-looking message) |
| logs_replay | MC_LogsReplay.cfg | pass | With a numeric fromBlock every log mined while subscribed is delivered, or an error is, whatever the order of the replay's answer, the node's pushes and `clearSubscriptions` (fromBlock 0, 1 or undefined; 2 blocks; 2 contexts; 105140 states) |
| logs_duplicate | MC_LogsReplay_NoDuplicateData.cfg | violation | A log mined between `eth_subscribe` and `eth_getLogs` is delivered twice |
| revert_reason | MC_RevertReason.cfg | pass | Well-formed revert data decodes to its error and arguments, corrupted data is never reported as a custom error, and the checked encoder rejects exactly the values outside their types and round-trips the rest (161919 states: every result with every probe) |
| resolver | MC_Resolver.cfg | pass | An address record is only written into a resolver that supports it, and every call settles, while the registry is repointed twice under two callers, with supportsInterface given an id, a signature or '' (44680 states) |
| changelog | MC_Changelog.cfg | pass | Once git lists the staged files, the exit status is 1 exactly when a package, as the script's tests judge paths, has a code change and no changelog; it is 0 without a verdict only when git fails; for every staged list of up to three paths: the script implements `ChangelogDecision` (5595 states) |

Each property of a passing run has a mutant in PROJECT.json, a plausible bug in the
modelled code that TLC finds. Examples are an index one past `length`, an early
decrement in `remove`, a reply handler that reads a stale list, `fromBlock` tested for
truthiness, an int range one too wide, encoder offsets without the head, a resolver
fetched again before the call, and a Map entry created afresh for every file.

**Also fails.** Some properties are stated in the modules but checked by no run, to keep
the run count small. TLC finds each of them violated, as the hazards in PROJECT.json
record:
- `RemovedAccountIsGone`, `ClearEmptiesWallet` and `SavePossible` (Wallet);
- `AcceptedGasNonNegative`, `AcceptedLegacyTypeIsLegacy` (type `'0x02'` with legacy gas
  is accepted as legacy) and `SenderTypeIsHex` (a two-character type that is not hex
  passes `isBaseTransaction`) (TxValidation);
- `SignedValuesDefined`, `CallbackCalled` and `NonceNotStale` (signing the same object
  again reuses the nonce written into it) (SignTransaction);
- `ConnectBeforeItsDisconnect` (replies that settle after the transport closed still
  emit `connect`, after `disconnect`) (Eip1193Provider);
- `DataInBlockOrder` and `NoDataAfterUnsubscribe` (LogsReplay);
- `ChangelogOfEveryChangedPackage` (`test-packages/p1/a.ts` counts as package `p1`, and
  `docs/CHANGELOG.md` or `OLD_CHANGELOG.md` count as the package's changelog) (Changelog).

**Why the bounds are enough.**
- **Wallet.** Its bugs need at most three accounts and five calls; two passwords tell a
  load with the right password from one with the wrong one.
- **Provider.** Reordering needs two connections. The same-length change needs two
  one-element lists.
- **SignTransaction.** Sharing needs two calls and a shared object. A stale nonce needs
  one mined transaction, so `MaxNonce` is 2.
- **LogsReplay.** The gap needs a block mined between the subscription and the replay,
  and fromBlock 0 separates a truthiness test from a nullish one. Two blocks are enough
  for it, and a third only multiplies the interleavings. Two contexts, the provider
  with the default table and options that register `SyncingSubscription` as `chainSync`,
  let `clearSubscriptions(true)` keep subscriptions alive under either name while the
  logs subscription is cleared.
- **Resolver.** A stale resolver needs one call and one repointing between its awaits;
  two resolvers, one supporting addr and name and one pubkey only, make both the
  supported and the unsupported case reachable; a second repointing and a second caller
  let a stale call and a fresh one overlap.
- **Changelog.** Three paths give two packages with a code change and a changelog in
  either order, and the nine paths include every way a path fools a test.
- **Codec.** Strings of 0, 1 and 3 bytes cross a 2-byte word boundary. Arrays of up to
  two strings put two offsets in one region, and `FArrayT(2, BytesT)` is a dynamic fixed
  array. The probes sit at and one past each range's edges, which is where an
  off-by-one in a range check or a sign bit shows.

`CHECK_DEADLOCK FALSE` is set where the system really stops: the provider once its
bounded connections are used; signTransaction and the resolver once every call has
settled; the subscription after its last block; getRevertReason and the changelog script
after their one pass; the recover run's one state. The wallet is never stuck, and the
pure TxValidation steps by stuttering, so both keep the deadlock check.

## 5. Findings (details in PROJECT.json)

1. `Wallet.add` reuses an occupied index after `remove`. A later `remove` then nulls the
   private key of an account that is still held (index.js:352).
2. `_onConnect`'s accounts change test compares the new list with itself
   (provider.ts:108).
3. `recover`'s object branch reads `messageHash`, which `sign`'s result does not have, so
   `recover(sign(m, k))` throws in `hashMessage(undefined)`; and `recover(m, signature)`
   treats a message that looks like hex as the digest (index.js:191, 171).
4. `subscribe` with `fromBlock` delivers the logs mined between `eth_subscribe` and
   `eth_getLogs` twice, and replays older logs after newer live ones (web3_eth.ts:1579).

## 6. Not modelled

- **Cryptography** (signing, hashing, scrypt and pbkdf2, ciphers, selectors' keccak):
  out of TLC's reach and stateless; the models keep only the property the code relies on.
- **`create` and `privateKeyToAccount`**: key generation and derivation, cryptographic.
- **RPC wrappers and net methods** (`web3_eth.ts` outside `subscribe`,
  `net_rpc_methods.ts`, `web3-net`): each forwards one request to the request manager
  and formats its answer; there is no state and no control flow to check.
- **The request manager, subscription manager, transports and config.js**: not in this
  repository. They appear only as the environment of the models.
- **The codec's type-string parser** (spec 4.1): it works on signature strings
  character by character, and only the codec's re-exports are under `src/`.
- **Type declarations, configs, fixtures and tests**: no behaviour.
- **Corrupt `localStorage` content** (JSON.parse failure in `load`): nothing in this
  code writes it.
