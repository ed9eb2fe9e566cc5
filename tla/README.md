# A TLA+ model of WarpScope

WarpScope reads three chains and says why a cross-chain (Warp/Teleporter)
message did not arrive. It keeps nothing between runs and writes to no chain;
what makes it hard to get right is that one diagnosis is a pipeline of remote
calls, that each call may fail with its error dropped, that the chains move on
between two calls, and that a single verdict is drawn from what was gathered.
This directory models that pipeline, the command around it and the checking of
signatures, checks them with TLC and proves their central properties with TLAPS.

    tlc -workers 2 -config Delivery.cfg MCDiagnosis
    tlc -workers 2 -config Command.cfg MCCommand
    tlc -workers 2 -config Signing.cfg MCSigning
    for p in Sum Checks Diagnosis Verdict Refinement Command Signing; do tlapm ${p}Proofs.tla; done

## The system

| part | code | state | operations | what makes it correct |
|---|---|---|---|---|
| diagnosis engine | `internal/diagnosis/engine.go` | the data gathered so far, one report | `Diagnose`: seven remote calls, the range of blocks, checks, root cause | the verdict is true of the chains, or follows from evidence; the run ends |
| checks, report | `checks.go`, `report.go`, `categories.go` | none | seven checks, root cause, summary | each check says what the data shows; severity and order decide the root cause |
| validator sets | `internal/validator` | none | canonical set, `Diff`, epoch heuristic | the set is in key order; a change is noticed; heights are compared before they are subtracted |
| BLS | `internal/bls` | none | bitset, threshold, `Verify` | the threshold is the quorum inequality; a valid result means the signers signed |
| chain clients | `internal/chain/evm.go`, `pchain.go` | a connection | one query per call | the first matching log, the set at the height asked for |
| smart mode | `internal/cli/diagnose.go`, `internal/chain/smart.go` | the options | three passes that fill in options | a failure leaves a harmless option, the estimate is near the true height, no call hangs the command |
| diagnose command | `internal/cli/diagnose.go` | the options, the deadline | runs smart mode, the engine, the output | it asks about the message's own subnet, and its exit code can be trusted |
| validators command | `internal/cli/validators.go` | none | one query, two sums, the quorum line | the quorum line tells whether the quorum can be reached |
| Warp decoding | `internal/warp` | none | parse messages and logs | bytes that do not parse are refused |
| output, demo, command tree | `internal/output`, `cmd/demo-run`, `internal/cli/root.go` | none | print, register | formatting |

`runDiagnose` lets smart mode fill in the options, starts a context of two
minutes, dials the clients and calls `Engine.Diagnose`. The engine reads the
source chain (the send event), the P-Chain (height, signing set, current set)
and the destination chain (head, receive event, failure event), hands a
`DiagnosisInput` to the checks, which use `validator` and `bls`, and assembles
the report that `output` prints. The engine is one goroutine; the concurrency
is between it and the chains, and between its calls and the deadline.

## Modules

| module | models |
|---|---|
| `GoTypes` | nil, and `uint64` arithmetic modulo `Word` |
| `Bls` | `internal/bls`: bitset, threshold, `Verify`; an aggregate signature is the message and the keys it was made with |
| `Validators` | `internal/validator`: canonical sets (a set of possible results, as `sort.Slice` is not stable), `Diff`, `DetectEpochBoundaryRace` |
| `Chains` | the chains as an environment (`pchain`, `head`, `logs`, `receipt`) and what the clients answer about them: `RegisteredInfos` for `GetValidatorsAt`, `CurrentInfos`, with the keys of the signers, for `GetCurrentValidators` |
| `Checks` | the seven checks, `runChecks`, root cause, summary, as operators on a `DiagnosisInput` |
| `Diagnosis` | `Engine.Diagnose`: `pc` is the next call, `in` the `DiagnosisInput`, `range` the searched blocks, `expired` the context, `report` the result; `lost` remembers, for the properties only, which calls failed |
| `Attribution` | the promise, without the pipeline: one verdict, in the end, that is true of the message but for two excuses: it was not looked for where it is (`overlooked`), or the search for its revert was lost (`lostSight`) |
| `Refinement` | the mapping from `Diagnosis` to `Attribution` |
| `Claims` | what docs and messages say and the program does not keep |
| `Signing` | the way of a signature: a relayer (external) takes the registered keys, collects signatures while the P-Chain moves on, publishes an aggregate; `Inspect` is WarpScope reading it, `Diagnose` the engine of `Diagnosis` with it in its input |
| `Command` | one `warpscope diagnose`: `stage` is where `runDiagnose` is, `opts` the options as smart mode fills them in, `late` the context of the smart call, `txTime` and `seen` smart mode's locals, `clock` and `mined` the time; the engine of `Diagnosis` runs in stage `engine` |
| `MCDiagnosis`, `MCSigning`, `MCCommand` | the instances TLC checks |
| `SumProofs` | lemmas about sums over finite sets, and counting |
| `ChecksProofs` | theorems and proofs about the operators: canonical sets, `Diff`, the checks, root cause and summary |
| `DiagnosisProofs`, `VerdictProofs` | theorems and proofs about `Diagnosis`: types and evidence, the verdict and the warnings |
| `RefinementProofs` | proof that `Diagnosis` implements `Attribution`, liveness aside |
| `CommandProofs` | theorems and proofs about `Command` |
| `SigningProofs` | theorems and proofs about `Signing`: bitset, canonical order, verdicts |

`Diagnosis` EXTENDS `Checks`, `Chains`, `Validators`, `Bls` and `GoTypes`, each
the next. One action is one remote call with everything the code does with its
answer: `GetHeight` computes the signing height, `GetValidatorsAt` decides
whether the signing set stands for the current one, `FindReceive` decides
whether a revert is looked for. Each has a branch for an answer and one for a
failure. `GetNetworkID` changes nothing, its result being unused, and is part
of `GetHeight`. `Environment` may take any number of steps between two calls.

`Command` EXTENDS `Diagnosis` and composes it with smart mode: `EngineCall`,
`EngineDeadline` and `ChainsMove` are the engine's, its deadline's and its
chains' own actions, and `DialClients` gives the engine the configuration that
`Diagnosis` on its own leaves open. `ValidatedBy`, which a unit test cannot
make hang, has its pass's context like every smart call: `SmartDeadline` ends
the context, `late` lets a call only fail. `fallbackSubnetAndHeight` is
`FallBack`; the end of passes 2 and 3 are `ToSubnetPass` and `ToHeightPass`, as
no call lies between a pass's end and the next one's beginning.
`extractSourceChainID` is `SourceMessage`, a parser of the receipt next to the
client's `FirstSend`, over the receipt of an earlier call.

`Signing` EXTENDS `Diagnosis` as well: every call of steps 3 and 4 remains an
action that may fail, with the P-Chain growing between them, and the signature
is in the `DiagnosisInput` from before the first call. What
`checkBLSSignature`, `Verify` and the bitset then say is held against what
really was signed. The deadline is left out there, as a run in which it passes
is one in which the calls from then on are lost.

Operators marked *Slip* are plausible mistakes in the operator below or near
them. Nothing uses them; putting one in place of the right operator makes the
properties fail that `PROJECT.json` names for it.

Taken from outside the program, and so assumed:

- Teleporter delivers a message at most once, and the log of a revert is in the
  block of the delivery. A reverted message may be retried with success, once,
  in a later block; `WarpScope` does not look for that (`MessageExecuted`), and
  the promise in `Attribution` is about the delivery for that reason.
- The Warp message id in the source log is the id Teleporter's logs carry, as
  the engine uses the one to search for the other.
- `FilterLogs` answers from the blocks that exist, in block order, and blocks
  are final once seen.
- A key is a number in the order of its bytes, and a P-Chain reply names a
  node once. The clients never return a key of a wrong length; another
  `PChainClient` could, which `FromValidatorInfos` models by `BadKey`.
- A validator has a registered key, or none, and a signer in the reply of
  `getCurrentValidators`, or none. The program takes the one for the signing
  set and the other for the current set. The signer may be missing or may be
  bytes that are no key whatever is registered (`Members`); if it is a key, it
  is the registered one, since a proof of possession is what registers it.
- A client that does not decode (`decodes = FALSE`) stands for implementations
  of `EVMClient` other than `evmClient`, such as the tests' fakes: the
  engine's tolerant parsing is only reached with one.
- An aggregate signature verifies exactly for the message it was made for and
  each of the keys it was made with, once.
- A relayer makes it as avalanchego does, of which the repository says only
  that the keys are sorted (`set.go:36`, its README): validators that share a
  key are one signer with one bit, and `BitSetSignature.Signers` are the
  big-endian bytes of a number, without zero bytes in front. Neither `set.go`
  nor `bitset.go` says so, and the program does otherwise in both respects
  (`shared_keys`, `misread_bitset`). In which order the keys are numbered is
  left open, and is a premise where it matters. The relayer may publish an
  aggregate for another message, with more bits set, with bytes that do not
  parse, or bytes of which `ParseSignedMessage` makes nothing.
- `Inspect` takes the part of a caller that hands the engine a signed message
  (`ParseSignedMessage` exists, and has no caller), with any height. When it
  returns an error the diagnosis goes on without a signature, as it does when
  none was given.
- While smart mode works, the P-Chain accepts a block every `BlockSecs` ticks:
  the premise of `EstimatePChainHeight`, without which its result means
  nothing. The machine's clock is the chains', the source chain's may be ahead
  by `Skew`. From `Validate` on no one looks at the time, so that it is reset.
- `pchain` is the history of the subnet the engine asks about; which one that
  is, is told by `opts.subnet`. What the destination accepted before the engine
  starts is the same to it as what it accepts as it starts, so the destination
  moves only from then on.
- `main` is not in the repository: exit code 1 stands for the error that
  `Execute` returns.

## Runs

| run | question | bounds |
|---|---|---|
| `delivery` (566,440 states) | Is the verdict right while relayers deliver, calls fail and the deadline passes? | six receipts (none, no Warp log, one message behind a foreign log, wrong network, garbled bytes, two messages); six configurations (recent blocks, a tolerant client, a first block without a last one, explicit ranges within and beyond the chain, no destination); four heads, a window of one block, P-Chain of two blocks |
| `churn` (502,016) | Are the P-Chain warnings true while the P-Chain grows? | five validator sets (joining, leaving, a changed stake, a shared key, no key, registered keys without a usable signer), four blocks, signing heights 0 to 4, epochs of two blocks |
| `termination` (51,777) | Does `Diagnose` return, and does it implement `Attribution`? | as `delivery`, one block shorter, no P-Chain growth, under fairness |
| `signing` (2,250,828) | Does a signature pass exactly when it should, at whatever height it is checked? | eight validator sets (three validators, with equal stakes or not, two that left, swapped keys, a shared key with even and with uneven stakes, a missing key and a missing signer, none at all), two P-Chain blocks, signing heights 0 to 2, two messages, bytes of two bits |
| `command` (180,748) | What becomes of a command when smart mode's calls fail, hang or come apart in time? | nine command lines, four receipts (none yet, no message, two messages of different subnets, the first garbled), a clock of four ticks with a block every two, a source clock up to two ahead, one destination block |

`delivery` checks `FaithfulAttribution` (when no call to the destination was
lost, the root cause is the true one, whatever else failed or changed),
`HealthyMeansDelivered`, the invariants that give the reasons for both
(`EvidenceHolds`, `VerdictGrounded`), `SummaryQuotesRootCause`, and
the two facts about the searched range:
`SearchedRangeIsSettled` (nothing that happens later changes what it holds) and
`RecentDeliveriesAreSearched` (it holds everything recent). The epoch is one
block there, so that warnings fail in the same reports. `churn` checks
`FaithfulChurn` (a churn warning is given only if the stakes differed, or if a
registered key was missing in the current reply: the two sets take their keys
from different replies), its reason `SetsSeen` (the two sets are what the two
calls answer at the heights they are compared under), `EpochWarningIsReal`
(although the subtraction wraps around) and `EpochHeuristicsAgree`.
`termination` checks `Terminates` and `KeepsPromise`.

`KeepsPromise` is what a verdict is worth whatever was lost: never picked up is
said only of a message that was not received, or not looked for where it was;
healthy only of one that did not revert, or whose revert could not be looked
for; a wrong network and a failed execution only where they are true.

`signing` checks both directions of a verdict: `ValidMeansSigned` (a passing
signature has the quorum of the set it is checked against behind it, though
positions, keys and stakes may all be of another height, and however the
bitset is read) and `QuorumIsRecognised` (at the height it was made at, a
quorum's signature passes where nobody shares a key and the bitset is one byte,
though the sort is not stable and bits may be set behind the last signer). That
it need not without these two is what `shared_keys` and `misread_bitset` show.
`SignatureTraced` is what both rest on: the sets are what the P-Chain had at
the two heights, and the aggregate is what the relayer made.
`OnlyQuorumGoesUnexplained` is about refusals without an error.
`UnchangedKeepsVerdict` says what a set called unchanged is good for, and
`NoKeyRotated` names where that ends: `Diff` does not see a rotated key.
`ThresholdsAgree` compares the two places the threshold is written in integers.
Validators that share a key and differ in stake are left out of some of these
(`EvenKeys`): a bit may be credited with either stake.

`command` checks `EstimateIsClose` (never more than a block above the height
at the transaction's time, and below it by no more than the blocks accepted
between the two reads), `FallbackAccusesNobody` (a height that could not be
estimated leads to no accusation of the validators),
`SubnetOfDiagnosedMessage` (smart mode's parser and the client's, over two
readings of the receipt, agree on the message), `OptionsGrounded`, which gives
the reasons for the last two, `ExitZeroMeansDelivered` and `CommandReturns`.

The P-Chain of `command` has one validator set, so that its runs of the engine
see no churn; of smart mode's effect on the churn check, only the theorem
`FallbackNeverAccuses` speaks for sets that change. With two sets TLC takes
four minutes and finds nothing else.

A window of one block against heads 0 to 3 gives a chain shorter than the
window, as long, and longer. Explicit ranges are `1..2` and `2..7`, one inside
and one beyond the chain. In `churn`, four heights let the P-Chain pass before,
between and after the calls, and a signing height of 4 may not exist yet.
`Word` is 256, so that differences of heights wrap around. In `signing`, bytes
of two bits let three keys need two bytes and two keys one, and a published
bitset may exceed the set by a byte. In `command`, `Word` is 16, so that a negative age,
made unsigned, is a large number of blocks; the transaction may be accepted
before the command, between any two of its calls, or never; a transaction from
the future, one of the first block and one older than the chain's growth all
occur. No symmetry is used.

Fairness: `WF_vars(Deadline)`, since `context.WithTimeout` fires whatever the
calls do, and `WF_vars(expired /\ EngineStep)`, since after that every client
call returns with the context's error and the engine never blocks. Nothing is
assumed of calls before the deadline, and nothing of the chains. `command` adds
the same for smart mode's contexts (`SmartDeadline`, then `late /\ SmartCall`),
and weak fairness of what runs on the machine itself (`Begin`, `Validate`,
`Finish`). No call is assumed to be answered, nor time to pass.

### Where the program and its documentation differ

Each of these runs checks one property, of `Claims` or `Signing`, and ends in a
counterexample.

| run | said | done |
|---|---|---|
| `lost_search` | README: never picked up means absent on the destination | a failed search counts as an empty one |
| `lost_height` | "Validator set unchanged between P-Chain heights a and 0" | the set was compared with itself |
| `keyless_stake` | README: BLS-capable weight against the total | against itself: validators without a key are not in the total |
| `threshold_overflow` | `threshold.go:13`: the exact inequality | both products are `uint64` and wrap around |
| `churn_removed` | "%d validator(s) removed since signing height", README, `categories.go:21`: validators removed | any difference counts, a validator that joins as well |
| `misread_bitset` | `bitset.go:19`: the bits that are set in `BitSetSignature.Signers` | the bytes are read from the other end; right for one byte only |
| `shared_keys` | `set.go:37`: exactly the ordering of the bitset | the bitset has a bit per key, the set an entry per validator |

`misread_bitset` and `shared_keys` each leave the other difference out (nobody
shares a key; one byte), and rest on what is assumed of avalanchego above.
`keyless_stake` uses a `Word` large enough that no product wraps around;
`threshold_overflow` the 256 of `churn`, which stands for 2^64 as stakes of 3
stand for some 10^17 nAVAX.

Other differences can be read off the model, where no run is spent on them:

- A report is HEALTHY when no critical check failed (`Report`), warnings or not;
  `categories.go:9` says "all checks passed".
- Message bytes that do not parse end a diagnosis with `evmClient`
  (`SendEventUnreadable`); `engine.go:105` says that they do not.
- With JSON output an unhealthy report leaves with exit code 0 unless writing it
  fails (`ExitCodes`); the README promises exit code 1 under "JSON Output for CI
  / Scripting".
- A validator without a signer in the reply counts as having no key
  (`CurrentInfos`); `types.go:47` says that it has registered none.
- The validators command divides the weight of the validators with keys by the
  weight of the same validators, so that its quorum line says 100% or 0%
  whatever the subnet; `validators.go:31` means it to warn of those without.

## Proofs

Every invariant and every safety property of the passing runs is a theorem, for
every value of the constants under the named assumptions of the modules
(`WordAssumption`, `ByteBitsAssumption`, `ValidatorAssumption`,
`ChainAssumption`, `QuorumAssumption`, `NilAssumption`, `EngineAssumption`,
`CommandAssumption`). These say what kind of thing a constant is, and besides:
keys are numbers, a P-Chain reply is finite and names a node once, a signer
that is a key is the registered one, nil is nothing else, the quorum's numbers are not zero (`Diagnose` puts 67 and 100 for
0), the grace period is not longer than an epoch. TLC evaluates them in each run.

Some theorems about signatures have premises of their own:

- `ProductsFit`: for every set the P-Chain may have, stake times 67 and times
  100 stay below `Word`. The code takes it for granted, `threshold_overflow`
  shows what happens without it, and without it those theorems are false.
- `0 \notin Weights` for `ThresholdsAlwaysAgree`. `Verify` does not refuse a
  total of zero: signers without any stake would be a quorum of it.

`QuorumIsRecognised` has its premises, `DistinctKeys`, a bitset of one byte and
the order of the relayer's keys, in its own statement.

`MCSigning` assumes the former (`SmallStakes`), so that TLC finds them true of the
instance that `signing` checks.

### Sums and sets

`SumProofs` is what the rest needs about `SumFunctionOnSet`, which the library
defines by recursion and says nothing about. Induction over data is out of the
prover's reach where the property is a parameter, so each lemma picks the
smallest number of summands for which it fails, and takes one of them away:
sums of naturals are naturals (`SumIsNatural`), keep their value when the terms
are renumbered (`SumRenumbered`), and bound their terms (`TermAtMostSum`).

`ChecksProofs` holds what is true of the operators in whatever state they are
used:

- `CanonicalSet` and `CanonicalSetType`: a canonical set holds every validator
  of the reply that has a key, once, in key order.
- `EmptyDiffMeansSameStakes`: `Diff` is empty exactly if the same validators can
  sign, with the same stakes, though `Diff` compares maps built of two unstably
  sorted lists.
- `HeuristicsAgree`: the epoch check, which subtracts before it compares and
  has no grace period, decides as `DetectEpochBoundaryRace`, because the grace
  period does not exceed the epoch.
- `RootCauseOf` turns seven checks and two searches for a first element into a
  decision on three fields of the input; `SummaryIs` says when the first failed
  check is not the first critical one.

### The diagnosis

`DiagnosisProofs`:

- `TypeCorrect`: `Spec => []TypeOK`, one lemma per call.
- `HeuristicsAlwaysAgree`, from `HeuristicsAgree`.
- `EvidenceHoldsAlways`: `Spec => []EvidenceHolds`. `HealthyMeansDelivered` is
  not inductive: that the report is healthy has to be traced back through the
  checks to the events found, these to the logs that were in the range when
  they were found, and that no failure was found to the failure's block being
  the delivery's. `EvidenceHolds` adds what holds at each `pc`
  (`GatheredSoFar`), where the receive event comes from (`ReceiveSeen`), what
  the absence of a failure event means (`RevertSeen`), that healthy rests on
  these (`HealthyFromEvidence`), and what the chain guarantees
  (`DeliveredOnce`). `QuietStep` covers the five calls that gather nothing
  about the destination; `EnvironmentEvidence` shows that no later block
  spoils what was gathered.
- `HealthyIsDelivered`: `Spec => []HealthyMeansDelivered`, from it.

`VerdictProofs` builds on it:

- `VerdictAlwaysGrounded`: `Spec => []VerdictGrounded`. This is what the rest
  needs beyond `EvidenceHolds`: the event diagnosed is that of the receipt's
  first message (`SendSeen`), the height read is one the P-Chain has
  (`HeightSeen`), blocks to come lie after the searched ones (`RangeSettled`),
  an event not found by a call that was answered is not there (`AbsenceSeen`),
  a failure found is there (`FailureSeen`), and the report is drawn from these
  data (`ReportDrawn`). `StepFrame` and `ChainGrows` say what a step leaves
  alone; each part then has a lemma of its own.
- `AttributionAlwaysFaithful`: `Spec => []FaithfulAttribution`, from
  `RootCauseOf`; `VerdictGrounded` compares the fields with the chains.
- `SummaryAlwaysQuotes`: without a signature, only the first three checks can
  fail critically, and they come first (`CriticalOnes`).
- `SearchAlwaysSettled` and `RecentAlwaysSearched`: `Spec` implies the two
  action properties of the range, the second by `MinusInRange`.
- `EpochWarningAlwaysReal`: `Spec => []EpochWarningIsReal`, from `HeightSeen`
  and `WholeEpochs`.
- `SetsAlwaysSeen`: `Spec => []SetsSeen`. `FaithfulChurn` speaks of the report,
  so what the sets are has to be known at every `pc` before: which are still to
  come (`SetsPending`), that the signing set is that of the signing height
  (`SigningSetSeen`), that the current one is what the reply shows at a height
  the chain went through since the height was read, or the signing set itself
  (`CurrentSetSeen`), and that a height is unknown only if its call was lost
  (`UnknownHeightWasLost`).
- `ChurnAlwaysFaithful`: `Spec => []FaithfulChurn`, from it,
  `EmptyDiffMeansSameStakes`, and `SameStakesReported`: where every registered
  key has its signer in the reply, both calls tell of the same stakes.

`RefinementProofs` proves `KeepsPromiseAlways`: `Spec => KeepsPromiseSafely`,
that is, `Diagnosis` implements `Attribution` without its liveness. `FateSteps`
maps the chain's steps to a delivery, a retry or nothing; it needs that only
what failed is retried (`RetriedAfterFailure`). `VerdictJustified` shows that
the report's verdict is one that may be concluded, from `EvidenceHolds` and
`VerdictGrounded`: an event that was not found was not in the blocks searched
(`AbsenceSeen`), so that it was not received yet or lies elsewhere. Losing
sight of a revert is an engine's step in which `FindExecutionFailedEvent` is
lost; `OverlookedStep` shows that once the tool has not looked where the
message is, no later step makes up for it.

### The command

`CommandProofs` builds on `DiagnosisProofs`:

- `CommandTypeCorrect`: `CommandSpec => [](CommandTypeOK /\ KeepsPace)`. Type
  correctness needs `KeepsPace`, since the estimate is a height only if what it
  was made of is one; `KeepsPace` ties the length of the P-Chain to the clock.
- `EstimateAlwaysClose`: `CommandSpec => EstimateIsClose`, from `KeepsPace` and
  `EstimateBounds`, which is about the arithmetic alone: the quotient of the
  age is at most the blocks since the transaction's time, and less by at most
  one. `WholeBlocks` and `MoreBlocks` are the facts about division it takes.
- `ExitZeroIsDelivered`: `CommandSpec => []ExitZeroMeansDelivered`. The
  engine's `EvidenceHolds` is carried over: its own steps preserve it by
  `StepEvidence`, everything else in the command leaves what it speaks of
  alone. `ExitFromReport` traces exit code 0 back to the report.
- `OptionsAlwaysGrounded`: `CommandSpec => []OptionsGrounded`, the invariant
  under the next two: the engine waits until it is configured, and its
  configuration is that of the options (`EngineFollowsOptions`), the event
  diagnosed is that of a receipt that stays once it is there
  (`InputFollowsChains`), a subnet that was found is that of the receipt's
  first message (`SubnetFollowsMessage`), and a height that could not be
  estimated stays 0 (`HeightStaysUnknown`).
- `SubnetAlwaysOfMessage`: `CommandSpec => []SubnetOfDiagnosedMessage`. The one
  parser skips what does not parse and the other stops; they agree because a
  diagnosis that has an event at all had a first message that was read.
- `FallbackNeverAccuses`: `CommandSpec => []FallbackAccusesNobody`: with height
  0 the engine takes the present height for the signing one, and the two
  warnings compare a height with itself.

### Signatures

`SigningProofs`, about the operators:

- `BytesAreMirrored`: what the program reads from the big-endian bytes of a
  number, for every size of a byte. It is the right bits if there is one byte.
- `SameOrder`: two canonical sets of the same validators have the same keys at
  the same positions. That both are sorted does not say so at once. If the
  first had a smaller key at some place, the validators up to there would all
  have to come before that place in the second, which is one too many
  (`NotBelow`, by pigeonhole). `OrderOfKeys` says it of the relayer's keys.
- `QuorumIsExact`: where the products fit, the comparison of sums and products
  modulo `Word` is that of the stakes themselves. No part of a set has more
  stake than the whole, so that what fits for the whole fits for the signers.
- `StakeIsBacked`: the stake the code adds up for the bits it reads is stake of
  the keys that signed, if the aggregate verifies.

about the steps:

- `SigningTypeCorrect`: `SigningSpec => []SigningTypeOK`.
- `SignatureAlwaysTraced`: `SigningSpec => []SignatureTraced`. The properties
  speak of one state, in which a signature was made at one height and is
  checked at another; `SignatureTraced` ties both to the P-Chain's history and
  the aggregate to the signers, and the P-Chain only ever grows. The engine's
  parts of it are carried over: `EvidenceHolds`, an invariant of the proof,
  and `SetsSeen` speak of nothing a relayer changes (`EngineUndisturbed`).
  `VerdictGrounded`, which says that there is no signature, is not.

and from these, what a verdict means: `ValidIsAlwaysSigned`,
`QuorumAlwaysRecognised`, `OnlyQuorumAlwaysUnexplained`,
`ThresholdsAlwaysAgree` and `UnchangedAlwaysKeepsVerdict`, each by a lemma
that takes `SigningTypeOK` and `SignatureTraced` for granted in the state at
hand. The first four rest on `VerifyOutcome`, which reduces the returns of
`Verify` to whether the signature is genuine and whether the quorum is met;
the fifth on `SetsUnchanged` and `SameOrder`.

### Only model-checked

`Terminates`, `CommandReturns` and the liveness of `KeepsPromise` are out of the
prover's reach, as all liveness under fairness is; `termination` and `command`
check them.

## Not modelled, and what comes next

- `internal/output`, `cmd/demo-run`, `internal/cli/root.go`: they write fields
  one by one, run canned scenarios, register commands. The one decision in
  them, the exit code, is in `Command`.
- `internal/cli/validators.go`: one query, answered as `RegisteredInfos` or
  `CurrentInfos` say, and two sums of the same weights, whose quotient decides
  the quorum line and is 1 or is not taken. It keeps no state.
- `internal/warp/teleporter.go`: a decoding of one payload, called by no code.
- The layout of logs, messages and RPC replies, `Details`, percentages and the
  text of flags: no property is about them. Whether a text is usable (a hash, a
  subnet id, a network's name) is what `Options` distinguishes.
- Reorganised blocks, and a destination whose clients see different heads:
  `evmClient` has no code for either.
- `cmd/warpscope` and `cmd/fuji-finder`, which docs mention, are not in the
  repository.
