# ykdf in TLA+

ykdf derives keys from a YubiKey: the device agrees with itself (ECDH of the PIV key in
slot 9d with the point in its own certificate) and, in layered mode, answers one
HMAC-SHA1 challenge from OTP slot 2; both together are the input key material (IKM) of a
KDF pipeline. These modules model the parts of ykdf in which an order of events, a second
device, another program or a failure half-way can make a difference, and check and prove
what they promise.

    tlc -workers 2 -config MCSolo.cfg MCDeriveIkm      # one run
    tlapm DeriveIkmProofs.tla                          # the proofs of one module

## Inventory

| Component | Source | State it keeps | Operations | Talks to |
|---|---|---|---|---|
| Device sessions | `crates/ykdf-yubikey/src/{lib,piv,scd,hmac}.rs`, `apps/cli/src/ikm.rs` | the transport chosen, the PIN, the HMAC response, a connection, the certificate's point | choose a transport, prompt, HMAC, open, VERIFY, read certificate, ECDH | PC/SC, gpg-agent's scdaemon, hidraw, the user |
| Provisioning | `crates/ykdf-yubikey/src/provision.rs`, `apps/cli/src/{init,clone}.rs` | root key and HMAC secret in RAM, a connection, the devices counted | guard, prompts, PIN, management key, key, certificate, read-back, slot 2 | PC/SC, hidraw, the user |
| OTP HID protocol | `crates/ykdf-yubikey/src/hmac.rs` | none between calls; the device keeps a partial frame or a pending response | frame out, response in, reset, retry | hidraw |
| Android app | `apps/android/.../MainActivity.kt`, `nfc/*.kt` | form fields, mode, result, the config waiting to be saved | NFC tag, mode switch, save, pause and resume | JNI, UI thread, NFC thread |
| JNI bridge | `crates/ykdf-jni/src/lib.rs` | none | derive, WireGuard config | core |
| Recipes and parameters | `crates/ykdf-config/src/lib.rs`, `apps/cli/src/{derive,wg,recipe}.rs` | the config file | load, resolve, add a recipe or peer | core |
| Derivation pipeline | `crates/ykdf-core/src` | none | extract, passphrase cascade, expand, context string | - |
| Signatures | `crates/ykdf-core/src/sign.rs`, `apps/cli/src/sign.rs` | none | sign, verify | core |

What makes each correct, and what is hard about it:

* **Device sessions.** A session returns the key material of one device or an error;
  it offers the PIN to one card at most once and reports a refusal; it ends. Hard: ten
  exchanges over two interfaces of a device that other programs use at the same time, a
  PIN prompt of any length between choosing the transport and using it, an OTP interface
  that is silent for seconds after a touch, two devices in two ports.
* **Provisioning.** A device reported as done holds the new key under its own
  certificate; a refusal has written nothing; a key that is there is only lost when the
  user says so. Hard: key and certificate are two writes with a touch in between, slot 2
  is written over another interface to the first device found, the user swaps devices.
* **OTP HID.** An answer is the answer to this challenge. Hard: nothing locks the node,
  an exchange may be abandoned at any report, and the device remembers.
* **Android.** What is shown and saved belongs to the last derivation. Hard: two threads
  and a callback that may come after the activity was recreated.
* **JNI bridge.** The phone derives what the desk derives. Hard: numbers without a sign or
  an absence in Java, labels as text, an exception whose meaning the caller guesses.
* **Recipes and parameters.** A command derives with the first that is given of flag,
  recipe field, defaults and profile default. Hard: merging is written three times, and
  the file is edited between the audit and the use.
* **Derivation.** Requests that differ draw on different streams, requests that agree give
  the same key; a loop whose counter is a byte ends in time. Hard: two tables of lengths in
  different files, a context string with a parser more liberal than its printer.
* **Signatures.** Verified means: by this key, in this namespace, over these bytes. Hard:
  the container carries its own key, namespace, hash and profile; files are emptied first
  and written then.
* **Command line.** What is wrong with flags, recipe, catalogue or message is found before
  the touch, and only the form of the output after it; an old file survives what fails before
  there is something to write; 0 means complete. Hard: eight stages that may each fail, an
  output file that is emptied when it is opened, a standard output that is line-buffered.

The hazards, each at its line, with the properties that cover it, are in PROJECT.json.

## Modules

| Module | What it is |
|---|---|
| `YubiKeyHost` | The environment: devices, their slots, PIN counters and card state, who holds a card over PC/SC, how long the OTP HID stays silent. No code of the repository; modelled from how the code uses it and from `docs/transport-notes.md` |
| `DeriveIkm` | The device sessions of any number of ykdf processes (`lib.rs`, `piv.rs`, `scd.rs`, `ikm.rs`) |
| `IkmService` | The abstract specification of a session: what a caller may rely on |
| `OtpHid` | The feature reports of a challenge and of a slot write, and the OTP applet (`hmac.rs`) |
| `HmacExchange` | The abstract specification of those calls |
| `ScdWire` | Assuan lines, chained responses and the certificate in them (`scd.rs`) |
| `Provision` | One `init` or `clone` command (`provision.rs`, `init.rs`, `clone.rs`) |
| `NfcSession` | One tap: both factors over one ISO-DEP connection (`YubiKeyNfc.kt`) |
| `AndroidApp` | The UI thread, the NFC thread, the document picker (`MainActivity.kt`) |
| `JniBridge` | The native methods (`ykdf-jni`) |
| `Core` | Operators of ykdf-core: profiles, pipelines, contexts, extract and expand as terms |
| `Derivation` | Derivations through both doors of the core, and the context parser |
| `HkdfExpand` | The block loop of `expand/hkdf.rs` |
| `Recipe` | Operators: where the catalogue comes from, resolution, merging, WireGuard rendering (`ykdf-config`, `derive.rs`, `wg.rs`) |
| `Commands` | `derive`, `pubkey`, `sign`, `recipe`, `wg` from flags to exit code |
| `Signature` | Signing and verifying, with the files between the two (`sign.rs`) |
| `MCDeriveIkm`, `MCProvision`, `MCOtpHid`, `MCCommands` | Values of the constants for TLC |
| `MCWire`, `MCPhone`, `MCCore` | One run for two or three modules each, which they extend. `lane` says of which module a behaviour is; the others stand still. The properties are those of the modules; only `Types`, the conjunction of their type invariants, and `EveryCallEnds` are stated here |
| `DeriveIkmProofs`, `ProvisionProofs`, `OtpHidProofs`, `ScdWireProofs`, `CommandsProofs`, `SignatureProofs` | Theorems about the module each is named after |
| `PhoneProofs` | Theorems about `NfcSession`, `AndroidApp` and `JniBridge` |
| `CoreProofs` | Theorems about `Derivation` and `HkdfExpand` |

**`DeriveIkm`.** `pc[p]` is the exchange process `p` does next. `selOpen`, `selProbe` and
`selScd` are `select_transport_override` (`lib.rs:122-205`); `prompt` is the PIN prompt of
`ikm.rs:42`; `hid` and `pause` are one round of the loop in `challenge_response`
(`hmac.rs:135-152`); `open`/`openProbe`, `verify`, `cert`, `ecdh`, `touch` are the lines
of `derive_ikm_pcsc` (`lib.rs:237-277`), and `serialno`, `cert`, `verify`, `ecdh`, `touch`
those of `scd::derive_ikm` (`scd.rs:62-90`), which reads the certificate before it
verifies the PIN. A certificate may also be of a key on no curve (`OtherKey`), which either
transport refuses. An action is one exchange, so anything may happen between two of them:
`Plug`, `Unplug`, `TakeCard`, `ReleaseCard` and `Meddle` are the user and other programs.
`accepted`, `outcome`, `ikm` and `noise` are history: who accepted the PIN, how the session
ended, and whether anybody did anything meanwhile. Closing a PC/SC connection resets the
card (`CardAfterDrop`), closing the agent's socket does not; the second look at the readers
(`SmartcardBusy`) opens and drops them one after another, so it resets cards too.

**`OtpHid`.** What `DeriveIkm` and `Provision` take as one exchange, one action per ioctl:
`ready` and `send` wait for the applet's flag 0x80 to clear, `set` sends the next report
that `write_frame` does not skip, `confirm` waits after the last report of a slot write,
`first` and `rest` read the response, `reset` ends it, `settle` checks the CRC. A failed
attempt of a challenge starts again while its time lasts (`rounds`); a write is not
retried. `Consume` is the applet, `Touch`, `ForeignCommand`, `Unplug` and `Interrupt` the
world. `quirk` is what is not known of the firmware: whether a reset clears a response,
whether a partial frame is dropped, whether the slot is protected by an access code.

**`ScdWire`.** What `DeriveIkm` takes as one exchange with scdaemon, on real bytes for what
the code looks at: percent escapes, the status word, the TLV lengths. The agent
(`SendData`, `SendEnd`, `SendError`, `SendNoise`, `Inquire`) splits data into lines
anywhere; `ReadLine` is one turn of the loop in `Assuan::command`; `Collect` ends an answer
or asks for the rest.

**`Provision`.** `pc` follows `run_init` and `clone_one_device` line by line; `insert` is
the prompt of the clone loop. `target`, `before`, `spoiled`, `counted`, `told` and `noise`
record what properties speak of. `init` prompts for slot 2 unless forced, shows an
exportable scalar once slot 9d is done, and a generated HMAC secret only once slot 2 is
written. `SecretFileRead` stands for every way in which re-reading the management key of
`clone` fails. The PIN policy is `once`, the default. `Metadata` are the devices whose
firmware (5.2.3+) reports the metadata of a slot; on the others the guard (`Slot9dOccupied`)
sees no more than a certificate, as `slot9d_occupied` does.

**`NfcSession` and `AndroidApp`.** The first is a tap command by command; a key may leave
between two commands or while VERIFY runs (`VerifyLost`: the attempt is counted, the answer
lost), and a SELECT may be answered with an error. The second takes a tap as one read that
succeeds or throws, and follows what `runDerive` and `runWireGuard` read of the form, and
when: `DeriveSecret` and `DerivePublic` use one copy of the profile, and an exception of the
second leaves the public key empty whatever the profile; `HasPeer` and `WgConfig` read the
peer's key twice. `Post` appends to the UI thread's queue, `RunPosted` assigns. `Recreate` is
Android replacing the activity, under an open picker or a running tap.

**`Core`, `Derivation`, `HkdfExpand`.** A hash is the term of what was fed to it, so two
requests collide in the model exactly when their inputs do in the program. `Derivation`
runs the command line's `run_derive` and the bridge's `derive_output` one call after
another and keeps what they printed. `HkdfExpand` is the loop by itself, a block being the
sequence of the counters that went into it.

**`Recipe`, `Commands`, `JniBridge`.** `cmd.pc` of `Commands` is the stage a command is at:
`prepare` (catalogue, parameters, what the verb refuses), `read` (the message of `sign`),
`context`, `ikm` (PIN and touch), `passphrase`, `derive`, `format`, and the output: `stdout`
or `open` and `write`. The file is written unbuffered, item by item (`WriteTo`). The standard
output is Rust's `LineWriter` (`Stdout`): complete lines are there or the write failed, what
follows the last newline waits for a flush at the exit whose error nobody sees, so a text of
raw bytes may be lost, or cut, under an exit code of 0. The parameters of `wg config` and of
the bridge's `wgConfig` go through the same `Interface` and `Render`, as they do in the code.

**`Signature`.** One signer writes the file (`SignOpen` empties it, `SignWrite` writes all
or a part), one verifier reads key, signature and message, and whoever carries the files
edits the message or alters the signature in between. The verifier's checks come in the
order of the code, with the error of each.

### Abstractions

* A key is a symbol that stands for its scalar and its point, a slot-2 secret one that
  stands for its response to the single challenge ykdf sends. `Ecdh` of a key with a
  point is the set of the two, so agreement is commutative and otherwise injective.
* Time is counted in rounds of the HMAC retry loop, one failed exchange of about 2 s and
  a pause. `Tick` waits for a process whose turn it is. The silence after a touch
  (`Cooldown`, about 6 s) is at most `RetryBudget` (8 s) in every run.
* In `DeriveIkm` and `Provision` an HMAC exchange is one action (`OtpHid` opens it up), as
  are SERIALNO and SELECT of the PIV applet together, and each APDU (`ScdWire`).
* `YubiKey::open()` may pick any card it can connect to, and may refuse among several.
* gpg is installed; a system without gpg-agent is one that scdaemon never reaches.
* The PUK, and writes to slot 9d by other tools, are left out of `DeriveIkm`.
* A CRC is a symbol for exactly the data it covers; a frame has 4 reports instead of 10.
* In `ScdWire` a count of `Wide` bytes or more is sent as 0, as 256 is; `Wide` is 3.
* Texts are tokens: what a parser tells apart (a colon, a dash, blanks around a key, a part
  of an item) is a token of its own. The encodings (Bech32, PEM, base64, OpenSSH, X.509)
  are terms, so that a value is only like another of its kind.
* TOML is data: a file is missing, unreadable, malformed or a catalogue. A recipe's
  description is left out, for nothing depends on it.
* The profiles of the app stand for those with and without a public key.

## Runs

Deadlock is checked in `solo`, `contention`, `hid_two` and `commands`, whose processes run
one command after another for ever, and in none of the others: a command of `Provision` ends,
as do the lanes of `wire`, `phone` and `core` at their bounds.

| Run | Shows | Bounds |
|---|---|---|
| `solo` | `TypeOK`, `QuietOutcome`, `SessionEnds` | 1 process, 1 device with each of 6 slot contents, every `--transport` and `YKDF_TRANSPORT`, 2 PIN attempts, silence and budget of 2 rounds |
| `contention` | `SessionInv`, `NoWrongIkm`, `ServiceSpec` (refinement of `IkmService`) | 2 interchangeable processes on 1 device, or 1 process and 2 devices with a PIN each (`Few`); auto-detection, one PIN attempt, silence and budget of 1 round |
| `provision` | `TypeOK`, `ToldIsWritten`, `CountedAreClones`, `MismatchIsReported`, `RefusalWritesNothing`, `NoClobber` | 2 devices, one whose firmware reports slot metadata and one whose does not, each fresh, used or without its certificate; every command line of `init`, and `clone` asked for its overwrites, forced with a touch policy, and without slot 2 over an explicit management key; any number of attempts, a right, a wrong and a malformed PIN, one PIN attempt |
| `wire` | `Types`, `QuietCallSucceeds`, `FullResponse`, `CertIsFound`, `EveryCallEnds` | OTP: 1 process, 2 secrets, every way to treat leftovers and one kind of protected slot, every disturbance, 1 retry. Agent: certificates of 0 to 3 bytes with lengths in one, two and three bytes, objects cut short, pieces of 3 bytes, 1 status line, 1 APDU of another client |
| `hid_two` | `BufferFits`, `ExchangeSpec` (refinement of `HmacExchange`) | 2 interchangeable processes, 1 secret, an applet that keeps all it can, no retry |
| `phone` | `Types`, `NfcKeyMaterial`, `PinOfferedOnce`, `SameDerivation`, `MaskedUntilRevealed`, `SameAsCli`, `AbsentMeansNone`, `ReadingEnds` | 2 keys, 6 contents, 2 PINs, 2 attempts; 2 taps of the app, every edit; 2 calls of the bridge with arguments on both sides of every limit, the second a `derivePublic` after the same `derive`, as the app makes it |
| `core` | `Types`, `OkmIsRfc5869`, `StreamsApart`, `DoorsAgree`, `ContextDerives`, `RoundTrip`, `Sound`, `Complete` | lengths 0 to 130 and around 254, 255 and 256 blocks; 2 derivations; 1 signature by any of 5 keys, 2 namespaces, 2 messages, 1 alteration |
| `commands` | `ByPrecedence`, `ShownIsUsed`, `OnlyOutputFailsLate`, `ZeroIsComplete`, `OldFileKept` | first half: one catalogue, every mixture of flags, fields and defaults; second half: every verb over three catalogues and none, `--length` 0, 48 and none, `--format binary` and none, 1 edit to one of five bad ones, failure and ^C at every stage (`Halves`) |
| `slot_kept`, `identical`, `hid_written`, `android_saved` | four statements of docs or comments that the code does not keep | as the runs of the same module; 1 device in `slot_kept`; in `identical` 2 devices, one in a port at a time (`OneInPort`), and `clone --layered` without `--force` |

Why the bounds are enough to be interesting: one device shows every contention, two show
every mix-up of devices; two attempts tell a refusal from a lockout and a refusal after a
success; a silence of one round forces a retry, of two a retry that fails; two keys and
two secrets tell right from wrong; a frame of four reports has a skipped one at the front and
one in the middle; two derivations, calls, taps or reads show what one leaves to the next. No
counter grows: clocks, attempts, retries and taps are bounded by the constants. Of the passing
runs only `Few` and `Halves` cut states off, and they only split a run into its two questions.

**Fairness.** In `DeriveIkm` time passes and the one process keeps being scheduled. It
assumes nothing of the user: neither that a PIN is typed nor that a blinking device is
touched (the firmware then times out, `NotTouched`). With two processes the same is not true
under weak fairness: a peer that blinks again and again can keep a session waiting for its
card, as it can on the real device. In `OtpHid` the applet consumes its reports and each
process is scheduled; in `ScdWire` the agent answers or closes, which the kernel guarantees
of a peer that is gone, and the client reads. `EveryCallEnds` excludes one way not to end,
an INQUIRE of the agent: the client skips that line and each waits for the other. In
`AndroidApp` the UI thread runs what is posted, and the NFC thread, whose commands are
answered or throw `TagLostException`, keeps running.

### What the violations say

* `slot_kept`: the connection is open on the PIV applet; another client that shares it over
  PC/SC selects another applet; the two reads of the guard fail, which counts as an empty
  slot; PIV is selected again while the PIN prompt is open; VERIFY and the management key
  succeed, and the key is replaced without `--force`.
* `identical`: the devices are inserted one at a time, as `clone.rs:63` asks, and come with
  different contents of slot 2; the prompt before slot 2 is overwritten is declined for both;
  both are counted, and the summary, which compares slot 9d only, calls them identical.
* `hid_written`: the applet clears its write flag for a frame that it refuses too, and that
  is all that `program_slot2_hmac` looks at.
* `android_saved`: the activity is recreated, or a late error of a tap arrives, while the
  picker is open; an empty file is written and "Saved client.conf" shown.

Also noticed while modelling, each with the model that shows it, though no run is kept for it:

* A card released between the failed open and the second look is reported as absent
  (`lib.rs:44`, `OpenProbe`); a card taken by scdaemon while the PIN prompt is open fails
  with `SmartcardBusy` (`ikm.rs:60`, `OpenFails`); a forced layered `init` writes slot 2 in the
  silence after the certificate's touch and fails (`hmac.rs:209`, `ProgramFails`).
* `runWireGuard` reads the peer's key once for its note and once for the config, so a
  [Peer] may be missing without a note (`MainActivity.kt:186`, `HasPeer`).
* The bridge returns bytes for an age identity, which `--format binary` refuses
  (`format.rs:95`, `ValidFormat`); drops a port above 65535, which its comment calls
  clamping (`ykdf-jni/src/lib.rs:412-418`, `OptionalU16`, `SameAsCli`); accepts an empty
  address, which the command line refuses; and omits the final newline that the command line
  writes.
* The guard of slot 9d finds a key without a certificate only on firmware that reports
  metadata; on an older one `init` replaces it unasked, though the comment at
  `provision.rs:127-128` says "so an occupied slot is detected on older firmware too"
  (`Slot9dOccupied`). `NoClobber` is about the keys that the slot shows.
* `derive --format binary` writes its bytes to a buffer and exits with 0 when the flush at the
  end fails, on a full disk or `/dev/full` (`derive.rs:121-123`, `Stdout`); `ZeroIsComplete`
  leaves a text without a final newline on the standard output out.
* A recipe is validated before the flags that replace what is wrong in it
  (`ykdf-config/src/lib.rs:295`, `Resolve`); `wg config --peer-pubkey` alone writes a [Peer]
  without AllowedIPs (`wg.rs:188`, `Interface`).
* The form of the output is looked at last: a `--length` of 0 or of more than HKDF can give, a
  format that does not go with a profile, a profile without a public key, a missing address or
  AllowedIPs are found only after the PIN and the touch (`derive.rs:110-120`, `wg.rs:161`,
  `wg.rs:178`; `FormErrors`). `OnlyOutputFailsLate` lists them and says that nothing else is.
* An APDU of another client of scdaemon between a piece and GET RESPONSE makes the rest one
  of another answer (`scd.rs:205`, `OtherApdu`); `FullResponse` and `CertIsFound` are about
  answers without one.

## Proofs

A theorem holds for every value of the constants that its assumptions allow: any number of
processes, devices, secrets and PINs, any bound, any command lines and catalogues. TLC
evaluates every ASSUME of a module in a run of that module, so the values it uses are among
those the theorems speak of. Each module has one inductive invariant, `IInv`, of which
`Init => IInv` and `IInv /\ [Next]_vars => IInv'` are lemmas (`InitIInv`, `StepIInv`, one
lemma or step per action), `Invariance` is `Spec => []IInv`, and the properties follow. Where
a name would be taken twice it has a prefix: `NfcIInv`, `AppIInv`, `JniIInv`, `SignIInv`,
`ScdIInv`, and `LoopInv` for `HkdfExpand`.

| Theorem | States | Also assumes |
|---|---|---|
| `DeriveIkmProofs`: `TypeCorrect`, `SessionsStayBound`, `RightKeyMaterial` | `TypeOK`, `SessionInv`, `NoWrongIkm` | |
| `Implementation` | `ServiceSpec`: `DeriveIkm` implements `IkmService` | |
| `QuietSessionsEndAsExpected` | `QuietOutcome` | finitely many devices, `Cooldown <= RetryBudget` |
| `ProvisionProofs`: `TypeCorrect`, `ShownOnlyOnceWritten`, `ClonesStayClones`, `RefusedAttemptsAreHarmless`, `OverwriteTakesConsent` | `TypeOK`, `ToldIsWritten`, `CountedAreClones`, `RefusalWritesNothing`, `NoClobber` | |
| `SpoiledIsReported` | `MismatchIsReported` | `ContentsAgree` |
| `OtpHidProofs`: `ResponseFits` | `BufferFits` | |
| `CallsRefineExchange` | `ExchangeSpec`: `OtpHid` implements `HmacExchange` | |
| `LeftoversDoNoHarm` | `QuietCallSucceeds` | `RetryBudget > 0` |
| `ScdWireProofs`: `ScdTypeCorrect`, `WholeAnswerArrives` | `ScdTypeOK`, `FullResponse` | |
| `CertArrives` | `CertIsFound` | each `a \in CardAnswer` has `CertOf(a.data) = a.cert` |
| `PhoneProofs`: `TapReturnsItsOwnKey`, `TapCostsOneAttempt` | `NfcKeyMaterial`, `PinOfferedOnce` | |
| `ScreenIsOfOneDerivation`, `NothingShowsUnasked` | `SameDerivation`, `MaskedUntilRevealed` | |
| `JniTypeCorrect`, `PhoneIsDesk`, `AbsentIsNone` | `JniTypeOK`, `SameAsCli`, `AbsentMeansNone` | |
| `CommandsProofs`: `DocumentedPrecedence`, `AuditIsTrue`, `TouchedFailsOnlyOverOutput`, `ZeroIsAll`, `OldFileSurvives` | `ByPrecedence`, `ShownIsUsed`, `OnlyOutputFailsLate`, `ZeroIsComplete`, `OldFileKept` | |
| `CoreProofs`: `TypeCorrect`, `OneKeyThroughBothDoors`, `EveryContextDerives` | `TypeOK`, `DoorsAgree`, `ContextDerives` | |
| `DomainsApart` | `StreamsApart` | `DecimalIsUnique` |
| `ContextsRoundTrip` | `RoundTrip` | `DecimalIsRead` |
| `LoopInvariant`, `ExpandTypeCorrect`, `RfcCorrect` | `LoopInv`, `ExpandTypeOK`, `OkmIsRfc5869` | |
| `SignatureProofs`: `SignTypeCorrect`, `OnlySignedVerifies`, `EverySignatureVerifies` | `SignTypeOK`, `Sound`, `Complete` | |

The assumptions:

* The constants have their types, and the absent value and another program's response are
  none of the real ones (`HostAssumption`, `DeriveAssumption`, `OtpAssumption`,
  `NamesAssumption`, `LengthAssumption`, ...). `CommandsAssumption` says what clap and serde
  guarantee: an optional flag or key holds nothing or one value, `layered` is a boolean,
  `recipe show` names a recipe. `DerivationAssumption` says that key material is named (two
  values are equal if their names are), purposes are sequences of tokens, indices integers
  and a length is absent or a natural number. `JniAssumption`: a Java int has 32 bits.
  `ScdAssumption`: a card answers with bytes, and the status that ends an answer is not 61xx,
  which announces more of it. `SignatureAssumption`: each key has a profile.
* `ContentsAgree`: the devices come with certificates of their own keys. Of one that comes
  with a wrong one and is never touched, nothing can be said.
* `RetryBudget > 0`: the loop of `challenge_response` has time for a second round; it has
  8 s (`hmac.rs:131`), and a round fails after about 2. TLC finds the counterexample
  without it: a partial frame costs the one attempt.
* Finitely many devices and `Cooldown <= RetryBudget`: the code counts what is plugged in, and
  an HMAC interface that stays silent for about 6 s is given 8 s (`hmac.rs:131`); with a longer
  silence an undisturbed session may fail.
* `CertOf(a.data) = a.cert`: what the parser finds in an answer that arrives whole is what the
  card put there. The answers are a constant of the module, so this is a statement about data;
  TLC checks it for every form of a length and every cut (run `wire`).
* `DecimalIsUnique` and `DecimalIsRead`: two natural numbers are never printed alike; 0 and 7,
  the indices that a parsed string of the model yields, are not printed as a colon and are read
  as themselves. `ToString` is defined by TLC alone, so the prover knows nothing of it; TLC
  evaluates it in the run `core`.

Why each invariant is what it is:

* **`DeriveIkm`**: `TypeOK /\ SessionInv`. Types alone are not inductive: that key material
  is well-typed needs a key, a certificate and a card at the touch, which is `SessionInv`.
  It says of each place of a session what the session holds there, and that it is of the one
  card it is connected to; a session that was cut off holds no card, so nothing is claimed of
  it until it finds out. In the refinement `busy` maps to "neither idle nor done"; start maps
  to `Begin`, an accepted VERIFY to `Accept` (`SessionInv`: no card accepted this session's
  PIN before), a refused one to `Refuse`, the touch to `Answer`, every error to `Fail`, all
  the rest to stuttering. `RightKeyMaterial` needs `ProvenanceInv` too: while nobody plugged
  or unplugged anything since the session began, the HMAC factor it holds is that of the one
  device in the port.
  `QuietSessionsEndAsExpected` has `QuietInv`: a session that nothing disturbed is the only one
  open, at a place that its request and the holder of the card allow (`QuietWith`,
  `QuietWithout`); a PIN that was accepted is the device's, and the silence of the device is
  over before the retry loop is (`cool[d] <= clock[p]`). Each exchange then has one outcome.
* **`Provision`**: `WriteInv` says that nothing has changed before the first write and what
  the target holds after each later one; without it a refusal might follow a write.
  `ConnInv` keeps the connection and the target from drifting apart when a device is
  unplugged and another plugged in. `ConsentInv` carries the guard's verdict to the write,
  over the prompts in between; the slot can only be filled by the attempt itself, and the
  guard only misreads a key that the slot shows (`Visible`) when somebody disturbs it.
  `InitCmdInv` ties what `init` shows to where it is. `NoClobber` and `MismatchIsReported`
  follow step by step (`Slot9dStep`, `SpoiledStep`).
* **`OtpHid`**: `WireInv` (what is in the applet's inbox is a report of the frame of some
  call), `AnswersInv` (what the applet holds, each running call may be answered) and
  `ReadInv` (each report read came from such an answer). The lemma behind the refinement is
  that a response whose CRC is right covers one answer's reports in their order, so an
  interleaving of two calls' reads is refused or whole. `CallsRefineExchange` maps `Consume`
  of a complete write to `Store`, `ForeignCommand` to `Interfere`, the end of a call to
  `Return`, each other report to stuttering. `QuietCallSucceeds` has a second invariant,
  `QuietInv`: where an undisturbed call is, what it has sent, and what is left of an earlier
  one's frame.
* **`NfcSession`**: `TapInv` keeps the tag the key that was tapped, or lost, and the counters
  as they were until the PIN goes out.
* **`AndroidApp`**: `ThreadInv` says what may be in the UI thread's queue: each runnable
  replaces a whole part of the screen, masked, by things of one derivation, so the order in
  which they run does not matter.
* **`JniBridge`**: `CallShape` says what a call holds at each stage, `OutcomeInv` that a value
  is what the core makes of the arguments and an exception for an argument that one of them is
  at fault, `LastInv` keeps of the call before what the core accepted. `PhoneIsDesk` compares
  the fields the bridge fills in with those the flags give (`WgFieldsAreFlags`); `AbsentIsNone`
  needs that only `symmetric` and `raw` come out of post-processing without a public key.
* **`ScdWire`**: while a command is answered, what the client has of it, what is on the wire and
  what the agent has left to send make one response (`Answering`); what was collected, that
  response and what the card keeps back make the whole answer (`Settled`; `Asking` between two
  pieces). That a line carries what was put into it needs that decoding undoes escaping: two
  recursive functions over a line, so the proof is by induction on its length, which the
  well-foundedness of `<` gives for a set of numbers (`Induct`).
* **`Signature`**: `Genuine` lists what an item of the file can be after a cut or an alteration,
  which moves, drops or relabels what is there and makes none: a signature among them is by the
  holder of its key. The verifier's copies are of the same items, and `signed` only grows.
* **`Commands`**: `Shape` says which fields a command has at which stage (also of one that
  ended, by how far it got), `KnownInv` which edit of the file it has read, `ShownInv` that
  what `recipe show` printed is what the file said at that edit, `OutInv` how much of the
  text has been written where, and that nothing was before. `ByPrecedence` rests on two
  lemmas that compare the code's three merges with the documented order.
* **`Derivation`**: `CallInv` says of what the master key is at each stage, `MadeInv` that
  each result is `Secret` of its own identity. `DomainsApart` then is about terms: equal
  streams have equal info strings; `InfoIsUnique` takes such a string apart from both ends
  (all but the purpose are single tokens, labels and numbers without a colon) and yields the
  context and the length; `MasterIsUnique` yields key material and passphrase.
  `ContextsRoundTrip` finds the cuts of a rendered context: five colons and both ends
  (`CutsOfContext`, `SevenCuts`), in their order (`CutsInOrder`), so that the six fields are
  those it was put together from (`SplitContext`).
* **`HkdfExpand`**: at block `i` of `n <= 255`, `T(i-1)` is in hand, the pieces of all blocks
  before it are copied whole, and `filled` is their length; the arithmetic is in the lemmas
  `Blocks` (as many blocks as are needed, at most 255) and `NextT` (the counter, a byte, is
  the block's number).

Only model-checked:

* Liveness, which is out of the prover's reach: `SessionEnds`, `EveryCallEnds`, `ReadingEnds`.
* That the parser finds a certificate in every form of its length and none in an object cut
  short, the data half of `CertIsFound` (the hypothesis of `CertArrives`).
* `Types` of `MCWire`, `MCPhone` and `MCCore`, as stated there for a behaviour of one lane. Each
  of its parts is proved of its own module: `ScdTypeCorrect`, `SignTypeCorrect`,
  `ExpandTypeCorrect`, `JniTypeCorrect`, `TypeCorrect` of `CoreProofs`, and as a conjunct of the
  inductive invariants of `OtpHid`, `NfcSession` and `AndroidApp`.

No module declares a RECURSIVE operator. Recursive functions and folds are proved about where a
first-order induction does it (`ScdWireProofs`), or were written without one where a definition
in closed form says the same (`Split`).

## Plan

1. Written and checked: all the modules above.
2. Proved: the safety properties of the passing runs, under the assumptions above, and both
   refinements. What is left is what the provers do not reach.

## Not modelled

* The cryptographic primitives and the bytes of encodings (Bech32, PEM, OpenSSH, X.509):
  data, tested against vectors.
* Terminal colours and wording, Android widgets, clap's own parsing, zeroization of memory.
* The hex parsing of imported secrets (`provision.rs`): a pure check before anything begins.
* `Apdu.kt`: a second writing of the chaining and TLV reading that `ScdWire` models for
  `scd.rs`; `NfcSession` takes each command as one exchange.
* The C and Go reference implementations, fuzz targets, timing harness, vectors, scripts,
  CI and packaging: not part of the running program.
