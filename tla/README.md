# TLA+ models of the bytecoin wallet storage (`src/src/Core/Wallet.cpp`)

This directory holds TLA+ specifications of the wallet storage layer of
bytecoin, and TLC configurations that check them. All of it is written from
`src/src/Core/Wallet.cpp`. `spec.md` is used only to find out what the code
is meant to promise.

## The system

`Wallet.cpp` implements one abstract class, `Wallet`, with two backends.

* **`WalletContainerStorage`** keeps a flat encrypted file. The file holds:
  * a version byte;
  * a prefix with the encrypted view keys;
  * two little-endian u64s, item_capacity and item_count;
  * one 56+8-byte encrypted record per spend key.

  It keeps the following in memory:
  * `m_wallet_records`;
  * `m_records_map` (public key → position);
  * `m_oldest_timestamp`;
  * `m_wallet_key`;
  * `m_file`.

  Its operations:
  * the creating and opening constructors and `load()` (`load_container_storage`);
  * `generate_new_addresses`, which appends records in place and then fsyncs,
    rewrites the count and fsyncs again;
  * `set_password`;
  * `on_first_output_found`.

  Any operation that rewrites the whole file goes through `save_and_check`. It
  writes `<path>.tmp`, reloads it into a second container, compares, and
  atomically replaces the file. Transaction history and the payment queue
  are one file each in two side folders.
* **`WalletHD`** keeps a SQLite database.
  * Every row is encrypted with `encrypt_data`, which pads the row to a power
    of two.
  * Addresses are deterministic. The object keeps `m_used_address_count + GENERATE_AHEAD`
    records in memory. `generate_ahead` fills them, using threads for large
    gaps.
  * It works inside one long transaction, committed at save points.
* **Shared code** (`Wallet`):
  * `get_look_ahead_record`, which output detection uses. In HD it grows the
    look-ahead window.
  * the key derivations.

The two backends do not interact. Within each one, the interacting parties are:
* the wallet object;
* its file or database;
* the operating system's page cache versus durable storage;
* a second object (the `other` of `save_and_check`) that reads what the first wrote;
* the next process, which reopens the file after a kill or a power loss.

## Inventory

| part | state | operations | hard behaviour |
|---|---|---|---|
| container object | records, records map, oldest timestamp, wallet key, m_file | create, open/load, generate_new_addresses, set_password, on_first_output_found | exceptions part-way through an operation; a load that appends instead of replacing; a cached minimum |
| container file | header (key, cap, count), record slots | save, in-place append, count rewrite, atomic replace, truncate | torn writes, writes lost to a power loss, fsync ordering, a failed replace |
| HD database | parameters, labels, payment queue, committed vs open transaction | put/get, commit, set_password, export_wallet/backup, generate_new_addresses, detect_our_output, create_look_ahead_records, on_first_output_found, payment_queue_add/remove, set_label | uncommitted work lost on a crash, look-ahead window bound |
| HD sharding | delta, thread count | generate_ahead | integer division at the shard bounds |
| row encryption | length | encrypt_data/decrypt_data | power-of-two padding bound |
| mnemonic generator | version tag, drawn prefix | generate_mnemonic | a reverse-CRC table and loops over word lengths that must miss no suffix; a retry loop |

## Modules

### `WalletContainer` (container backend)

**Variables.** These are the object's members:

| variable | models |
|---|---|
| `records` | `m_wallet_records` |
| `recmap` | `m_records_map` |
| `oldest` | `m_oldest_timestamp` |
| `wkey` | `m_wallet_key` |
| `hasFile` | `m_file != nullptr` |
| `life` | no wallet yet / an open object / no object |

The file appears twice:
* `page` is what reads see, that is the page cache;
* `disk` is what survives a power loss. Every fsync sets `disk' = page`.

A file image is a record made of:
* `key`: the key the view keys were encrypted under;
* `cap` and `count`;
* a function from slot to record or `Hole`.

Each slot keeps the key it was encrypted under. A slot decrypts to a matching
key pair only under that key, and never if it is a hole. This is all
`decrypt_key_pair` plus `keys_match` need from the cryptography.

**Actions.** `generate_new_addresses` is split at the points where it can stop:

| action | lines | what it does |
|---|---|---|
| `GenStart` | 435-446 | runs save_and_check when `m_file` was reset, then computes the append position |
| `GenItem` | 447-479 | one loop iteration: a random key, a throwing invalid key, a known key (`KnownRecord`) or a new imported key (`AppendRecord`) |
| `GenSync` | 480-487 | fsync, then the count rewrite |
| `GenFinish` | 488-494 | fsync, or save_and_check when a timestamp was lowered, then the result is returned |

The other actions:

| action | lines | what it does |
|---|---|---|
| `CreateNew` / `CreateImport` | 259-301 | the creating constructor, via `Create` |
| `Open` | 303-354 | the opening constructor, `load()` and `load_container_storage` |
| `SetPassword` | 405-409 | set_password |
| `OnFirstOutputFound` | 515-527 | on_first_output_found |
| `Kill` | — | the process ends |
| `PowerLoss` | — | any subset of the unsynced slots, and either value of each header field, reaches the disk |

The outcome of `save_and_check` (`SaveOutcomes`, `AfterSave`) is one of:
* "ok";
* an I/O error writing the temporary file;
* a mismatch between the reloaded container and `*this`: the records or the
  oldest timestamp differ (`operator==`, 430-433);
* a failed atomic replace, after `m_file.reset()`.

Ghost variables record what the user was told:
* `issued`: the addresses returned, with the oldest timestamp returned for each;
* `userPw`: the last password that was set successfully;
* `pinned`: whether on_first_output_found has replaced unknown timestamps.

**Specifications.**
* `Spec` starts from an empty directory and includes the constructors.
* `SpecReopened` starts from the file a successful constructor leaves, opened
  by a new process. This is the normal life of a wallet, and it is where
  the crash properties are checked. A run that started from the creating
  constructor's object would hit finding F1 at once.

**Assumption.** `Wallet.hpp` is not in `src/`. The model assumes
`m_oldest_timestamp` starts at `std::numeric_limits<Timestamp>::max()`. Two
things in the code support this:
* `load_container_storage` can only lower it (`std::min`);
* the creating constructor's `save_and_check` compares it with a freshly
  loaded container. That comparison could never succeed for a random wallet
  with any smaller default.

## Runs of the container module

All runs use `MCWalletContainer`, which supplies the model values and the
symmetry over key pairs. Key pairs are only ever compared for equality, so
the symmetry is sound.

| run | cfg | expect | shows |
|---|---|---|---|
| container_crash | `WalletContainer_crash.cfg` | pass | A reopened wallet stays openable with the user's password, keeps every returned address durable and within item_count, and keeps `m_records_map` consistent with the records. This holds under every interleaving of the operations with kills, power losses (torn header writes included) and I/O failures of save_and_check. |
| container_create | `WalletContainer_create.cfg` | violation | **F1**: the creating constructor's `load()` after `save_and_check()` duplicates the first record. The next `generate_new_addresses`, even with an empty batch, writes a count that covers an unwritten slot, and the file no longer opens: a new record's unwritten slot fails to decrypt, and for an empty batch the read at line 194 runs past the end of the file. |
| container_password | `WalletContainer_password.cfg` | violation | **F2**: when set_password's `save_and_check` throws, `m_wallet_key` is already the new key. Later appends make a file that opens with neither password. The throw can come from F3 or from an I/O error. |
| container_oldest | `WalletContainer_oldest.cfg` | violation | **F3**: importing a new key with an older ct does not lower `m_oldest_timestamp` (455-460). From then on every save_and_check reports a write error on a healthy disk. |
| container_rescan | `WalletContainer_rescan.cfg` | violation | **F4**: a batch that lowers a known key's timestamp and then throws on an invalid key keeps the lowered timestamp in memory only. A retry returns it with `rescan_from_ct == false` and never saves it. |

The passing run has three properties:
* `TypeOK`;
* `DurableOpens`: both the durable file and the page cache open with `userPw`;
* `ReturnedAddressesDurable`.

Each one has a mutant in `PROJECT.json` that TLC kills:
* the fsync before the count rewrite is dropped;
* the final fsync is dropped;
* the count is written one past the records (the capacity clamp hides this on load).

**Bounds.** The passing run uses:
* 3 key pairs;
* 1 password;
* at most 2 records (the first one included);
* keys drawn from {random, invalid, k1..k3}. The opened file holds at least
  one record and `GenStart` keeps the total within 2 records, so every batch
  has exactly one key;
* clock times {1, 2};
* import timestamps {0, 1};
* save_and_check failures enabled.

These bounds cover:
* a batch whose only key is invalid;
* a known key whose timestamp is lowered (the rescan path);
* a power loss at each of the four points of generate_new_addresses;
* torn headers;
* failed save_and_check calls.

They do not cover a batch that mixes a new key with an invalid one (the
partial failure at line 459). Only `container_rescan` reaches it, with 3
records and 4 keys. With MaxRecords = 3, the crash run reaches 3.1 million
states and takes more than 5 minutes (500 s with one import time), which is
over the limit for a run. With one password, `DurableOpens` checks the record
contents and count but not the key; F2 (`container_password`) covers the
key.

**Fairness.** None is assumed, and no liveness property is checked. Every
operation is a synchronous call made by the application; nothing in
`Wallet.cpp` promises that one eventually happens.

### `WalletHD` (SQLite backend)

**Variables.** The database appears twice:
* `wdb` is the content seen inside the open long transaction;
* `cdb` is the last committed content, which is all that survives a crash.

`Commit` sets `cdb' = wdb'`. A database (`Db`) is abstracted to its logical rows:
* the key the rows are encrypted under;
* `total_address_count`;
* `creation_timestamp`;
* the payment queue, as a set of tids;
* a label per address.

Row encryption is modelled separately in `RowEncryption`.

The object's members:

| variable | models |
|---|---|
| `used` | `m_used_address_count` |
| `nrec` | `m_wallet_records.size()` |
| `oldest` | `m_oldest_timestamp` |
| `mlabels` | `m_labels` |
| `wkey` | `m_wallet_key` |
| `pc`, `todoLabels`, `todoQueue` | where `set_password` or `export_wallet` has got to, and what it still has to write |
| `efile`, `edb`, `ewdb` | the export file: whether it exists, what it has committed, and its open transaction (the `other` object of `export_wallet`) |

Ghost variables:
* `given`: every address returned or seen receiving an output;
* `appq` and `promised`: payment-queue entries added, and those made durable by a commit;
* `userPw`: the password last set successfully;
* `esnap`: the database the last export was to produce.

**Actions.**

| action | lines | what it does |
|---|---|---|
| `CreateBegin(pw)` | 792-808 | the creating constructor up to its key: `O_CREATE_NEW` (the file now exists), the tables and the salt, uncommitted (`CreateTables`, shared with the early-commit mutant) |
| `CreateFinish(ct)` | 810-829 | the parameters (`params`), `on_first_output_found`, `Load` (831-898) and the single commit |
| `Open` | 771-787 | the opening constructor, via `Load` (831-898); it needs a committed database with the parameters under the given password |
| `GetRecord(i)` (query) | 1059-1075 | `get_record` for the address of record `i`: found in the records map and below `get_actual_records_count()`, i.e. `m_used_address_count` |
| `Crash` | (SQLite) | the process dies and the open transaction rolls back. When `CreateMayCrash` holds, this can happen between `CreateBegin` and `CreateFinish`. The file is then left in `life = "stuck"`: `get_salt`'s invariant fails in the opening constructor and `O_CREATE_NEW` fails in the creating one |
| `GenerateNewAddresses(n)` | 1035-1051 | bumps `total_address_count`, extends the window (`Ahead`, i.e. `generate_ahead`) and commits |
| `DetectOutput(i)` | 1294-1314 | `detect_our_output` for an output to record `i`: `get_look_ahead_record` (`LookAheadRecord`, 107-115) finds it among the materialised records and `create_look_ahead_records` (`CreateLookAheadRecords`, 1144-1151) grows the count (`GrowTo`, shared with `GenerateNewAddresses`) and commits it, before the key checks that only decide the return value |
| `OnFirstOutputFound(ts)` | 1136-1142 | on_first_output_found |
| `SetLabel` | 1253-1275 | set_label, which commits |
| `PaymentQueueAdd` | 1191-1207 | no commit |
| `PaymentQueueRemove` | 1238-1251 | commits only for tids starting with 'x' (`XTid`) |
| `SetPasswordStart` | 1078-1094 | reads the labels and the queue, deletes every table, then re-puts the parameters under the new key (`SetPasswordRewrite(pw, saved)`, where `saved` is the queue it read; the two set_password mutants differ only in `saved` or in the commit) |
| `SetPasswordLabel` | 1095-1096 | one set_label call, which commits |
| `SetPasswordQueue` | 1097-1098 | one queue entry put back |
| `SetPasswordFinish` | 1099-1100 | the final commit |
| `ExportStart(pw, vo)` | 1102-1120 | `export_wallet` (and `backup`, a full export): creates `other` with `O_CREATE_NEW`, so an existing file throws, and puts the parameters read from the open transaction, without a commit (`ExportOpen`, shared with the early-commit mutant) |
| `ExportLabel` | 1121-1122 | one `other.set_label`, which commits the export |
| `ExportQueue` | 1123-1124 | one payment-queue entry copied (full export only) |
| `ExportFinish` | 1126-1127 | `other.commit()` |
| `Crash` | — | the process dies and the open transaction is rolled back |

Label order in `set_password` and `export_wallet` is abstracted: any remaining label may come next
(`\E`).

**Assumption.** As for the container, `m_oldest_timestamp` is assumed to start
at the maximum timestamp (`DefaultOldest == TMAX`). Under that assumption the
creating constructor's `on_first_output_found(creation_timestamp)` (line 819)
does nothing.

**Abstract specification.** `AddressBook` is what an HD wallet promises
about its addresses, without databases or crashes. It has two variables:
* `reserved`: the addresses the wallet will never hand out again;
* `handed`: the addresses given to the user or seen receiving an output.

Its steps:
* `HandOut` gives the next unreserved addresses and reserves them;
* `Observe(i)` recognises a payment to `i` only within `GA` of `reserved`,
  and reserves every address up to it.

`WalletHD` instantiates it as `AB` with this mapping:
* `reserved` is the committed `total_address_count`;
* `handed` is the ghost `given`.

The run checks `AB!ABSpec` as the property `AddressBookRefined`. Every step
of `WalletHD` must then be a step of the address book or leave both mapped
variables alone. In particular:
* a commit must make the grown count durable in the same step that hands out
  or recognises the addresses;
* a crash must never take `reserved` back.

**Fairness.** None. Every operation is one synchronous call with loops over
finite containers, and a model of such a call terminates by construction,
so a liveness property about it would hold whatever the code did. `Crash`
and every application call are left unfair: nothing in the code makes them
happen.

### `GenerateAhead` (`WalletHD::generate_ahead`, 900-941)

This is a pure function written as operators. `Results` is either one
`generate_ahead1` piece, when delta < 1000, or `thc` shards with bounds
`delta*i/thc`. `GenerateAhead` appends the pieces to the existing records.
The constants and the variables chosen in `Init` range over:
* window sizes;
* address counts;
* thread counts.

### `RowEncryption` (`encrypt_data`/`decrypt_data`, 950-979)

The padding loop is the RECURSIVE operator `Grow`. It is checked against
`LeastPaddedLength`, the least power of two that is at least 256 and holds
the data plus 36 bytes. `decrypt_data`'s checks and returned length are
checked on the encrypted length. The cipher itself preserves length and is
not modelled. The 4-byte length field (`LengthField`) is the identity on every
length TLC can represent: its integers stop below 2^31.

### `Mnemonic` (`WalletHD::generate_mnemonic`, 682-753)

The function searches for a phrase whose CRC equals the `version` tag. It
draws `words_in_prefix` random words, then looks for three more words that
bring the CRC to the tag. The search relies on the CRC being linear. Appending
word `w` steps the register over `Len(w)` zero characters, then XORs
`word_crc32_adj[w]`.
* `LastWordKey`/`LastWord` are the `last_word` map. Each word's key is the
  register that must precede it, found by stepping the CRC backwards through
  the word. When several words share a key, the last one wins.
* `PrefixLoop` and `PrefixCrc` are the prefix loop and the `WORDS_MIN_LEN`
  zero steps after it.
* `Probes` and `Bucket` are the two nested loops over word lengths. Each loop
  walks the length-sorted table up to `words_bylen[l]`, and breaks after
  `l = WORDS_MAX_LEN - WORDS_MIN_LEN`.
* `Key` is the register looked up in `last_word`. It is stepped exactly as
  lines 713-750 step `crc32_prefix` and `crc32_prefix2`.
* `Search` returns the first hit in loop order.
* The actions:
  * `Draw` is one iteration of `while (true)`;
  * `Found` is the `return`;
  * `Retry` is a fall-through to a new draw.

The CRC step functions, `word_crc32_adj`, `words_bylen` and the word table are
in `common/`, outside `src/`. They are modelled from spec §4.5:
* a reflected CRC with no initial or final XOR;
* a `W`-bit register and `CharBits`-bit characters;
* a dictionary sorted by word length.

The reference the properties use, `CrcWords`, runs the CRC over the phrase's
characters one at a time. It does not use linearity.

## Runs of the other modules

| run | cfg (module) | expect | shows |
|---|---|---|---|
| hd_addresses | `WalletHD_addresses.cfg` (`MCWalletHD`) | pass | `AddressBookRefined`: across crashes, reopens, password changes and exports, `WalletHD` implements `AddressBook`. So no address is handed out twice, and only outputs within the window are recognised. `GivenAddressesRecognised`: every address handed out or seen lies in the materialised records of the open wallet. `GetRecordDurable`: `get_record` accepts exactly the addresses below the committed `total_address_count`, so its answers survive a crash, and it accepts every address handed out or seen. |
| hd_queue | `WalletHD_queue.cfg` (`MCWalletHD`) | pass | Without labels, `set_password` and `export_wallet` are atomic. Every committed payment-queue entry stays committed (`QueuedPaymentsDurable`). The committed database is always under the last password set successfully (`DbOpensWithUserPassword`). A committed export holds the whole exported wallet (`ExportedWalletComplete`). The process may also die inside the creating constructor (`CreateMayCrash`). `WalletFileLoads` shows that the constructor commits nothing partial, and that once it has returned the file always holds a database `load()` accepts. A crash before its commit leaves a file that neither constructor accepts. That is the `stuck` state: nothing can happen there, so this run sets CHECK_DEADLOCK FALSE. `hd_addresses` checks deadlock with this crash switched off. |
| hd_setpw | `WalletHD_setpw.cfg` | violation | **F5**: with one label, `set_password`'s `set_label` commits after the queue was deleted; a crash then loses the queue. |
| hd_pin | `WalletHD_pin.cfg` | violation | **F6**: `on_first_output_found` never sets `m_oldest_timestamp`, so a second call replaces the persisted creation timestamp. |
| hd_export | `WalletHD_export.cfg` | violation | **F7**: with one label and one queued payment, a backup commits the export file inside its label loop, before the queue is copied. A crash there leaves a backup that opens without the queue. |
| ahead_and_padding | `Operators.cfg` (`MCOperators`) | pass | `WindowMaterialised`: for 1, 2, 3, 4, 6 and 8 threads, the shards fill exactly `used + GA` records, each at the position of its index. `RoundTrip`: decryption accepts every encrypted row and returns the original length. |
| mnemonic_search | `Mnemonic.cfg` (`MCMnemonic`) | pass | `MnemonicChecksum`: every returned phrase's CRC is the version tag. `NoSuffixMissed`: a new prefix is drawn only when no three dictionary words complete the last one to the tag. Together they show the reverse table and the length loops are exact. |

`MCOperators` holds the two operator checks, each by a named `INSTANCE`
(`Ahead`, `Row`). Its initial states are the inputs of one component with the
other's inputs fixed, so the two input sets add rather than multiply.

Spec §8 invariant 7 says the encrypted length is "a power of two plus 32". The
code produces an exact power of two: the 32-byte iv is counted inside the
padded size, as spec §4.3.3 says. No property checks this: the iv is counted
with the same constant in the code and in any reference, so a check would
restate the loop.

**Bounds.**
* HD runs:
  * 2 passwords;
  * clock times {1, 2}, with TMAX = 3;
  * GENERATE_AHEAD scaled down to 2;
  * up to 3 used addresses;
  * batches of 1 or 2;
  * one 'x' tid and one other tid (`hd_addresses` only needs the 'x' tid);
  * one address that can carry one label, or none (`hd_queue`);
  * `hd_export` needs only one label, one 'x' tid and one full export;
  * export with both passwords and both `view_only` values, or (`hd_addresses`)
    a full export under one password: enough for the export's label loop to
    run there. The export file's content multiplies the state space, which
    reaches 6.6 million states with the full set.

  A crash can happen before and after every commit point, and in `hd_queue`
  also inside the creating constructor. That is the case
  the properties are about.
* `ahead_and_padding`: GENERATE_AHEAD = 20 and the single-thread limit = 10. This
  keeps the code's relation GENERATE_AHEAD > limit, so both branches and load's
  always-sharded path are taken. Deltas run from 1 to 32, so they fall both
  divisible and not divisible by each thread count.
* `mnemonic_search`:
  * a 7-bit CRC (x^7 + x^3 + 1) over 2-bit characters;
  * six words, two each of lengths 1, 2 and 3;
  * all 128 version tags;
  * prefixes of one or two words (`bits` 1 and 3, 2 bits per word).

  With three lengths, the loops' first, middle and last (break) iterations all
  run. With 216 suffixes over 128 tags, some draws hit and some do not, so both
  `Found` and `Retry` fire. The run ends when the phrase is returned, so it
  sets CHECK_DEADLOCK FALSE.
  Row lengths: every length 0..600, plus the three lengths around each
  boundary `2^k - 36`, for 2^10..2^29.

**Fairness.** No run assumes fairness or checks liveness. Every operation is
a synchronous call that the application may or may not make. The only loop
whose end is in doubt is `generate_mnemonic`'s `while (true)`, and it ends
only with some probability (hazard at line 703).

## Findings

| id | run | what |
|---|---|---|
| F1 | container_create | the creating constructor loads the records twice; the next append makes the file unopenable |
| F2 | container_password | a failed set_password leaves the new key in memory; later appends make a file that opens with no password |
| F3 | container_oldest | an imported key with an older timestamp does not lower `m_oldest_timestamp`; every later save_and_check fails |
| F4 | container_rescan | a lowered timestamp survives a thrown batch in memory only, and is never saved |
| F5 | hd_setpw | HD set_password commits mid-rewrite; a crash loses the payment queue and switches the password. `export_wallet`/`backup` commits in its label loop the same way, as F7 shows. |
| F6 | hd_pin | HD on_first_output_found re-pins the creation timestamp |
| F7 | hd_export | HD export_wallet/backup commits inside its label loop; a crash leaves a backup that opens without the payment queue, and a retry to the same path throws |

**Observation without a run.** `std::thread::hardware_concurrency()` may
return 0. When it does, `generate_ahead` starts no thread and materialises
no record, and `load()` always takes that path. With 0 in `Threads`,
`Operators.cfg` reports `WindowMaterialised` violated. The check allows
at most 12 runs. This one-line case gave its run to `mnemonic_search`, and it
is kept as a hazard at line 924.

## Not modelled, and the plan for later work

* **Container history and payment-queue folders** (`save_history`,
  `load_history`, `payment_queue_get/add/remove`, the copies in `backup`).
  * Each operation is one platform call: `atomic_save_file`, `load_file`,
    `remove_file` or a folder listing. Their behaviour lives in platform code
    outside `src/`.
  * The object keeps no state about the folders, so a model would only
    restate the platform's contract.
  * One observation, not checked: `payment_queue_add` and
    `payment_queue_remove` swallow I/O failures with a warning. Spec §7 says
    errors are surfaced synchronously, and its list of swallowed cases does
    not include these.
* **Container `export_wallet`/`backup` and `get_record`, HD `get_record`.**
  They write another file with no check, or they are queries; none changes
  the wallet's state.
* **HD parts still outside the model:**
  * view-only wallets: `load`'s view-only branch only changes which keys are
    derived;
  * entries of other nets;
  * the row layout of `put`/`get`;
* **Refinement of the container.** A refinement of the container's durable
  file into an append-only list of returned keys was tried and dropped. Every
  plausible code mutation breaks `DurableOpens` or `ReturnedAddressesDurable`
  first, so the refinement added no check of its
  own.
* **Left out:**
  * the legacy V1 loader: outside `src/`;
  * the real 2048-word table and CRC32 of mnemonic generation, and so whether every tag has a completion (termination of the retry loop is probabilistic);
  * the elliptic-curve derivations and key checks of output detection.
