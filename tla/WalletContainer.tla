-------------------------- MODULE WalletContainer --------------------------
(***************************************************************************)
(* The flat encrypted container backend of src/src/Core/Wallet.cpp        *)
(* (class WalletContainerStorage).                                        *)
(*                                                                         *)
(* State of the wallet object: m_wallet_records, m_records_map,           *)
(* m_oldest_timestamp, m_wallet_key and whether m_file is open.           *)
(* State of the file: what reads see (the page cache, "page") and what    *)
(* survives a power loss ("disk"); fsync copies the first to the second.  *)
(* A key pair is one model value; a password stands for the chacha key    *)
(* generate_chacha8_key derives from it; a record slot of the file keeps  *)
(* the key it was encrypted under, which is all decryption depends on.    *)
(* generate_new_addresses is split at its loop iterations and at its two  *)
(* fsyncs, the points where an exception or a power loss can stop it.     *)
(***************************************************************************)
EXTENDS Naturals, Sequences, FiniteSets, FiniteSetsExt

CONSTANTS
    Key,         \* spend key pairs, identified by their public keys
    Password,    \* passwords, i.e. the wallet keys derived from them
    Time,        \* nonzero timestamps of the clock ("now") and of blocks
    ImportTime,  \* creation timestamps a caller passes with imported keys
    TMAX,        \* std::numeric_limits<Timestamp>::max()
    MaxRecords,  \* bound: record slots of the wallet file
    MaxBatch,    \* bound: length of the sks vector of generate_new_addresses
    MainNet,     \* m_currency.net == "main"
    SaveMayFail, \* the disk may fail save() or the atomic replace
    Zero,        \* SecretKey{} in sks: generate a random key pair
    BadSk,       \* a secret that secret_key_to_public_key rejects
    Hole,        \* a slot never written: reads as zero bytes
    NoFile,      \* no file at m_path
    NoPw         \* no wallet object, so no m_wallet_key

ASSUME /\ Time \subseteq Nat \ {0}
       /\ ImportTime \subseteq Nat
       /\ TMAX \in Nat /\ \A t \in Time \cup ImportTime : t < TMAX
       \* every slot is within the first or last CHECK_KEYS_COUNT = 128 records
       /\ MaxRecords \in 1..256
       \* random_keypair always finds a key not yet in m_records_map
       /\ Cardinality(Key) > MaxRecords
       /\ MaxBatch \in Nat
       /\ MainNet \in BOOLEAN /\ SaveMayFail \in BOOLEAN
       /\ {Zero, BadSk} \cap Key = {}

Slots == 1..MaxRecords
Ts    == {0} \cup Time \cup ImportTime
Rec   == [pk : Key, ct : Ts]
Image == [key : Password, cap : 0..MaxRecords, count : 0..MaxRecords,
          slot : [Slots -> [pk : Key, ct : Ts, key : Password] \cup {Hole}]]
Input == {Zero, BadSk} \cup Key
NoGen == [sks |-> <<>>, ct |-> 0, now |-> 0, rescan |-> FALSE, pos |-> 1,
          result |-> {}]

VARIABLES
    records,  \* m_wallet_records
    recmap,   \* m_records_map: public key -> position in records
    oldest,   \* m_oldest_timestamp
    wkey,     \* m_wallet_key
    hasFile,  \* m_file is open (reset by a failed atomic replace)
    life,     \* "none": no wallet file yet, "open": a wallet object, "down": none
    pc,       \* step of generate_new_addresses: "idle", "loop", "sync"
    gen,      \* its locals: remaining sks, ct, now, *rescan_from_ct, write slot, result
    page,     \* the wallet file as reads see it
    disk,     \* the wallet file as it survives a power loss
    issued,   \* ghost: key -> oldest creation timestamp returned to a caller for it
    userPw,   \* ghost: the password the user last set successfully
    pinned    \* ghost: ts of the last on_first_output_found that pinned, else 0

vars == <<records, recmap, oldest, wkey, hasFile, life, pc, gen, page, disk,
          issued, userPw, pinned>>
memVars == <<records, recmap, oldest, wkey, hasFile, pc, gen>>

EmptyMap == [k \in {} |-> 1]

\* issued after records rs were returned to the caller.
Issue(rs) ==
    LET D == DOMAIN issued \cup {r.pk : r \in rs}
        cts(k) == {r.ct : r \in {x \in rs : x.pk = k}}
              \cup (IF k \in DOMAIN issued THEN {issued[k]} ELSE {})
    IN [k \in D |-> Min(cts(k))]

\* m_oldest_timestamp of a fresh object: Wallet.hpp initialises it to the
\* maximum Timestamp (load() can only lower it with std::min).
OldestOf(recs) == Min({TMAX} \cup {recs[i].ct : i \in DOMAIN recs})

----------------------------------------------------------------------------
(* The file format: save, load_container_storage, load                    *)

\* wallet_file_size/save: version, prefix with the view keys, capacity =
\* count = number of records, then every record encrypted under pw.
FileImage(recs, pw) ==
    [key |-> pw, cap |-> Len(recs), count |-> Len(recs),
     slot |-> [i \in Slots |-> IF i <= Len(recs)
                               THEN [pk |-> recs[i].pk, ct |-> recs[i].ct, key |-> pw]
                               ELSE Hole]]

\* item_count = min(f_item_count, f_item_capacity), against write shredding.
ItemCount(img) == Min({img.count, img.cap})

\* load_container_storage and load() succeed: the view keys decrypt to a
\* matching pair, every record decrypts to a matching pair (a record under
\* another key or a hole decrypts to random bytes), and there is a record.
Readable(img, pw) ==
    /\ img # NoFile
    /\ img.key = pw
    /\ \A i \in 1..ItemCount(img) : img.slot[i] # Hole /\ img.slot[i].key = pw
    /\ ItemCount(img) > 0

LoadedRecords(img) ==
    [i \in 1..ItemCount(img) |-> [pk |-> img.slot[i].pk, ct |-> img.slot[i].ct]]

\* m_records_map.insert for positions from..Len(recs): an existing key keeps
\* its position, a new key gets the first position that holds it.
InsertAll(map, recs, from) ==
    LET new == {recs[i].pk : i \in from..Len(recs)} \ DOMAIN map
    IN [k \in DOMAIN map \cup new |->
          IF k \in DOMAIN map THEN map[k]
          ELSE Min({i \in from..Len(recs) : recs[i].pk = k})]

\* The object after load() read img: load_container_storage appends to
\* m_wallet_records without clearing it and lowers m_oldest_timestamp.
\* It truncates a file longer than wallet_file_size(item_count).
LoadInto(img) ==
    LET recs == records \o LoadedRecords(img)
    IN /\ records' = recs
       /\ recmap' = InsertAll(recmap, recs, Len(records) + 1)
       /\ oldest' = Min({oldest, OldestOf(LoadedRecords(img))})

TruncateTo(img) ==
    [img EXCEPT !.slot = [i \in Slots |-> IF i > ItemCount(img) THEN Hole ELSE @[i]]]

\* save_and_check: "io_tmp" when save() of <path>.tmp throws, "mismatch" when
\* the container reloaded from it differs from *this, "io_replace" when
\* atomic_replace_file fails after m_file.reset(), "ok" after the replace.
SaveOutcomes(recs, old, pw) ==
    LET other == LoadedRecords(FileImage(recs, pw))
    IN (IF SaveMayFail THEN {"io_tmp", "io_replace"} ELSE {})
       \cup {IF other = recs /\ OldestOf(other) = old THEN "ok" ELSE "mismatch"}

\* The file and m_file after save_and_check of recs under pw ended with o;
\* dur is the durable file before it. The replaced file is fsynced.
AfterSave(o, recs, pw, dur) ==
    /\ page' = IF o = "ok" THEN FileImage(recs, pw) ELSE page
    /\ disk' = IF o = "ok" THEN FileImage(recs, pw) ELSE dur
    /\ hasFile' = CASE o = "ok"         -> TRUE
                    [] o = "io_replace" -> FALSE
                    [] OTHER            -> hasFile

----------------------------------------------------------------------------
(* Life cycle: the constructors, a killed process, a power loss           *)

Init ==
    /\ records = <<>> /\ recmap = EmptyMap /\ oldest = TMAX /\ wkey = NoPw
    /\ hasFile = FALSE /\ life = "none" /\ pc = "idle" /\ gen = NoGen
    /\ page = NoFile /\ disk = NoFile /\ issued = EmptyMap /\ userPw = NoPw
    /\ pinned = 0

\* The creating constructor: a random wallet (first record at now, oldest =
\* now) or one imported key (oldest = 0), save_and_check, then load().
\* O_CREATE_NEW has created m_path empty; if save_and_check throws it stays
\* an empty file that no password opens, and there is no wallet object.
Create(r, old, pw) ==
    /\ life = "none" /\ page = NoFile
    /\ \E o \in SaveOutcomes(<<r>>, old, pw) :
         IF o = "ok"
         THEN /\ records' = <<r, r>>
              /\ recmap' = [k \in {r.pk} |-> 1]
              /\ oldest' = Min({old, r.ct})
              /\ wkey' = pw /\ hasFile' = TRUE /\ life' = "open"
              /\ page' = FileImage(<<r>>, pw) /\ disk' = page'
              /\ issued' = [k \in {r.pk} |-> r.ct] /\ userPw' = pw
              /\ UNCHANGED pinned
              /\ UNCHANGED <<pc, gen>>
         ELSE /\ page' = [key |-> pw, cap |-> 0, count |-> 0, slot |-> [i \in Slots |-> Hole]]
              /\ disk' = page'
              /\ UNCHANGED <<records, recmap, oldest, wkey, hasFile, life, pc,
                             gen, issued, userPw, pinned>>

CreateNew(k, now, pw) == Create([pk |-> k, ct |-> now], now, pw)

CreateImport(k, ct, pw) == Create([pk |-> k, ct |-> ct], 0, pw)

\* The opening constructor with a password: load() of the existing file.
Open(pw) ==
    /\ life = "down"
    /\ Readable(page, pw)
    /\ LoadInto(page)
    /\ wkey' = pw /\ hasFile' = TRUE /\ life' = "open"
    /\ page' = TruncateTo(page)
    /\ UNCHANGED <<pc, gen, disk, issued, userPw, pinned>>

\* The wallet object is gone; what it wrote stays in the page cache.
ResetMemory ==
    /\ records' = <<>> /\ recmap' = EmptyMap /\ oldest' = TMAX /\ wkey' = NoPw
    /\ hasFile' = FALSE /\ pc' = "idle" /\ gen' = NoGen

Kill ==
    /\ life = "open"
    /\ life' = "down"
    /\ ResetMemory
    /\ UNCHANGED <<page, disk, issued, userPw, pinned>>

\* A power loss keeps any subset of the writes made since the last fsync.
CrashImages(d, p) ==
    {[key |-> d.key, cap |-> c, count |-> n,
      slot |-> [i \in Slots |-> IF i \in S THEN p.slot[i] ELSE d.slot[i]]] :
        c \in {d.cap, p.cap}, n \in {d.count, p.count}, S \in SUBSET Slots}

PowerLoss ==
    /\ disk # NoFile
    /\ life = "open" \/ page # disk
    /\ \E img \in CrashImages(disk, page) : disk' = img /\ page' = img
    /\ life' = "down"
    /\ ResetMemory
    /\ UNCHANGED <<issued, userPw, pinned>>

----------------------------------------------------------------------------
(* Operations of an open wallet                                           *)

Idle == life = "open" /\ pc = "idle"

\* generate_new_addresses, up to the loop: view-only wallets throw (all
\* wallets modelled here can spend); a wallet whose m_file was reset is
\* first rewritten by save_and_check; the append position is
\* wallet_file_size(m_wallet_records.size()).
GenStart(sks, ct, now) ==
    /\ Idle
    /\ Len(records) + Len(sks) <= MaxRecords
    /\ IF hasFile
       THEN /\ pc' = "loop"
            /\ gen' = [sks |-> sks, ct |-> ct, now |-> now, rescan |-> FALSE,
                       pos |-> Len(records) + 1, result |-> {}]
            /\ UNCHANGED <<page, disk, hasFile>>
       ELSE \E o \in SaveOutcomes(records, oldest, wkey) :
              /\ AfterSave(o, records, wkey, disk)
              /\ pc' = IF o = "ok" THEN "loop" ELSE "idle"
              /\ gen' = IF o = "ok"
                        THEN [sks |-> sks, ct |-> ct, now |-> now, rescan |-> FALSE,
                              pos |-> Len(records) + 1, result |-> {}]
                        ELSE NoGen
    /\ UNCHANGED <<records, recmap, oldest, wkey, life, issued, userPw, pinned>>

\* A record not yet in m_records_map: index it, append it, encrypt it under
\* m_wallet_key and write it at the append position (no fsync yet).
AppendRecord(r) ==
    /\ recmap' = [k \in DOMAIN recmap \cup {r.pk} |->
                    IF k = r.pk THEN Len(records) + 1 ELSE recmap[k]]
    /\ records' = Append(records, r)
    /\ page' = [page EXCEPT !.slot[gen.pos] = [pk |-> r.pk, ct |-> r.ct, key |-> wkey]]
    /\ gen' = [gen EXCEPT !.sks = Tail(@), !.pos = @ + 1, !.result = @ \cup {r}]

\* A key already present: lower its creation timestamp when ct is older
\* (and ask the caller to rescan), return the stored record.
KnownRecord(r) ==
    LET i   == recmap[r.pk]
        low == records[i].ct > r.ct
        cur == [records[i] EXCEPT !.ct = IF low THEN r.ct ELSE @]
    IN /\ records' = [records EXCEPT ![i] = cur]
       /\ oldest' = IF low THEN Min({oldest, r.ct}) ELSE oldest
       /\ gen' = [gen EXCEPT !.sks = Tail(@), !.rescan = @ \/ low,
                             !.result = @ \cup {cur}]
       /\ UNCHANGED <<recmap, page>>

\* One iteration of the loop over sks.
GenItem ==
    /\ life = "open" /\ pc = "loop" /\ gen.sks # <<>>
    /\ LET sk == Head(gen.sks) IN
       CASE sk = Zero ->
              \* random_keypair until the key is new; m_oldest_timestamp lowered to now
              \E k \in Key \ DOMAIN recmap :
                /\ AppendRecord([pk |-> k, ct |-> gen.now])
                /\ oldest' = Min({oldest, gen.now})
                /\ pc' = pc
         [] sk = BadSk ->
              \* throws: what earlier iterations did stays in memory and the page cache
              /\ pc' = "idle" /\ gen' = NoGen
              /\ UNCHANGED <<records, recmap, oldest, page>>
         [] OTHER ->
              \* an imported secret: creation timestamp ct, m_oldest_timestamp untouched
              /\ IF sk \in DOMAIN recmap
                 THEN KnownRecord([pk |-> sk, ct |-> gen.ct])
                 ELSE AppendRecord([pk |-> sk, ct |-> gen.ct]) /\ UNCHANGED oldest
              /\ pc' = pc
    /\ UNCHANGED <<wkey, hasFile, life, disk, issued, userPw, pinned>>

\* Mutant: no fsync before item_count is rewritten.
GenSyncNoFsync ==
    /\ life = "open" /\ pc = "loop" /\ gen.sks = <<>>
    /\ page' = [page EXCEPT !.cap = Len(records), !.count = Len(records)]
    /\ pc' = "sync"
    /\ UNCHANGED <<disk, records, recmap, oldest, wkey, hasFile, life, gen, issued, userPw, pinned>>

\* Mutant: item_count written one past the records (item_capacity right).
GenSyncCountPastEnd ==
    /\ life = "open" /\ pc = "loop" /\ gen.sks = <<>>
    /\ disk' = page
    /\ page' = [page EXCEPT !.cap = Len(records), !.count = Len(records) + 1]
    /\ pc' = "sync"
    /\ UNCHANGED <<records, recmap, oldest, wkey, hasFile, life, gen, issued, userPw, pinned>>

\* After the loop: fsync, then item_capacity and item_count rewritten in place.
GenSync ==
    /\ life = "open" /\ pc = "loop" /\ gen.sks = <<>>
    /\ disk' = page
    /\ page' = [page EXCEPT !.cap = Len(records), !.count = Len(records)]
    /\ pc' = "sync"
    /\ UNCHANGED <<records, recmap, oldest, wkey, hasFile, life, gen, issued, userPw, pinned>>

\* Mutant: the result is returned without the final fsync.
GenFinishNoFsync ==
    /\ life = "open" /\ pc = "sync"
    /\ IF gen.rescan
       THEN \E o \in SaveOutcomes(records, oldest, wkey) :
              /\ AfterSave(o, records, wkey, page)
              /\ issued' = IF o = "ok" THEN Issue(gen.result) ELSE issued
       ELSE /\ issued' = Issue(gen.result)
            /\ UNCHANGED <<page, disk, hasFile>>
    /\ pc' = "idle" /\ gen' = NoGen
    /\ UNCHANGED <<records, recmap, oldest, wkey, life, userPw, pinned>>

\* fsync; when a timestamp was lowered, save_and_check rewrites the whole
\* file (records are never written in the middle); then return the result.
GenFinish ==
    /\ life = "open" /\ pc = "sync"
    /\ IF gen.rescan
       THEN \E o \in SaveOutcomes(records, oldest, wkey) :
              /\ AfterSave(o, records, wkey, page)
              /\ issued' = IF o = "ok" THEN Issue(gen.result) ELSE issued
       ELSE /\ disk' = page
            /\ issued' = Issue(gen.result)
            /\ UNCHANGED <<page, hasFile>>
    /\ pc' = "idle" /\ gen' = NoGen
    /\ UNCHANGED <<records, recmap, oldest, wkey, life, userPw, pinned>>

\* set_password: the new key replaces m_wallet_key, then save_and_check.
SetPassword(pw) ==
    /\ Idle
    /\ wkey' = pw
    /\ \E o \in SaveOutcomes(records, oldest, pw) :
         /\ AfterSave(o, records, pw, disk)
         /\ userPw' = IF o = "ok" THEN pw ELSE userPw
    /\ UNCHANGED <<records, recmap, oldest, life, pc, gen, issued, pinned>>

\* on_first_output_found (main net only, m_oldest_timestamp unknown, ts
\* known): pin the timestamp, give it to every record created at 0, save.
OnFirstOutputFound(ts) ==
    /\ Idle
    /\ MainNet /\ ts # 0 /\ oldest = 0
    /\ LET recs == [i \in DOMAIN records |->
                      [records[i] EXCEPT !.ct = IF @ = 0 THEN ts ELSE @]]
       IN /\ records' = recs
          /\ oldest' = ts
          /\ \E o \in SaveOutcomes(recs, ts, wkey) : AfterSave(o, recs, wkey, disk)
    /\ pinned' = ts
    /\ UNCHANGED <<recmap, wkey, life, pc, gen, issued, userPw>>

----------------------------------------------------------------------------
(* Specifications                                                         *)

Batch == UNION {[1..n -> Input] : n \in 0..MaxBatch}

Operate ==
    \/ \E pw \in Password : Open(pw) \/ SetPassword(pw)
    \/ Kill
    \/ PowerLoss
    \/ \E sks \in Batch, ct \in ImportTime, now \in Time : GenStart(sks, ct, now)
    \/ GenItem
    \/ GenSync
    \/ GenFinish
    \/ \E ts \in Time : OnFirstOutputFound(ts)

Next ==
    \/ \E k \in Key, pw \in Password :
         \/ \E now \in Time : CreateNew(k, now, pw)
         \/ \E ct \in ImportTime : CreateImport(k, ct, pw)
    \/ Operate

\* From an empty directory: the creating constructor's object goes on.
Spec == Init /\ [][Next]_vars

\* A wallet file left by a creating constructor that succeeded, opened by a
\* later process.
InitReopened ==
    /\ \E k \in Key, pw \in Password, r \in Rec, old \in Ts :
         /\ \/ \E now \in Time : r = [pk |-> k, ct |-> now] /\ old = now
            \/ \E ct \in ImportTime : r = [pk |-> k, ct |-> ct] /\ old = 0
         /\ "ok" \in SaveOutcomes(<<r>>, old, pw)
         /\ page = FileImage(<<r>>, pw) /\ disk = page
         /\ issued = [x \in {r.pk} |-> r.ct] /\ userPw = pw /\ pinned = 0
    /\ records = <<>> /\ recmap = EmptyMap /\ oldest = TMAX /\ wkey = NoPw
    /\ hasFile = FALSE /\ life = "down" /\ pc = "idle" /\ gen = NoGen

SpecReopened == InitReopened /\ [][Operate]_vars

----------------------------------------------------------------------------
(* Properties                                                             *)

TypeOK ==
    /\ records \in Seq(Rec) /\ Len(records) <= MaxRecords
    /\ recmap \in UNION {[D -> 1..MaxRecords] : D \in SUBSET Key}
    /\ oldest \in Ts \cup {TMAX}
    /\ wkey \in Password \cup {NoPw}
    /\ hasFile \in BOOLEAN
    /\ life \in {"none", "open", "down"}
    /\ pc \in {"idle", "loop", "sync"}
    /\ page \in Image \cup {NoFile}
    /\ disk \in Image \cup {NoFile}
    /\ issued \in UNION {[D -> Ts] : D \in SUBSET Key}
    /\ userPw \in Password \cup {NoPw}
    /\ pinned \in {0} \cup Time

\* Whatever a power loss leaves, and whatever the page cache holds, the
\* wallet file opens with the password the user last set: the records
\* generate_new_addresses appends are fsynced before item_count covers
\* them, and every record is encrypted under the file's key.
DurableOpens ==
    disk # NoFile => Readable(disk, userPw) /\ Readable(page, userPw)

\* Every address generate_new_addresses (or the constructor) returned is
\* in the durable file, within item_count: an address handed out to a
\* payer survives a power loss at any later point.
ReturnedAddressesDurable ==
    \A k \in DOMAIN issued :
      \E i \in 1..ItemCount(disk) : disk.slot[i] # Hole /\ disk.slot[i].pk = k

\* The creation timestamp the wallet returned for an address is durable: the
\* file holds it or an earlier one (until on_first_output_found replaces
\* unknown timestamps): a lowered timestamp that the caller was told, or
\* not told, to rescan from is not lost by a restart.
ReturnedTimestampsDurable ==
    pinned = 0 =>
      \A k \in DOMAIN issued :
        \E i \in 1..ItemCount(disk) :
          disk.slot[i] # Hole /\ disk.slot[i].pk = k /\ disk.slot[i].ct <= issued[k]

\* Whenever no operation runs, m_oldest_timestamp is the oldest creation
\* timestamp of the records (spec section 8, invariant 2). save_and_check
\* compares it with that of a container freshly loaded from the written
\* file, which is exactly that minimum; where they differ every later
\* save_and_check throws WALLET_FILE_WRITE_ERROR on a healthy disk.
OldestIsMinimum ==
    life = "open" /\ pc = "idle" => oldest = OldestOf(records)

====
