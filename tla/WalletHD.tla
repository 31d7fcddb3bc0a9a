------------------------------ MODULE WalletHD ------------------------------
(***************************************************************************)
(* The deterministic SQLite backend of src/src/Core/Wallet.cpp (class     *)
(* WalletHD).                                                              *)
(*                                                                         *)
(* The database is one long transaction: "wdb" is what the wallet's own    *)
(* statements see, "cdb" what the last commit() made durable; a crash or   *)
(* a killed process rolls back to cdb. A database is abstracted to the    *)
(* logical contents of its tables: the key its rows are encrypted under    *)
(* (derived from salt and password), total_address_count,                 *)
(* creation_timestamp, the payment queue and the labels. Records are      *)
(* deterministic, so record i is just the index i and m_records_map the   *)
(* identity on 0..nrec-1.                                                  *)
(***************************************************************************)
EXTENDS Naturals, FiniteSets

CONSTANTS
    Password,    \* passwords (with the salt: the wallet keys)
    Time,        \* nonzero block timestamps
    TMAX,        \* std::numeric_limits<Timestamp>::max()
    GA,          \* GENERATE_AHEAD
    MaxUsed,     \* bound: m_used_address_count
    MaxBatch,    \* bound: length of the sks vector of generate_new_addresses
    Tid,         \* transaction ids of the payment queue
    XTid,        \* those whose first byte is 'x'
    Addr,        \* addresses that may carry a label
    Label,       \* nonempty labels
    NoDb,        \* no database file
    NoTs,        \* no creation_timestamp parameter
    NoLabel,     \* the empty label: no row
    ExportPw,    \* bound: passwords export_wallet is called with
    ExportVo,    \* bound: view_only arguments export_wallet is called with
    CreateMayCrash \* whether the process may die inside the creating constructor

ASSUME /\ Time \subseteq Nat \ {0} /\ TMAX \in Nat /\ \A t \in Time : t < TMAX
       /\ GA \in Nat \ {0} /\ MaxUsed \in Nat /\ MaxBatch \in Nat \ {0}
       /\ XTid \subseteq Tid /\ ExportPw \subseteq Password /\ ExportVo \subseteq BOOLEAN
       /\ CreateMayCrash \in BOOLEAN

\* m_oldest_timestamp of a fresh object (Wallet.hpp, as for the container).
DefaultOldest == TMAX

NoLabels == [a \in Addr |-> NoLabel]
\* params: the parameter rows load() requires (version, coinname,
\* address-type, mnemonic) are present.
Db == [key : Password, params : BOOLEAN, count : 0..MaxUsed, cts : Time \cup {NoTs},
       pq : SUBSET Tid, labels : [Addr -> Label \cup {NoLabel}]]

VARIABLES
    life,       \* "none": no file yet, "creating": inside the creating
                \* constructor, "open": a wallet object, "down": none,
                \* "stuck": the creating constructor died before its commit
    cdb,        \* the committed database
    wdb,        \* the database inside the open transaction
    used,       \* m_used_address_count
    nrec,       \* m_wallet_records.size()
    oldest,     \* m_oldest_timestamp
    mlabels,    \* m_labels
    wkey,       \* m_wallet_key
    pc,         \* "idle", or "setpw" inside set_password
    todoLabels, \* set_password: labels not yet rewritten
    todoQueue,  \* set_password: payment queue entries not yet rewritten
    given,      \* ghost: indices returned or seen in an output so far
    appq,       \* ghost: the payment queue the application has built
    promised,   \* ghost: the part of appq a commit has made durable
    userPw,     \* ghost: the password last set successfully
    efile,      \* export_wallet: the export file exists
    edb,        \* export_wallet: the database the export committed (NoDb: none)
    ewdb,       \* export_wallet: the export's open transaction
    esnap       \* ghost: the database the export was to produce

vars == <<life, cdb, wdb, used, nrec, oldest, mlabels, wkey, pc, todoLabels,
          todoQueue, given, appq, promised, userPw, efile, edb, ewdb, esnap>>
expVars == <<efile, edb, ewdb, esnap>>

----------------------------------------------------------------------------
(* Helpers                                                                *)

\* Mutant: one record too many is materialised.
AheadPastWindow(u, size) == IF size >= u + GA THEN size ELSE u + GA + 1

\* generate_ahead: materialise records up to used + GENERATE_AHEAD.
Ahead(u, size) == IF size >= u + GA THEN size ELSE u + GA

\* commit(): the open transaction becomes durable; the application's
\* queue is durable from here on.
Commit ==
    /\ cdb' = wdb'
    /\ promised' = appq'

\* Mutant: load() without generate_ahead.
LoadNoAhead(db) ==
    /\ used' = db.count
    /\ oldest' = IF db.cts = NoTs THEN 0 ELSE db.cts
    /\ nrec' = 0
    /\ mlabels' = db.labels

\* load(): parameters into memory, m_oldest_timestamp = creation_timestamp
\* or 0 when absent, generate_ahead from an empty vector, labels.
Load(db) ==
    /\ used' = db.count
    /\ oldest' = IF db.cts = NoTs THEN 0 ELSE db.cts
    /\ nrec' = Ahead(db.count, 0)
    /\ mlabels' = db.labels

Idle == life = "open" /\ pc = "idle"

----------------------------------------------------------------------------
(* Life cycle                                                             *)

Init ==
    /\ life = "none" /\ cdb = NoDb /\ wdb = NoDb
    /\ used = 0 /\ nrec = 0 /\ oldest = DefaultOldest /\ mlabels = NoLabels
    /\ wkey = CHOOSE p \in Password : TRUE
    /\ pc = "idle" /\ todoLabels = {} /\ todoQueue = {}
    /\ given = {} /\ appq = {} /\ promised = {}
    /\ userPw = CHOOSE p \in Password : TRUE
    /\ efile = FALSE /\ edb = NoDb /\ ewdb = NoDb /\ esnap = NoDb

\* The creating constructor up to its key: open_check_create with
\* O_CREATE_NEW (the file now exists), the tables, put_salt and
\* m_wallet_key, all inside the first transaction.
CreateTables(pw) ==
    /\ life = "none"
    /\ life' = "creating"
    /\ wdb' = [key |-> pw, params |-> FALSE, count |-> 0, cts |-> NoTs,
               pq |-> {}, labels |-> NoLabels]
    /\ wkey' = pw
    /\ UNCHANGED expVars
    /\ UNCHANGED <<used, nrec, oldest, mlabels, pc, todoLabels, todoQueue, given,
                   appq, userPw>>

\* Mutant: the tables and the salt are committed at once.
CreateBeginCommit(pw) == CreateTables(pw) /\ Commit

\* The creating constructor up to its key: nothing is committed.
CreateBegin(pw) == CreateTables(pw) /\ UNCHANGED <<cdb, promised>>

\* The rest of the creating constructor with a mnemonic: the parameters
\* (count 0), on_first_output_found(creation_timestamp) while
\* m_oldest_timestamp still has its default, load(), commit().
CreateFinish(ct) ==
    LET pin == DefaultOldest = 0 /\ ct # 0
        db  == [wdb EXCEPT !.params = TRUE, !.cts = IF pin THEN ct ELSE NoTs]
    IN /\ life = "creating"
       /\ wdb' = db
       /\ Load(db)
       /\ life' = "open"
       /\ userPw' = wkey
       /\ UNCHANGED expVars
       /\ UNCHANGED <<wkey, pc, todoLabels, todoQueue, given, appq>>
       /\ Commit

\* The opening constructor: the salted key must match, then load().
Open(pw) ==
    /\ UNCHANGED expVars
    /\ life = "down" /\ cdb # NoDb
    /\ cdb.key = pw /\ cdb.params
    /\ wdb' = cdb
    /\ Load(cdb)
    /\ wkey' = pw /\ life' = "open"
    /\ appq' = cdb.pq
    /\ UNCHANGED <<cdb, pc, todoLabels, todoQueue, given, promised, userPw>>

\* The process ends (killed or power lost); SQLite rolls back the open
\* transaction. Inside the creating constructor nothing is committed yet:
\* the file is left without a database, get_salt's invariant fails in the
\* opening constructor and O_CREATE_NEW fails in the creating one.
Crash ==
    /\ life = "open" \/ (CreateMayCrash /\ life = "creating")
    /\ life' = IF life = "creating" THEN "stuck" ELSE "down"
    /\ wdb' = cdb
    /\ pc' = "idle" /\ todoLabels' = {} /\ todoQueue' = {}
    /\ ewdb' = NoDb
    /\ UNCHANGED <<cdb, used, nrec, oldest, mlabels, wkey, given, appq, promised, userPw,
                   efile, edb, esnap>>

----------------------------------------------------------------------------
(* Operations                                                             *)

\* Grow the used count to count: m_used_address_count, generate_ahead and
\* the persisted count, all in the working transaction.
GrowTo(count) ==
    /\ used' = count
    /\ nrec' = Ahead(count, nrec)
    /\ wdb' = [wdb EXCEPT !.count = count]

\* generate_new_addresses with n zero secrets: bump the used count,
\* generate_ahead, return records was_used..was_used+n-1, persist the
\* count, commit.
GenerateNewAddresses(n) ==
    /\ UNCHANGED expVars
    /\ Idle
    /\ used + n <= MaxUsed
    /\ given' = given \cup used..(used + n - 1)
    /\ GrowTo(used + n)
    /\ UNCHANGED <<life, oldest, mlabels, wkey, pc, todoLabels, todoQueue, appq, userPw>>
    /\ Commit

\* get_look_ahead_record: m_records_map finds the record whose spend key
\* the output handler produced only among the materialised records.
LookAheadRecord(i) == i < nrec

\* Mutant: get_actual_records_count() counts the look-ahead records too.
GetRecordAll(i) == i < nrec

\* get_record for the address of record i (of this wallet's type and
\* auditable flag): found in m_records_map and below
\* get_actual_records_count(), which is m_used_address_count.
GetRecord(i) == i < nrec /\ i < used

\* Mutant: the grown count is put but not committed.
CreateLookAheadRecordsNoCommit(count) ==
    IF count <= used
    THEN UNCHANGED <<cdb, wdb, used, nrec, promised>>
    ELSE GrowTo(count) /\ UNCHANGED <<cdb, promised>>

\* create_look_ahead_records: nothing when count is already used, else
\* grow to count and commit.
CreateLookAheadRecords(count) ==
    IF count <= used
    THEN UNCHANGED <<cdb, wdb, used, nrec, promised>>
    ELSE GrowTo(count) /\ Commit

\* detect_our_output for an output whose underived spend key is that of
\* record i: get_look_ahead_record grows the window to i + 1 before the
\* auditable flag and the output key are checked; those checks only
\* decide the return value. i < MaxUsed bounds the used count.
DetectOutput(i) ==
    /\ UNCHANGED expVars
    /\ Idle
    /\ LookAheadRecord(i) /\ i < MaxUsed
    /\ given' = given \cup {i}
    /\ UNCHANGED <<life, oldest, mlabels, wkey, pc, todoLabels, todoQueue, appq, userPw>>
    /\ CreateLookAheadRecords(i + 1)

\* on_first_output_found: only while m_oldest_timestamp is 0; persists
\* creation_timestamp and commits, leaving m_oldest_timestamp as it is.
OnFirstOutputFound(ts) ==
    /\ UNCHANGED expVars
    /\ Idle
    /\ oldest = 0
    /\ wdb' = [wdb EXCEPT !.cts = ts]
    /\ UNCHANGED <<life, used, nrec, oldest, mlabels, wkey, pc, todoLabels,
                   todoQueue, given, appq, userPw>>
    /\ Commit

\* set_label: an empty label deletes the row; always commits.
SetLabel(a, l) ==
    /\ UNCHANGED expVars
    /\ Idle
    /\ mlabels' = [mlabels EXCEPT ![a] = l]
    /\ wdb' = [wdb EXCEPT !.labels[a] = l]
    /\ UNCHANGED <<life, used, nrec, oldest, wkey, pc, todoLabels, todoQueue,
                   given, appq, userPw>>
    /\ Commit

\* payment_queue_add: REPLACE INTO payment_queue, no commit.
PaymentQueueAdd(t) ==
    /\ UNCHANGED expVars
    /\ Idle
    /\ wdb' = [wdb EXCEPT !.pq = @ \cup {t}]
    /\ appq' = appq \cup {t}
    /\ UNCHANGED <<life, cdb, used, nrec, oldest, mlabels, wkey, pc, todoLabels,
                   todoQueue, given, promised, userPw>>

\* payment_queue_remove: DELETE, committed only when tid[0] == 'x'.
PaymentQueueRemove(t) ==
    /\ UNCHANGED expVars
    /\ Idle
    /\ wdb' = [wdb EXCEPT !.pq = @ \ {t}]
    /\ appq' = appq \ {t}
    /\ IF t \in XTid THEN Commit
       ELSE /\ promised' = promised \ {t}
            /\ UNCHANGED cdb
    /\ UNCHANGED <<life, used, nrec, oldest, mlabels, wkey, pc, todoLabels,
                   todoQueue, given, userPw>>

\* set_password, up to its first commit, with saved the payment queue it
\* read: DELETE every encrypted table, new salt, new m_wallet_key, put the
\* parameters back.
SetPasswordRewrite(pw, saved) ==
    /\ UNCHANGED expVars
    /\ Idle
    /\ todoLabels' = {a \in Addr : mlabels[a] # NoLabel}
    /\ todoQueue' = saved
    /\ wdb' = [wdb EXCEPT !.key = pw, !.pq = {}, !.labels = NoLabels]
    /\ wkey' = pw
    /\ pc' = "setpw"
    /\ UNCHANGED <<life, used, nrec, oldest, mlabels, given, appq, userPw>>

\* Mutant: the payment queue is read after the DELETEs.
SetPasswordStartQueueAfterDelete(pw) ==
    SetPasswordRewrite(pw, {}) /\ UNCHANGED <<cdb, promised>>

\* Mutant: the new salt and the parameters are committed at once.
SetPasswordStartEarlyCommit(pw) ==
    SetPasswordRewrite(pw, wdb.pq) /\ cdb' = wdb' /\ promised' = promised

\* set_password, up to its first commit: the payment queue is read first.
SetPasswordStart(pw) ==
    SetPasswordRewrite(pw, wdb.pq) /\ UNCHANGED <<cdb, promised>>

\* set_password, one iteration over m_labels: set_label(address, label),
\* which commits.
SetPasswordLabel(a) ==
    /\ UNCHANGED expVars
    /\ life = "open" /\ pc = "setpw" /\ a \in todoLabels
    /\ wdb' = [wdb EXCEPT !.labels[a] = mlabels[a]]
    /\ todoLabels' = todoLabels \ {a}
    /\ UNCHANGED <<life, used, nrec, oldest, mlabels, wkey, pc, todoQueue,
                   given, appq, userPw>>
    /\ Commit

\* set_password, one iteration over the saved payment queue:
\* payment_queue_add, no commit.
SetPasswordQueue(t) ==
    /\ UNCHANGED expVars
    /\ life = "open" /\ pc = "setpw" /\ todoLabels = {} /\ t \in todoQueue
    /\ wdb' = [wdb EXCEPT !.pq = @ \cup {t}]
    /\ todoQueue' = todoQueue \ {t}
    /\ UNCHANGED <<life, cdb, used, nrec, oldest, mlabels, wkey, pc, todoLabels,
                   given, appq, promised, userPw>>

\* set_password, the final commit.
SetPasswordFinish ==
    /\ UNCHANGED expVars
    /\ life = "open" /\ pc = "setpw" /\ todoLabels = {} /\ todoQueue = {}
    /\ pc' = "idle"
    /\ userPw' = wkey
    /\ UNCHANGED <<life, wdb, used, nrec, oldest, mlabels, wkey, todoLabels,
                   todoQueue, given, appq>>
    /\ Commit

\* The database a full export (vo = FALSE) or a view-only export of the
\* open wallet under password pw is to hold: the parameters read from the
\* open transaction (the mnemonic rows of a view-only export are not
\* modelled), m_labels, and the payment queue of a full export.
ExportTarget(pw, vo) ==
    [key |-> pw, params |-> TRUE, count |-> wdb.count, cts |-> wdb.cts,
     pq |-> IF vo THEN {} ELSE wdb.pq, labels |-> mlabels]

\* export_wallet (and backup, a full export): the creating constructor of
\* "other" with an empty mnemonic (O_CREATE_NEW, so an existing file
\* throws; tables and salt), then other.put of every parameter.
ExportOpen(pw, vo) ==
    /\ Idle /\ ~efile
    /\ efile' = TRUE
    /\ ewdb' = [ExportTarget(pw, vo) EXCEPT !.pq = {}, !.labels = NoLabels]
    /\ esnap' = ExportTarget(pw, vo)
    /\ todoLabels' = {a \in Addr : mlabels[a] # NoLabel}
    /\ todoQueue' = ExportTarget(pw, vo).pq
    /\ pc' = "export"
    /\ UNCHANGED <<life, cdb, wdb, used, nrec, oldest, mlabels, wkey, given, appq,
                   promised, userPw>>

\* Mutant: the export's parameters are committed at once.
ExportStartEarlyCommit(pw, vo) == ExportOpen(pw, vo) /\ edb' = ewdb'

\* export_wallet up to the label loop: nothing is committed yet.
ExportStart(pw, vo) == ExportOpen(pw, vo) /\ UNCHANGED edb

\* export_wallet, one iteration over m_labels: other.set_label, which
\* commits the export.
ExportLabel(a) ==
    /\ life = "open" /\ pc = "export" /\ a \in todoLabels
    /\ ewdb' = [ewdb EXCEPT !.labels[a] = mlabels[a]]
    /\ edb' = ewdb'
    /\ todoLabels' = todoLabels \ {a}
    /\ UNCHANGED <<life, cdb, wdb, used, nrec, oldest, mlabels, wkey, pc, todoQueue,
                   given, appq, promised, userPw, efile, esnap>>

\* export_wallet, one iteration over payment_queue_get2(): 
\* other.payment_queue_add, no commit.
ExportQueue(t) ==
    /\ life = "open" /\ pc = "export" /\ todoLabels = {} /\ t \in todoQueue
    /\ ewdb' = [ewdb EXCEPT !.pq = @ \cup {t}]
    /\ todoQueue' = todoQueue \ {t}
    /\ UNCHANGED <<life, cdb, wdb, used, nrec, oldest, mlabels, wkey, pc, todoLabels,
                   given, appq, promised, userPw, efile, edb, esnap>>

\* export_wallet, other.commit(); "other" is destroyed.
ExportFinish ==
    /\ life = "open" /\ pc = "export" /\ todoLabels = {} /\ todoQueue = {}
    /\ edb' = ewdb
    /\ ewdb' = NoDb
    /\ pc' = "idle"
    /\ UNCHANGED <<life, cdb, wdb, used, nrec, oldest, mlabels, wkey, todoLabels,
                   todoQueue, given, appq, promised, userPw, efile, esnap>>

----------------------------------------------------------------------------
(* Specification                                                          *)

Next ==
    \/ \E pw \in Password :
         \/ CreateBegin(pw)
         \/ Open(pw)
         \/ SetPasswordStart(pw)
    \/ \E ct \in {0} \cup Time : CreateFinish(ct)
    \/ Crash
    \/ \E n \in 1..MaxBatch : GenerateNewAddresses(n)
    \/ \E i \in 0..MaxUsed : DetectOutput(i)
    \/ \E ts \in Time : OnFirstOutputFound(ts)
    \/ \E a \in Addr, l \in Label \cup {NoLabel} : SetLabel(a, l)
    \/ \E t \in Tid : PaymentQueueAdd(t) \/ PaymentQueueRemove(t)
    \/ \E a \in Addr : SetPasswordLabel(a)
    \/ \E t \in Tid : SetPasswordQueue(t)
    \/ SetPasswordFinish
    \/ \E pw \in ExportPw, vo \in ExportVo : ExportStart(pw, vo)
    \/ \E a \in Addr : ExportLabel(a)
    \/ \E t \in Tid : ExportQueue(t)
    \/ ExportFinish

Spec == Init /\ [][Next]_vars

\* The abstract address book, with the committed total_address_count as
\* the reserved addresses and the ghost "given" as the handed ones.
AB == INSTANCE AddressBook WITH
        reserved <- IF cdb = NoDb THEN 0 ELSE cdb.count,
        handed <- given

----------------------------------------------------------------------------
(* Properties                                                             *)

TypeOK ==
    /\ life \in {"none", "creating", "open", "down", "stuck"}
    /\ cdb \in Db \cup {NoDb} /\ wdb \in Db \cup {NoDb}
    /\ used \in 0..MaxUsed /\ nrec \in 0..(MaxUsed + GA)
    /\ oldest \in {0, DefaultOldest} \cup Time
    /\ mlabels \in [Addr -> Label \cup {NoLabel}]
    /\ wkey \in Password /\ userPw \in Password
    /\ pc \in {"idle", "setpw", "export"}
    /\ todoLabels \subseteq Addr /\ todoQueue \subseteq Tid
    /\ given \subseteq 0..(MaxUsed - 1)
    /\ appq \subseteq Tid /\ promised \subseteq Tid
    /\ efile \in BOOLEAN
    /\ edb \in Db \cup {NoDb} /\ ewdb \in Db \cup {NoDb} /\ esnap \in Db \cup {NoDb}

\* Every address handed out or seen in an output is within the
\* materialised records of the open wallet, so detect_our_output
\* recognises payments to it, also after a reopen (look-ahead window).
GivenAddressesRecognised ==
    life = "open" => \A i \in given : i < nrec

\* get_record accepts exactly the addresses whose use is durable: in an
\* open wallet it accepts record i iff i is below the committed
\* total_address_count, so its answers survive a crash and reopen, and it
\* accepts every address handed out or seen in an output (detect_our_output
\* grows and commits the count before it returns).
GetRecordDurable ==
    life = "open" =>
        \A i \in 0..(MaxUsed + GA) :
            /\ GetRecord(i) <=> i < cdb.count
            /\ i \in given => GetRecord(i)

\* A payment queue entry that a commit has made durable stays in the
\* committed database until the application removes it: no commit ever
\* writes a database that lacks it (set_password rewrites the queue).
QueuedPaymentsDurable ==
    cdb # NoDb => promised \subseteq cdb.pq

\* The committed database is always encrypted under the password the
\* user last set successfully, so a restart opens it with that password.
DbOpensWithUserPassword ==
    cdb # NoDb => cdb.key = userPw

\* WalletHD implements the address book: across crashes, reopens and
\* set_password, generate_new_addresses hands out exactly the addresses
\* after the committed count and commits them before returning, and
\* detect_our_output only recognises addresses within GENERATE_AHEAD of
\* the committed count and commits the count it grows.
AddressBookRefined == AB!ABSpec

\* A committed export (a backup) is the whole wallet at the time of the
\* call, under the new password: once the export file holds a database,
\* it holds every parameter, label and, for a full export, every payment
\* queue entry of the exported wallet, not a part of them.
ExportedWalletComplete ==
    edb # NoDb => edb = esnap

\* The creating constructor commits once, at its end: whenever the wallet
\* file holds a committed database, it holds the parameters load() needs,
\* and from the moment the constructor has returned (and after any crash
\* and reopen) it holds one, so the opening constructor accepts the file.
\* Only a crash inside the constructor leaves a file no constructor accepts.
WalletFileLoads ==
    /\ cdb # NoDb => cdb.params
    /\ life \in {"open", "down"} => cdb # NoDb

\* creation_timestamp, once persisted, is never replaced:
\* on_first_output_found pins the first output's timestamp only once
\* (spec: "first-time timestamp pinning").
CreationTimestampPinnedOnce ==
    [][cdb # NoDb /\ cdb.cts # NoTs => cdb'.cts = cdb.cts]_cdb

====
