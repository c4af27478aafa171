------------------------------ MODULE Accounts -------------------------------
(***************************************************************************)
(* The account manager of src/accounts.rs.                                 *)
(*                                                                         *)
(* Two pieces of shared state, each behind its own RwLock: the accounts    *)
(* map (id -> Context) of Accounts, and the registry (InnerConfig) of      *)
(* Config, which sync() writes to accounts.toml.  Concurrent API callers   *)
(* run add_account, remove_account, migrate_account, import_account,      *)
(* select_account and get_selected_account; each critical section and     *)
(* each file-system await is one step.  sync() keeps the registry's read  *)
(* guard across fs::write                                                  *)
(* (the guard is a temporary of the tail expression), so the snapshot and  *)
(* the write are one step.  File-system calls and Context construction may *)
(* fail (FsFails); the process may crash and reopen the directory          *)
(* (Crashes).  A Context is abstracted to its presence in the map.         *)
(* Accounts::new, which creates the directory on first use and opens it,  *)
(* runs as one more process, Boot, before the callers can start and after *)
(* every crash.                                                            *)
(***************************************************************************)
EXTENDS Naturals, Sequences, SequencesExt, Functions

CONSTANTS
    Callers,   \* concurrent callers of the manager's API
    Ops,       \* the operations callers invoke, a subset of OpNames
    MaxId,     \* next_id stops here; ids are 1..MaxId
    FsFails,   \* file-system calls and Context::new may fail
    Crashes,   \* the process may crash and reopen
    Boot,      \* the task running Accounts::new
    Torn,      \* accounts.toml truncated by an interrupted fs::write
    Missing,   \* accounts.toml does not exist
    Ext,       \* the database to migrate is at its external path
    Gone       \* ... or has been deleted

OpNames == {"add", "remove", "select", "migrate", "getsel", "import",
            "start_io", "stop_io", "maybe_network"}

ASSUME /\ Ops \subseteq OpNames /\ MaxId \in Nat \ {0}
       /\ FsFails \in BOOLEAN /\ Crashes \in BOOLEAN

Ids == 1..MaxId
Procs == Callers \cup {Boot}

\* InnerConfig: accounts (as their ids, in Vec order), selected_account,
\* next_id.
Registry == [ids: Seq(Ids), sel: 0..MaxId, next: 1..MaxId + 1]

VARIABLES
    up,        \* the process is running (Accounts::open succeeded)
    root,      \* the accounts directory exists
    reg,       \* Config.inner
    disk,      \* accounts.toml: a Registry, Torn or Missing
    ctxs,      \* the keys of the accounts map
    dirs,      \* account directories that exist
    db,        \* where the database to migrate is: Ext, an account id or Gone
    blob,      \* where its blob directory is
    pc,        \* where each caller, and Boot, is
    op,        \* the operation a caller is inside new_account or
               \* remove_account for
    cid,       \* the account id a caller works on
    panicked,  \* the expect() sites that have panicked
    old,       \* old_id of import_account and migrate_account
    io,        \* accounts whose Context runs its scheduler (start_io)
    todo       \* accounts a start_io / stop_io / maybe_network fan-out has still to visit

vars == <<up, root, reg, disk, ctxs, dirs, db, blob, pc, op, cid, panicked, old,
          io, todo>>
fsVars == <<root, dirs, db, blob>>

-----------------------------------------------------------------------------

Goto(c, l) == pc' = [pc EXCEPT ![c] = l]
Panic(c, site) == panicked' = panicked \cup {site} /\ Goto(c, "idle")
InRegistry(i) == i \in ToSet(reg.ids)

\* accounts.write().await can proceed: no start_io / stop_io / maybe_network
\* fan-out holds the map's read lock, which they keep across every
\* account's await.
FanoutPcs == {"io_start", "io_stop", "io_net"}
MapWritable == \A c \in Callers : pc[c] \notin FanoutPcs

\* Config::sync: serialise the registry and fs::write it.  fs::write
\* truncates accounts.toml first, so a write that fails part-way leaves a
\* file that no longer parses.
Synced(c, okPc, errPc) ==
    \/ disk' = reg /\ Goto(c, okPc)
    \/ FsFails /\ disk' \in {disk, Torn} /\ Goto(c, errPc)

-----------------------------------------------------------------------------
(* Config::new_account, called by add_account and migrate_account          *)

\* Mutant: the id handed out is one past next_id.
AllocOffByOne(c) ==
    /\ reg.next <= MaxId
    /\ reg' = [reg EXCEPT !.ids = Append(@, reg.next + 1), !.next = @ + 1]
    /\ cid' = [cid EXCEPT ![c] = reg.next + 1]
    /\ Goto(c, "na_sync1")

\* The write-locked block: id = next_id, push the entry, next_id += 1.
Alloc(c) ==
    /\ reg.next <= MaxId
    /\ reg' = [reg EXCEPT !.ids = Append(@, reg.next), !.next = @ + 1]
    /\ cid' = [cid EXCEPT ![c] = reg.next]
    /\ Goto(c, "na_sync1")

\* self.sync().await?
NewAccountSync(c) ==
    /\ pc[c] = "na_sync1"
    /\ Synced(c, "na_select", "idle")
    /\ UNCHANGED <<up, reg, ctxs, fsVars, op, cid, panicked, old, io, todo>>

\* select_account(id): the entry is there (nothing removes a registry
\* entry whose Context is not in the map), so the ensure! passes.
NewAccountSelect(c) ==
    /\ pc[c] = "na_select"
    /\ reg' = [reg EXCEPT !.sel = cid[c]]
    /\ Goto(c, "na_sync2")
    /\ UNCHANGED <<up, disk, ctxs, fsVars, op, cid, panicked, old, io, todo>>

\* Where new_account's caller goes on once it returns.
AfterNewAccount == [add |-> "add_ctx", import |-> "add_ctx",
                    migrate |-> "mig_mkdir", create |-> "cr_ctx"]

\* select_account's sync; its error reaches .expect("just added").  The
\* get_account(id).expect that follows finds the entry for the same reason
\* as above and returns to the caller.
NewAccountSelectSync(c) ==
    /\ pc[c] = "na_sync2"
    /\ \/ disk' = reg
          /\ Goto(c, AfterNewAccount[op[c]])
          /\ UNCHANGED panicked
       \/ FsFails /\ disk' \in {disk, Torn}
          /\ Panic(c, "new_account: select_account")
    /\ UNCHANGED <<up, reg, ctxs, fsVars, op, cid, old, io, todo>>

-----------------------------------------------------------------------------
(* Accounts: the public operations                                         *)

\* add_account: os_name(), then new_account.
AddAccount(c) ==
    /\ up /\ pc[c] = "idle" /\ "add" \in Ops
    /\ Alloc(c)
    /\ op' = [op EXCEPT ![c] = "add"]
    /\ UNCHANGED <<up, disk, ctxs, fsVars, panicked, old, io, todo>>

\* Mutant: Context::new succeeds but the map insert is missing.
AddContextNoInsert(c) ==
    /\ pc[c] = "add_ctx"
    /\ \/ dirs' = dirs \cup {cid[c]}
          /\ Goto(c, IF op[c] = "import" THEN "imp_get" ELSE "idle")
       \/ FsFails /\ dirs' \in {dirs, dirs \cup {cid[c]}} /\ Goto(c, "idle")
    /\ UNCHANGED <<up, root, reg, disk, ctxs, db, blob, op, cid, panicked, old, io, todo>>

\* Context::new(...).await? then accounts.write().await.insert, and back
\* to the caller: import_account goes on with get_account.  Context::new
\* creates the account directory before it can fail later.
AddContext(c) ==
    /\ pc[c] = "add_ctx"
    /\ \/ /\ MapWritable
          /\ ctxs' = ctxs \cup {cid[c]} /\ dirs' = dirs \cup {cid[c]}
          /\ Goto(c, IF op[c] = "import" THEN "imp_get" ELSE "idle")
       \/ /\ FsFails /\ dirs' \in {dirs, dirs \cup {cid[c]}} /\ UNCHANGED ctxs
          /\ Goto(c, "idle")
    /\ UNCHANGED <<up, root, reg, disk, db, blob, op, cid, panicked, old, io, todo>>

\* migrate_account: both ensure!s pass, old_id =
\* config.get_selected_account(), new_account.
MigrateAccount(c) ==
    /\ up /\ pc[c] = "idle" /\ "migrate" \in Ops
    /\ db = Ext /\ blob = Ext
    /\ Alloc(c)
    /\ op' = [op EXCEPT ![c] = "migrate"]
    /\ old' = [old EXCEPT ![c] = reg.sel]
    /\ UNCHANGED <<up, disk, ctxs, fsVars, panicked, io, todo>>

\* The res block: each `?` returns from migrate_account itself, so the
\* match on res (and its rollback) only ever sees Ok.
MigrateCreateDir(c) ==
    /\ pc[c] = "mig_mkdir"
    /\ \/ dirs' = dirs \cup {cid[c]} /\ Goto(c, "mig_db")
       \/ FsFails /\ Goto(c, "idle") /\ UNCHANGED dirs
    /\ UNCHANGED <<up, root, reg, disk, ctxs, db, blob, op, cid, panicked, old, io, todo>>

\* fs::rename(&dbfile, &new_dbfile).await?: fails when the file is no longer
\* at dbfile (a concurrent migration of the same file moved it).
MigrateRenameDb(c) ==
    /\ pc[c] = "mig_db"
    /\ \/ db = Ext /\ db' = cid[c] /\ Goto(c, "mig_blob")
       \/ (db # Ext \/ FsFails) /\ Goto(c, "idle") /\ UNCHANGED db
    /\ UNCHANGED <<up, root, reg, disk, ctxs, dirs, blob, op, cid, panicked, old, io, todo>>

MigrateRenameBlob(c) ==
    /\ pc[c] = "mig_blob"
    /\ \/ blob = Ext /\ blob' = cid[c] /\ Goto(c, "mig_ctx")
       \/ (blob # Ext \/ FsFails) /\ Goto(c, "idle") /\ UNCHANGED blob
    /\ UNCHANGED <<up, root, reg, disk, ctxs, dirs, db, op, cid, panicked, old, io, todo>>

\* Ok(_) arm: Context::with_blobdir(...).await? then the map insert.
MigrateContext(c) ==
    /\ pc[c] = "mig_ctx"
    /\ \/ MapWritable /\ ctxs' = ctxs \cup {cid[c]}
       \/ FsFails /\ UNCHANGED ctxs
    /\ Goto(c, "idle")
    /\ UNCHANGED <<up, reg, disk, fsVars, op, cid, panicked, old, io, todo>>

\* Mutant: the map removal does not wait for the fan-out's read lock.
RemoveAccountNoLock(c, i) ==
    /\ up /\ pc[c] = "idle" /\ "remove" \in Ops
    /\ i \in ctxs
    /\ ctxs' = ctxs \ {i}
    /\ cid' = [cid EXCEPT ![c] = i]
    /\ op' = [op EXCEPT ![c] = "remove"]
    /\ Goto(c, "rm_dir")
    /\ UNCHANGED <<up, reg, disk, fsVars, panicked, old, io, todo>>

\* remove_account: accounts.write().await.remove(&id); the ensure! fails
\* (no change) unless the id was in the map.
RemoveAccount(c, i) ==
    /\ up /\ pc[c] = "idle" /\ "remove" \in Ops
    /\ MapWritable /\ i \in ctxs
    /\ ctxs' = ctxs \ {i}
    /\ cid' = [cid EXCEPT ![c] = i]
    /\ op' = [op EXCEPT ![c] = "remove"]
    /\ Goto(c, "rm_dir")
    /\ UNCHANGED <<up, reg, disk, fsVars, panicked, old, io, todo>>

\* ctx.stop_io().await, then config.get_account(id) and
\* fs::remove_dir_all(cfg.dir).await?.  The map
\* never holds an id the registry lacks, so get_account finds it.
RemoveDir(c) ==
    LET i == cid[c]
        gone(x) == IF x = i THEN Gone ELSE x
    IN /\ pc[c] = "rm_dir"
       /\ \/ /\ dirs' = dirs \ {i} /\ db' = gone(db) /\ blob' = gone(blob)
             /\ Goto(c, "rm_cfg")
          \/ FsFails /\ Goto(c, "idle") /\ UNCHANGED fsVars
       /\ io' = io \ {i}
       /\ UNCHANGED <<up, root, reg, disk, ctxs, op, cid, panicked, old, todo>>

\* Mutant: the selection is left on the removed id.
RemoveConfigNoReselect(c) ==
    /\ pc[c] = "rm_cfg"
    /\ reg' = [reg EXCEPT !.ids = RemoveFirst(@, cid[c])]
    /\ Goto(c, "rm_sync")
    /\ UNCHANGED <<up, disk, ctxs, fsVars, op, cid, panicked, old, io, todo>>

\* Mutant: the last remaining entry is selected instead of the first.
RemoveConfigReselectLast(c) ==
    LET rest == RemoveFirst(reg.ids, cid[c])
    IN /\ pc[c] = "rm_cfg"
       /\ reg' = [reg EXCEPT !.ids = rest,
                   !.sel = IF @ = cid[c]
                           THEN IF rest = <<>> THEN 0 ELSE rest[Len(rest)]
                           ELSE @]
       /\ Goto(c, "rm_sync")
       /\ UNCHANGED <<up, disk, ctxs, fsVars, op, cid, panicked, old, io, todo>>

\* Mutant: removing the selected account clears the selection.
RemoveConfigReselectNone(c) ==
    /\ pc[c] = "rm_cfg"
    /\ reg' = [reg EXCEPT !.ids = RemoveFirst(@, cid[c]),
                !.sel = IF @ = cid[c] THEN 0 ELSE @]
    /\ Goto(c, "rm_sync")
    /\ UNCHANGED <<up, root, disk, ctxs, fsVars, op, cid, panicked, old, io, todo>>

\* Config::remove_account's write-locked block: drop the entry at its
\* position; if it was selected, select accounts.get(0) or 0.
RemoveConfig(c) ==
    LET rest == RemoveFirst(reg.ids, cid[c])
    IN /\ pc[c] = "rm_cfg"
       /\ reg' = [reg EXCEPT !.ids = rest,
                   !.sel = IF @ = cid[c]
                           THEN IF rest = <<>> THEN 0 ELSE Head(rest)
                           ELSE @]
       /\ Goto(c, "rm_sync")
       /\ UNCHANGED <<up, disk, ctxs, fsVars, op, cid, panicked, old, io, todo>>

\* Config::remove_account's sync, the last step of remove_account.
RemoveSync(c) ==
    /\ pc[c] = "rm_sync"
    /\ Synced(c, IF op[c] = "import" THEN "imp_select" ELSE "idle", "idle")
    /\ UNCHANGED <<up, reg, ctxs, fsVars, op, cid, panicked, old, io, todo>>

\* select_account: the ensure! on the registry, then selected_account = id.
SelectAccount(c, i) ==
    /\ up /\ pc[c] = "idle" /\ "select" \in Ops
    /\ InRegistry(i)
    /\ reg' = [reg EXCEPT !.sel = i]
    /\ Goto(c, "sel_sync")
    /\ UNCHANGED <<up, disk, ctxs, fsVars, op, cid, panicked, old, io, todo>>

SelectSync(c) ==
    /\ pc[c] = "sel_sync"
    /\ Synced(c, "idle", "idle")
    /\ UNCHANGED <<up, reg, ctxs, fsVars, op, cid, panicked, old, io, todo>>

\* get_selected_account: read selected_account under the registry's lock.
\* Called while the registry names accounts, when the selection must exist.
GetSelectedAccount(c) ==
    /\ up /\ pc[c] = "idle" /\ "getsel" \in Ops
    /\ reg.ids # <<>>
    /\ cid' = [cid EXCEPT ![c] = reg.sel]
    /\ Goto(c, "gs_map")
    /\ UNCHANGED <<up, reg, disk, ctxs, fsVars, op, panicked, old, io, todo>>

\* ... then look it up in the map: .expect("inconsistent state").
GetSelectedLookup(c) ==
    /\ pc[c] = "gs_map"
    /\ \/ cid[c] \in ctxs /\ Goto(c, "idle") /\ UNCHANGED panicked
       \/ cid[c] \notin ctxs /\ Panic(c, "get_selected_account")
    /\ UNCHANGED <<up, reg, disk, ctxs, fsVars, op, cid, old, io, todo>>

-----------------------------------------------------------------------------
(* import_account                                                          *)

\* old_id = config.get_selected_account(), under the registry's read lock.
ImportAccount(c) ==
    /\ up /\ pc[c] = "idle" /\ "import" \in Ops
    /\ old' = [old EXCEPT ![c] = reg.sel]
    /\ Goto(c, "imp_add")
    /\ UNCHANGED <<up, reg, disk, ctxs, fsVars, op, cid, panicked, io, todo>>

\* self.add_account().await?: os_name(), then new_account.
ImportAdd(c) ==
    /\ pc[c] = "imp_add"
    /\ Alloc(c)
    /\ op' = [op EXCEPT ![c] = "import"]
    /\ UNCHANGED <<up, disk, ctxs, fsVars, panicked, old, io, todo>>

\* get_account(id).expect("just added"), under the map's read lock.
ImportGet(c) ==
    /\ pc[c] = "imp_get"
    /\ \/ cid[c] \in ctxs /\ Goto(c, "imp_imex") /\ UNCHANGED panicked
       \/ cid[c] \notin ctxs /\ Panic(c, "import_account: get_account")
    /\ UNCHANGED <<up, reg, disk, ctxs, fsVars, op, cid, old, io, todo>>

\* Mutant: the undo removes the registry entry but not the Context.
ImportImexKeepCtx(c) ==
    LET i == cid[c]
    IN /\ pc[c] = "imp_imex"
       /\ \/ Goto(c, "idle")
          \/ MapWritable /\ Goto(c, "rm_dir")
       /\ UNCHANGED <<up, reg, disk, ctxs, fsVars, op, cid, panicked, old, io, todo>>

\* imex(ImportBackup) into the new account's database: Ok returns the id.
\* Err undoes: remove_account(id), whose map removal and ensure! are this
\* step (the `?` returns when the id has left the map), then RemoveDir,
\* RemoveConfig and RemoveSync, which continues with ImportSelect.
ImportImex(c) ==
    LET i == cid[c]
    IN /\ pc[c] = "imp_imex"
       /\ \/ Goto(c, "idle") /\ UNCHANGED ctxs
          \/ MapWritable /\ i \in ctxs /\ ctxs' = ctxs \ {i} /\ Goto(c, "rm_dir")
          \/ MapWritable /\ i \notin ctxs /\ Goto(c, "idle") /\ UNCHANGED ctxs
       /\ UNCHANGED <<up, reg, disk, fsVars, op, cid, panicked, old, io, todo>>

\* self.select_account(old_id).await?: the ensure! fails when old_id is no
\* longer an entry (or was 0); otherwise SelectSync persists it.
ImportSelect(c) ==
    /\ pc[c] = "imp_select"
    /\ \/ InRegistry(old[c]) /\ reg' = [reg EXCEPT !.sel = old[c]]
          /\ Goto(c, "sel_sync")
       \/ ~InRegistry(old[c]) /\ Goto(c, "idle") /\ UNCHANGED reg
    /\ UNCHANGED <<up, disk, ctxs, fsVars, op, cid, panicked, old, io, todo>>

-----------------------------------------------------------------------------
(* start_io / stop_io: a loop over the map under its read lock             *)

\* Accounts::start_io, stop_io and maybe_network take accounts.read().await.
FanOut(c, name, at) ==
    /\ up /\ pc[c] = "idle" /\ name \in Ops
    /\ todo' = [todo EXCEPT ![c] = ctxs]
    /\ Goto(c, at)
    /\ UNCHANGED <<up, reg, disk, ctxs, fsVars, op, cid, panicked, old, io>>

StartIo(c) == FanOut(c, "start_io", "io_start")
StopIo(c) == FanOut(c, "stop_io", "io_stop")
MaybeNetwork(c) == FanOut(c, "maybe_network", "io_net")

\* What one account's call does to the set of running schedulers:
\* Context::maybe_network only interrupts the scheduler's loops.
IoAfter(l, i) == CASE l = "io_start" -> io \cup {i}
                   [] l = "io_stop"  -> io \ {i}
                   [] l = "io_net"   -> io

\* One iteration of `for account in accounts.values()`, in id order:
\* account.start_io().await, stop_io().await or maybe_network().await
\* (start_io and stop_io are no-ops when
\* the scheduler already runs, or is already stopped); after the last one
\* the read guard is dropped.
FanOutStep(c) ==
    LET i == Min(todo[c])
    IN /\ pc[c] \in FanoutPcs
       /\ \/ todo[c] = {} /\ Goto(c, "idle") /\ UNCHANGED <<io, todo>>
          \/ /\ todo[c] # {}
             /\ io' = IoAfter(pc[c], i)
             /\ todo' = [todo EXCEPT ![c] = @ \ {i}]
             /\ UNCHANGED pc
       /\ UNCHANGED <<up, reg, disk, ctxs, fsVars, op, cid, panicked, old>>

-----------------------------------------------------------------------------
(* Accounts::new: create on first use, then open                           *)

\* The registry Config::new starts from.
EmptyRegistry == [ids |-> <<>>, sel |-> 0, next |-> 1]

\* op of a process that is in no call: Boot's only call is create.
NoOp == [p \in Procs |-> IF p = Boot THEN "create" ELSE "add"]

\* Accounts::new(os_name, dir): create when dir does not exist, then open.
\* An Err it returns leaves the process down; the application may call it
\* again, with nothing of the failed call in memory.
AccountsNew ==
    /\ ~up /\ pc[Boot] = "idle"
    /\ Goto(Boot, IF root THEN "open" ELSE "cr_mkdir")
    /\ reg' = EmptyRegistry /\ cid' = [cid EXCEPT ![Boot] = 0]
    /\ UNCHANGED <<up, root, disk, ctxs, dirs, db, blob, op, panicked, old,
                   io, todo>>

\* Accounts::create: fs::create_dir_all(dir).await.context(..)?
CreateDir ==
    /\ pc[Boot] = "cr_mkdir"
    /\ \/ root' = TRUE /\ Goto(Boot, "cr_cfg")
       \/ FsFails /\ UNCHANGED root /\ Goto(Boot, "idle")
    /\ UNCHANGED <<up, reg, disk, ctxs, dirs, db, blob, op, cid, panicked,
                   old, io, todo>>

\* Config::new: the empty registry and its sync()?; fs::write creates
\* accounts.toml, and may fail before or after it truncated it.
ConfigNew ==
    /\ pc[Boot] = "cr_cfg"
    /\ reg' = EmptyRegistry
    /\ \/ disk' = EmptyRegistry /\ Goto(Boot, "cr_na")
       \/ FsFails /\ disk' \in {disk, Torn} /\ Goto(Boot, "idle")
    /\ UNCHANGED <<up, root, ctxs, dirs, db, blob, op, cid, panicked, old,
                   io, todo>>

\* config.new_account(dir).await?: the same steps as for add_account.
CreateNewAccount ==
    /\ pc[Boot] = "cr_na"
    /\ Alloc(Boot)
    /\ UNCHANGED <<up, root, disk, ctxs, dirs, db, blob, op, panicked, old,
                   io, todo>>

\* Context::new(..) for the default account, then dropped; it creates the
\* account directory before it can fail.  No failure of create undoes
\* what the earlier steps made.
CreateContext ==
    /\ pc[Boot] = "cr_ctx"
    /\ \/ dirs' = dirs \cup {cid[Boot]} /\ Goto(Boot, "open")
       \/ FsFails /\ dirs' \in {dirs, dirs \cup {cid[Boot]}} /\ Goto(Boot, "idle")
    /\ UNCHANGED <<up, root, reg, disk, ctxs, db, blob, op, cid, panicked,
                   old, io, todo>>

\* Config::from_file: fs::read, then toml::from_slice, which fails on a
\* torn file.
FromFileOk == disk \notin {Missing, Torn}

\* load_accounts: a Context::new per entry in order, each of which
\* recreates a missing account directory; the directories after the
\* first k of them.
LoadedDirs(k) == dirs \cup ToSet(SubSeq(disk.ids, 1, k))

\* Accounts::open: ensure! accounts.toml exists, from_file, load_accounts,
\* any of whose Context::new may fail.
Open ==
    /\ pc[Boot] = "open"
    /\ Goto(Boot, "idle")
    /\ \/ ~FromFileOk /\ UNCHANGED <<up, reg, ctxs, dirs>>
       \/ /\ FromFileOk
          /\ up' = TRUE
          /\ reg' = disk
          /\ ctxs' = ToSet(disk.ids)
          /\ dirs' = LoadedDirs(Len(disk.ids))
       \/ /\ FromFileOk /\ disk.ids # <<>> /\ FsFails
          /\ dirs' \in {LoadedDirs(k) : k \in 0..Len(disk.ids)}
          /\ UNCHANGED <<up, reg, ctxs>>
    /\ UNCHANGED <<root, disk, db, blob, op, cid, panicked, old, io, todo>>

-----------------------------------------------------------------------------
(* Crash                                                                   *)

SyncPcs == {"na_sync1", "na_sync2", "rm_sync", "sel_sync", "cr_cfg"}

\* The process dies, also while Accounts::new runs; a sync in progress may
\* leave accounts.toml truncated.  What was in memory is gone.
Crash ==
    /\ Crashes /\ (up \/ pc[Boot] # "idle")
    /\ disk' \in IF \E p \in Procs : pc[p] \in SyncPcs
                 THEN {disk, Torn} ELSE {disk}
    /\ up' = FALSE
    /\ ctxs' = {}
    /\ pc' = [p \in Procs |-> "idle"]
    /\ io' = {} /\ todo' = [c \in Callers |-> {}]
    /\ reg' = EmptyRegistry
    /\ cid' = [p \in Procs |-> 0] /\ old' = [c \in Callers |-> 0]
    /\ op' = NoOp
    /\ UNCHANGED <<fsVars, panicked>>

\* The model's bound on next_id is reached and no call is in progress but
\* imports that wait to allocate an id.
IdsExhausted ==
    /\ reg.next > MaxId /\ \A c \in Callers : pc[c] \in {"idle", "imp_add"}
    /\ UNCHANGED vars

-----------------------------------------------------------------------------

\* The program starts with no accounts directory, before Accounts::new.
Init ==
    /\ up = FALSE /\ root = FALSE
    /\ reg = EmptyRegistry
    /\ disk = Missing
    /\ ctxs = {} /\ dirs = {}
    /\ db = Ext /\ blob = Ext
    /\ pc = [p \in Procs |-> "idle"]
    /\ op = NoOp
    /\ cid = [p \in Procs |-> 0]
    /\ panicked = {}
    /\ old = [c \in Callers |-> 0]
    /\ io = {} /\ todo = [c \in Callers |-> {}]

Next ==
    \/ \E c \in Callers :
          \/ AddAccount(c) \/ MigrateAccount(c) \/ GetSelectedAccount(c)
          \/ \E i \in Ids : RemoveAccount(c, i) \/ SelectAccount(c, i)
          \/ NewAccountSync(c) \/ NewAccountSelect(c) \/ NewAccountSelectSync(c)
          \/ AddContext(c)
          \/ MigrateCreateDir(c) \/ MigrateRenameDb(c)
          \/ MigrateRenameBlob(c) \/ MigrateContext(c)
          \/ RemoveDir(c) \/ RemoveConfig(c) \/ RemoveSync(c)
          \/ SelectSync(c) \/ GetSelectedLookup(c)
          \/ ImportAccount(c) \/ ImportAdd(c) \/ ImportGet(c)
          \/ ImportImex(c) \/ ImportSelect(c)
          \/ StartIo(c) \/ StopIo(c) \/ MaybeNetwork(c) \/ FanOutStep(c)
    \/ AccountsNew \/ CreateDir \/ ConfigNew \/ CreateNewAccount
    \/ NewAccountSync(Boot) \/ NewAccountSelect(Boot)
    \/ NewAccountSelectSync(Boot) \/ CreateContext \/ Open
    \/ Crash
    \/ IdsExhausted

Spec == Init /\ [][Next]_vars

-----------------------------------------------------------------------------
(* Properties                                                              *)

TypeOK ==
    /\ up \in BOOLEAN /\ root \in BOOLEAN
    /\ reg \in Registry /\ disk \in Registry \cup {Torn, Missing}
    /\ ctxs \subseteq Ids /\ dirs \subseteq Ids
    /\ db \in Ids \cup {Ext, Gone} /\ blob \in Ids \cup {Ext, Gone}
    /\ op \in [Procs -> DOMAIN AfterNewAccount \cup {"remove"}]
    /\ cid \in [Procs -> 0..MaxId] /\ old \in [Callers -> 0..MaxId]
    /\ io \subseteq Ids /\ todo \in [Callers -> SUBSET Ids]
    /\ panicked \subseteq {"new_account: select_account", "get_selected_account",
                           "import_account: get_account"}

Quiescent == \A c \in Callers : pc[c] = "idle"

\* (spec 3) The registry invariant, in memory and in accounts.toml: ids
\* are unique and below next_id, and selected_account is 0 or an entry.
RegistryOK(r) ==
    /\ IsInjective(r.ids)
    /\ \A k \in DOMAIN r.ids : r.ids[k] < r.next
    /\ r.sel = 0 \/ r.sel \in ToSet(r.ids)

RegistryInvariant ==
    RegistryOK(reg) /\ (disk \notin {Torn, Missing} => RegistryOK(disk))

\* (spec 8.7) Removing the selected account selects the smallest id that
\* remains, or 0: accounts.get(0) is the smallest because new_account
\* appends ids in increasing order, also across concurrent callers.
RemoveReselectsSmallest ==
    [][ /\ up /\ InRegistry(reg.sel) /\ reg.sel \notin ToSet(reg'.ids)
        /\ reg'.ids # <<>>
        => reg'.sel = Min(ToSet(reg'.ids)) ]_vars

\* In every state, also through failures, crashes and concurrent calls,
\* the accounts map holds Contexts only for accounts the registry has:
\* add_account and migrate_account register before they insert, and
\* remove_account (also as import_account's undo) takes the Context out
\* before Config::remove_account.  remove_account's get_account(id) relies
\* on it to find the directory it deletes.
MapWithinRegistry == up => ctxs \subseteq ToSet(reg.ids)

\* Whenever no call is in progress, the accounts map holds a Context for
\* exactly the registry's accounts.
MapMatchesRegistry ==
    up /\ Quiescent => ctxs = ToSet(reg.ids)

\* (spec 4.5) get_selected_account is total "because the registry
\* invariant guarantees a selection whenever accounts is non-empty":
\* whenever no call is in progress, a non-empty registry selects one of its
\* accounts.  new_account selects after it appends, remove_account
\* reselects accounts.get(0), and import_account's undo restores old_id,
\* also when concurrent calls interleave with theirs.
SelectedWhenNonEmpty ==
    up /\ Quiescent /\ reg.ids # <<>> => InRegistry(reg.sel)

\* An account whose Context has left the map has its scheduler stopped,
\* except while the remove_account that took it out is still on its way to
\* ctx.stop_io(): a start_io fan-out never starts an account that is being
\* removed, because it holds the map's read lock across its whole loop.
NoIoAfterRemove ==
    \A i \in io \ ctxs : \E c \in Callers : pc[c] = "rm_dir" /\ cid[c] = i

\* No expect() in the manager panics: get_selected_account's
\* "inconsistent state" and new_account's "just added".
NoPanic == panicked = {}

\* (spec 4.5) migrate_account undoes a failed rename: when a migration
\* leaves its res block with an error, its registry entry is gone and the
\* selection is back at old_id by the time the call returns.
MigrationRollsBack ==
    [][\A c \in Callers :
         (op[c] = "migrate" /\ pc[c] \in {"mig_mkdir", "mig_db", "mig_blob"}
          /\ pc'[c] = "idle" /\ up')
         => cid[c] \notin ToSet(reg'.ids) /\ reg'.sel = old[c]]_vars

====
