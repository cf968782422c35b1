----------------------------- MODULE ProviderConfig -----------------------------
(***************************************************************************)
(* Provider selection and its stored key: Config of config.rs and the      *)
(* SetProvider and ClearProvider arms of dispatch in server.rs.            *)
(*                                                                         *)
(* tokio runs connection tasks on several threads and save, clear and load *)
(* hold no lock, so every system call is a step of its own.  The file is   *)
(* replaced by a rename; only the copy in memory is behind a mutex.        *)
(* File modes are left out.                                                *)
(***************************************************************************)
EXTENDS Naturals

CONSTANTS
    Handlers,   \* connection tasks
    Providers,  \* provider ids as clients write them
    Catalog,    \* the ids ticker_proto::provider::catalog lists
    NeedKey,    \* those with requires_key
    Keys,       \* API keys, the empty one included
    Empty,      \* the empty key
    Env,        \* PAPERTICKER_PROVIDER and PAPERTICKER_API_KEY, None where not set
    Pids,       \* process ids the daemon may run as
    MayFail,    \* whether a system call may fail
    MayCrash,   \* whether the daemon may die and be started again
    Half,       \* a file cut short
    None        \* an absent file or Option

Maybe(S) == S \cup {None}

Configs == [provider : Maybe(Providers), api_key : Maybe(Keys)]

Unset == [provider |-> None, api_key |-> None]  \* Config::default

Requests == [op : {"Set"}, provider : Providers, api_key : Maybe(Keys)]
            \cup {[op |-> "Clear", provider |-> None, api_key |-> None]}

ASSUME ConfigAssumption ==
    /\ Catalog \subseteq Providers
    /\ NeedKey \subseteq Catalog
    /\ Empty \in Keys
    /\ Env \in [provider : Maybe(Providers), api_key : Maybe(Keys \ {Empty})]
    /\ Pids # {}
    /\ {MayFail, MayCrash} \subseteq BOOLEAN
    /\ None \notin Providers \cup Keys \cup Configs \cup {Half}
    /\ Half \notin Configs

VARIABLES
    file,    \* credentials.json
    tmp,     \* per process id: .credentials.<pid>.tmp
    pid,     \* of the running daemon
    config,  \* the copy in memory, Providers::config
    pc,      \* per task: the system call or await it is at
    job,     \* per task: the Config being saved; Unset when clearing
    loaded,  \* per task: what Config::load returned
    reply    \* per task: what its last command was answered

disk == <<file, tmp>>
vars == <<file, tmp, pid, config, pc, job, loaded, reply>>

-----------------------------------------------------------------------------
HasKey(c) == c.api_key \notin {None, Empty}

\* Config::is_ready.
Ready(c) == c.provider \in Catalog /\ (c.provider \in NeedKey => HasKey(c))

\* Slip for the mutants: no unwrap_or_default.
LoadUndefaulted == IF file \in {None, Half} THEN None ELSE file

\* The environment's overrides of what is stored.
Overridden(stored) ==
    [provider |-> IF Env.provider # None THEN Env.provider ELSE stored.provider,
     api_key  |-> IF Env.api_key # None THEN Env.api_key ELSE stored.api_key]

\* Config::load: the file if there is a whole one, overridden.
Load == Overridden(IF file \in {None, Half} THEN Unset ELSE file)

\* A read that fails is taken for a file that is not there (.ok()?).
Misread == Overridden(Unset)

\* What Config::load may return.
Loads == {Load} \cup {c \in {Misread} : MayFail}

Status == IF Ready(config) THEN "ready" ELSE "not ready"

Replies == {"none", "Error", "ready", "not ready"}

Goto(h, label) == pc' = [pc EXCEPT ![h] = label]

Answer(h, r) ==
    /\ Goto(h, "idle")
    /\ reply' = [reply EXCEPT ![h] = r]

\* What a daemon knows when main reaches Providers::new.
Init ==
    /\ file = None
    /\ tmp = [p \in Pids |-> None]
    /\ pid \in Pids
    /\ config = Load
    /\ pc = [h \in Handlers |-> "idle"]
    /\ job = [h \in Handlers |-> Unset]
    /\ loaded = [h \in Handlers |-> Unset]
    /\ reply = [h \in Handlers |-> "none"]

-----------------------------------------------------------------------------
Begins(h) == pc[h] = "idle"

Acceptable(r) == r.provider \in Catalog /\ (r.provider \in NeedKey => HasKey(r))

Refuse(h, r) ==
    /\ Begins(h) /\ r.op = "Set"
    /\ ~Acceptable(r)
    /\ Answer(h, "Error")
    /\ UNCHANGED <<disk, pid, config, job, loaded>>

SetProvider(h, r) ==
    /\ Begins(h) /\ r.op = "Set"
    /\ Acceptable(r)
    /\ job' = [job EXCEPT ![h] =
          [provider |-> r.provider, api_key |-> IF r.provider \in NeedKey THEN r.api_key ELSE None]]
    /\ Goto(h, "create")
    /\ UNCHANGED <<disk, pid, config, loaded, reply>>

ClearProvider(h, r) ==
    /\ Begins(h) /\ r.op = "Clear"
    /\ job' = [job EXCEPT ![h] = Unset]
    /\ Goto(h, "erase")
    /\ UNCHANGED <<disk, pid, config, loaded, reply>>

(* Config::save.                                                           *)

\* Slip for the mutants: the file itself is opened and overwritten.
CreateInPlace(h) ==
    /\ pc[h] = "create"
    /\ file' = Half
    /\ tmp' = [tmp EXCEPT ![pid] = Half]
    /\ Goto(h, "write")
    /\ UNCHANGED <<pid, config, job, loaded, reply>>

\* Slip for the mutants: an existing temporary file is taken over (no create_new).
CreateShared(h) ==
    /\ pc[h] = "create"
    /\ tmp' = [tmp EXCEPT ![pid] = Half]
    /\ Goto(h, "write")
    /\ UNCHANGED <<file, pid, config, job, loaded, reply>>

Create(h) ==
    /\ pc[h] = "create"
    /\ tmp[pid] = None
    /\ tmp' = [tmp EXCEPT ![pid] = Half]
    /\ Goto(h, "write")
    /\ UNCHANGED <<file, pid, config, job, loaded, reply>>

\* create_new finds a file of that name, or fails otherwise.
CreateFails(h) ==
    /\ pc[h] = "create"
    /\ tmp[pid] # None \/ MayFail
    /\ Answer(h, "Error")
    /\ UNCHANGED <<disk, pid, config, job, loaded>>

Write(h) ==
    /\ pc[h] = "write"
    /\ tmp' = [tmp EXCEPT ![pid] = job[h]]
    /\ Goto(h, "rename")
    /\ UNCHANGED <<file, pid, config, job, loaded, reply>>

\* The error leaves at once, and the temporary file stays.
WriteFails(h) ==
    /\ pc[h] = "write" /\ MayFail
    /\ Answer(h, "Error")
    /\ UNCHANGED <<disk, pid, config, job, loaded>>

Rename(h) ==
    /\ pc[h] = "rename"
    /\ file' = tmp[pid]
    /\ tmp' = [tmp EXCEPT ![pid] = None]
    /\ Goto(h, "load")
    /\ UNCHANGED <<pid, config, job, loaded, reply>>

RenameFails(h) ==
    /\ pc[h] = "rename" /\ MayFail
    /\ tmp' = [tmp EXCEPT ![pid] = None]
    /\ Answer(h, "Error")
    /\ UNCHANGED <<file, pid, config, job, loaded>>

(* Config::clear.                                                          *)

Erase(h) ==
    /\ pc[h] = "erase"
    /\ file' = None
    /\ Goto(h, "load")
    /\ UNCHANGED <<tmp, pid, config, job, loaded, reply>>

EraseFails(h) ==
    /\ pc[h] = "erase" /\ MayFail /\ file # None
    /\ Answer(h, "Error")
    /\ UNCHANGED <<disk, pid, config, job, loaded>>

(* *providers.config().lock().await = Config::load(): the right-hand side  *)
(* first, then the lock.                                                   *)

\* Slip for the mutants: what was saved is reused instead of read again.
ReuseUpdated(h) ==
    /\ pc[h] = "load"
    /\ loaded' = [loaded EXCEPT ![h] = job[h]]
    /\ Goto(h, "assign")
    /\ UNCHANGED <<disk, pid, config, job, reply>>

Reload(h) ==
    /\ pc[h] = "load"
    /\ \E c \in Loads : loaded' = [loaded EXCEPT ![h] = c]
    /\ Goto(h, "assign")
    /\ UNCHANGED <<disk, pid, config, job, reply>>

Assign(h) ==
    /\ pc[h] = "assign"
    /\ config' = loaded[h]
    /\ Goto(h, "status")
    /\ UNCHANGED <<disk, pid, job, loaded, reply>>

\* provider_status, under the mutex once more.
ProviderStatus(h) ==
    /\ pc[h] = "status"
    /\ Answer(h, Status)
    /\ UNCHANGED <<disk, pid, config, job, loaded>>

\* The daemon dies and is started again, perhaps with the process id it had.
Restart(p) ==
    /\ MayCrash
    /\ pid' = p
    /\ config' \in Loads
    /\ pc' = [h \in Handlers |-> "idle"]
    /\ job' = [h \in Handlers |-> Unset]
    /\ loaded' = [h \in Handlers |-> Unset]
    /\ reply' = [h \in Handlers |-> "none"]
    /\ UNCHANGED disk

-----------------------------------------------------------------------------
Save(h) ==
    \/ Create(h) \/ CreateFails(h)
    \/ Write(h) \/ WriteFails(h)
    \/ Rename(h) \/ RenameFails(h)

Command ==
    \E h \in Handlers :
        \/ \E r \in Requests : Refuse(h, r) \/ SetProvider(h, r) \/ ClearProvider(h, r)
        \/ Save(h)
        \/ Erase(h) \/ EraseFails(h)
        \/ Reload(h) \/ Assign(h) \/ ProviderStatus(h)

Next == Command \/ \E p \in Pids : Restart(p)

Spec == Init /\ [][Next]_vars

-----------------------------------------------------------------------------
\* File there, absent or not readable, the daemon holds a whole Config
\* (config.rs 61-103).
TypeOK ==
    /\ file \in Configs \cup {None, Half}
    /\ tmp \in [Pids -> Configs \cup {None, Half}]
    /\ pid \in Pids
    /\ config \in Configs
    /\ pc \in [Handlers -> {"idle", "create", "write", "rename", "erase", "load", "assign", "status"}]
    /\ job \in [Handlers -> Configs]
    /\ loaded \in [Handlers -> Configs]
    /\ reply \in [Handlers -> Replies]

Settled == \A h \in Handlers : pc[h] = "idle"

(* Whatever tasks save at once and wherever the daemon dies, the stored    *)
(* file is absent or one whole configuration that can fetch: never cut     *)
(* short, never two commands mixed (config.rs 115-117, server.rs 503-516). *)
StoredIsUsable == file # None => file # Half /\ Ready(file)

(* The stored file changes hands only to what the task renaming it was     *)
(* asked to save, or to nothing: two saves under one temporary name never  *)
(* install each other's key.                                               *)
InstallsItsOwn ==
    [][file' # file => \/ file' = None
                       \/ \E h \in Handlers : pc[h] = "rename" /\ pc'[h] = "load" /\ file' = job[h]]_vars
=============================================================================
