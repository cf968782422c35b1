-------------------------- MODULE ProviderConfigProofs --------------------------
(***************************************************************************)
(* Proofs about the stored credentials: create_new makes the temporary     *)
(* file a lock, so any number of tasks may save at once and the daemon may *)
(* die anywhere, and the file is whole, usable and one task's own; and     *)
(* what is in memory is what a restart would load, as long as commands do  *)
(* not overlap and the file can be read (MCProviderConfig notes whether).  *)
(***************************************************************************)
EXTENDS MCProviderConfig, TLAPS

Saving(h) == pc[h] \in {"create", "write", "rename"}

Holding(h) == pc[h] \in {"write", "rename"}

\* What is on its way into the file can fetch.
SavedIsReady == \A h \in Handlers : Saving(h) => Ready(job[h])

\* The temporary file of the running daemon is its holder's.
TmpIsLock ==
    /\ \A h \in Handlers : Holding(h) => tmp[pid] # None
    /\ \A h \in Handlers : pc[h] = "rename" => tmp[pid] = job[h]
    /\ \A g, h \in Handlers : Holding(g) /\ Holding(h) => g = h

IInv == TypeOK /\ SavedIsReady /\ TmpIsLock /\ StoredIsUsable

-----------------------------------------------------------------------------
LEMMA UnsetType == Unset \in Configs
BY DEF Unset, Configs, Maybe

LEMMA OverriddenType == \A c \in Configs : Overridden(c) \in Configs
<1> SUFFICES ASSUME NEW c \in Configs PROVE Overridden(c) \in Configs
  OBVIOUS
<1>1. Env.provider \in Maybe(Providers) /\ Env.api_key \in Maybe(Keys)
  BY ConfigAssumption DEF Maybe
<1>2. c.provider \in Maybe(Providers) /\ c.api_key \in Maybe(Keys)
  BY DEF Configs
<1> QED BY <1>1, <1>2 DEF Overridden, Configs

LEMMA LoadType == file \in Configs \cup {None, Half} => Load \in Configs /\ Loads \subseteq Configs
<1> SUFFICES ASSUME file \in Configs \cup {None, Half} PROVE Load \in Configs /\ Loads \subseteq Configs
  OBVIOUS
<1>1. (IF file \in {None, Half} THEN Unset ELSE file) \in Configs
  BY UnsetType
<1>2. Load \in Configs /\ Misread \in Configs
  BY <1>1, UnsetType, OverriddenType DEF Load, Misread
<1> QED BY <1>2 DEF Loads

LEMMA Initially == Init => IInv
<1> SUFFICES ASSUME Init PROVE IInv
  OBVIOUS
<1>1. TypeOK
  BY LoadType, UnsetType DEF Init, TypeOK, Replies
<1> QED BY <1>1 DEF Init, IInv, SavedIsReady, TmpIsLock, StoredIsUsable, Saving, Holding

(* A save of an acceptable request writes a configuration that can fetch.  *)
LEMMA AcceptableIsReady ==
    ASSUME NEW r \in Requests, r.op = "Set", Acceptable(r)
    PROVE  LET c == [provider |-> r.provider,
                     api_key  |-> IF r.provider \in NeedKey THEN r.api_key ELSE None]
           IN  c \in Configs /\ Ready(c)
<1>1. r.provider \in Providers /\ r.api_key \in Maybe(Keys)
  BY DEF Requests
<1> QED BY <1>1 DEF Acceptable, Ready, HasKey, Configs, Maybe

-----------------------------------------------------------------------------
\* A step of one task that leaves the disk alone and does not begin a save.
LEMMA QuietStep ==
    ASSUME IInv, TypeOK', NEW h \in Handlers, NEW label, ~Saving(h)',
           Goto(h, label), UNCHANGED <<disk, pid, job>>
    PROVE  IInv'
<1>1. \A g \in Handlers : (Saving(g)' => Saving(g)) /\ (Holding(g)' => Holding(g))
                          /\ (pc'[g] = "rename" => pc[g] = "rename")
  BY DEF IInv, TypeOK, Saving, Holding, Goto
<1>2. SavedIsReady'
  BY <1>1 DEF IInv, SavedIsReady, Ready, HasKey
<1>3. TmpIsLock'
  BY <1>1 DEF IInv, TmpIsLock, disk
<1>4. StoredIsUsable'
  BY DEF IInv, StoredIsUsable, disk, Ready, HasKey
<1> QED BY <1>2, <1>3, <1>4 DEF IInv

LEMMA QuietActions ==
    ASSUME IInv, NEW h \in Handlers, NEW r \in Requests,
           \/ Refuse(h, r) \/ CreateFails(h) \/ WriteFails(h) \/ EraseFails(h)
           \/ Reload(h) \/ Assign(h) \/ ProviderStatus(h)
    PROVE  IInv'
<1>1. CASE Refuse(h, r) \/ CreateFails(h) \/ WriteFails(h) \/ EraseFails(h)
  <2>1. Answer(h, "Error") /\ UNCHANGED <<disk, pid, config, job, loaded>>
    BY <1>1 DEF Refuse, CreateFails, WriteFails, EraseFails
  <2>2. TypeOK' /\ ~Saving(h)'
    BY <2>1 DEF IInv, TypeOK, Answer, Goto, Saving, disk, Replies
  <2> QED BY <2>1, <2>2, QuietStep DEF Answer
<1>2. CASE Reload(h)
  <2>1. PICK c \in Configs : loaded' = [loaded EXCEPT ![h] = c]
    BY <1>2, LoadType DEF IInv, TypeOK, Reload
  <2>2. TypeOK' /\ ~Saving(h)'
    BY <1>2, <2>1 DEF IInv, TypeOK, Reload, Goto, Saving, disk
  <2> QED BY <1>2, <2>2, QuietStep DEF Reload
<1>3. CASE Assign(h)
  <2>1. TypeOK' /\ ~Saving(h)'
    BY <1>3 DEF IInv, TypeOK, Assign, Goto, Saving, disk
  <2> QED BY <1>3, <2>1, QuietStep DEF Assign
<1>4. CASE ProviderStatus(h)
  <2>1. TypeOK' /\ ~Saving(h)'
    BY <1>4 DEF IInv, TypeOK, ProviderStatus, Answer, Goto, Saving, disk, Status, Replies
  <2> QED BY <1>4, <2>1, QuietStep DEF ProviderStatus, Answer
<1> QED BY <1>1, <1>2, <1>3, <1>4

LEMMA CommandsKeep ==
    ASSUME IInv, NEW h \in Handlers, NEW r \in Requests, SetProvider(h, r) \/ ClearProvider(h, r)
    PROVE  IInv'
<1>1. CASE SetProvider(h, r)
  <2> DEFINE c == [provider |-> r.provider,
                   api_key  |-> IF r.provider \in NeedKey THEN r.api_key ELSE None]
  <2>1. c \in Configs /\ Ready(c)
    BY <1>1, AcceptableIsReady DEF SetProvider
  <2>2. job' = [job EXCEPT ![h] = c] /\ pc' = [pc EXCEPT ![h] = "create"]
        /\ UNCHANGED <<file, tmp, pid, config, loaded, reply>> /\ pc[h] = "idle"
    BY <1>1 DEF SetProvider, Goto, disk, Begins
  <2> HIDE DEF c
  <2>3. TypeOK'
    BY <2>1, <2>2 DEF IInv, TypeOK
  <2>4. SavedIsReady'
    <3> SUFFICES ASSUME NEW g \in Handlers, Saving(g)' PROVE Ready(job'[g])
      BY DEF SavedIsReady, Ready, HasKey
    <3>1. CASE g = h
      BY <2>1, <2>2, <3>1 DEF IInv, TypeOK
    <3>2. CASE g # h
      BY <2>2, <3>2 DEF IInv, TypeOK, SavedIsReady, Saving
    <3> QED BY <3>1, <3>2
  <2>5. TmpIsLock'
    BY <2>2 DEF IInv, TypeOK, TmpIsLock, Holding
  <2>6. StoredIsUsable'
    BY <2>2 DEF IInv, StoredIsUsable, Ready, HasKey
  <2> QED BY <2>3, <2>4, <2>5, <2>6 DEF IInv
<1>2. CASE ClearProvider(h, r)
  <2>1. job' = [job EXCEPT ![h] = Unset] /\ pc' = [pc EXCEPT ![h] = "erase"]
        /\ UNCHANGED <<file, tmp, pid, config, loaded, reply>> /\ pc[h] = "idle"
    BY <1>2 DEF ClearProvider, Goto, disk, Begins
  <2>2. TypeOK'
    BY <2>1, UnsetType DEF IInv, TypeOK
  <2>3. SavedIsReady'
    BY <2>1 DEF IInv, TypeOK, SavedIsReady, Saving, Ready, HasKey
  <2>4. TmpIsLock'
    BY <2>1 DEF IInv, TypeOK, TmpIsLock, Holding
  <2>5. StoredIsUsable'
    BY <2>1 DEF IInv, StoredIsUsable, Ready, HasKey
  <2> QED BY <2>2, <2>3, <2>4, <2>5 DEF IInv
<1> QED BY <1>1, <1>2

(* The steps of Config::save that touch the disk.                          *)
LEMMA SaveKeeps ==
    ASSUME IInv, NEW h \in Handlers,
           Create(h) \/ Write(h) \/ Rename(h) \/ RenameFails(h)
    PROVE  IInv'
<1>1. TypeOK'
  BY DEF IInv, TypeOK, Create, Write, Rename, RenameFails, Answer, Goto, Replies
<1>2. SavedIsReady'
  BY DEF IInv, TypeOK, SavedIsReady, Saving, Create, Write, Rename, RenameFails, Answer, Goto, Ready, HasKey
<1>3. CASE Create(h)
  <2>1. \A g \in Handlers : ~Holding(g)
    BY <1>3 DEF IInv, TmpIsLock, Create
  <2>2. TmpIsLock'
    BY <1>3, <2>1, ConfigAssumption DEF IInv, TypeOK, TmpIsLock, Holding, Create, Goto
  <2>3. StoredIsUsable'
    BY <1>3 DEF IInv, StoredIsUsable, Create, Ready, HasKey
  <2> QED BY <1>1, <1>2, <2>2, <2>3 DEF IInv
<1>4. CASE Write(h)
  <2>1. \A g \in Handlers : Holding(g) => g = h
    BY <1>4 DEF IInv, TmpIsLock, Holding, Write
  <2>2. job[h] # None
    BY ConfigAssumption DEF IInv, TypeOK
  <2>3. TmpIsLock'
    BY <1>4, <2>1, <2>2 DEF IInv, TypeOK, TmpIsLock, Holding, Write, Goto
  <2>4. StoredIsUsable'
    BY <1>4 DEF IInv, StoredIsUsable, Write, Ready, HasKey
  <2> QED BY <1>1, <1>2, <2>3, <2>4 DEF IInv
<1>5. CASE Rename(h) \/ RenameFails(h)
  <2>1. \A g \in Handlers : Holding(g) => g = h
    BY <1>5 DEF IInv, TmpIsLock, Holding, Rename, RenameFails
  <2>2. \A g \in Handlers : ~Holding(g)'
    BY <1>5, <2>1 DEF IInv, TypeOK, Holding, Rename, RenameFails, Answer, Goto
  <2>3. TmpIsLock'
    BY <2>2 DEF TmpIsLock, Holding
  <2>4. Ready(job[h]) /\ job[h] # Half /\ tmp[pid] = job[h]
    BY <1>5, ConfigAssumption DEF IInv, TypeOK, SavedIsReady, Saving, TmpIsLock, Rename, RenameFails
  <2>5. StoredIsUsable'
    BY <1>5, <2>4 DEF IInv, StoredIsUsable, Rename, RenameFails, Ready, HasKey
  <2> QED BY <1>1, <1>2, <2>3, <2>5 DEF IInv
<1> QED BY <1>3, <1>4, <1>5

LEMMA Inductive == IInv /\ [Next]_vars => IInv'
<1> SUFFICES ASSUME IInv, [Next]_vars PROVE IInv'
  OBVIOUS
<1>1. ASSUME NEW h \in Handlers, NEW r \in Requests, Refuse(h, r) \/ SetProvider(h, r) \/ ClearProvider(h, r)
      PROVE  IInv'
  BY <1>1, QuietActions, CommandsKeep
<1>2. \E r \in Requests : TRUE
  BY DEF Requests
<1>3. ASSUME NEW h \in Handlers, Save(h) PROVE IInv'
  BY <1>2, <1>3, QuietActions, SaveKeeps DEF Save
<1>4. ASSUME NEW h \in Handlers, Erase(h) PROVE IInv'
  <2>1. TypeOK'
    BY <1>4 DEF IInv, TypeOK, Erase, Goto
  <2>2. SavedIsReady' /\ TmpIsLock' /\ StoredIsUsable'
    BY <1>4 DEF IInv, TypeOK, SavedIsReady, TmpIsLock, StoredIsUsable, Saving, Holding, Erase, Goto, Ready, HasKey
  <2> QED BY <2>1, <2>2 DEF IInv
<1>5. ASSUME NEW h \in Handlers, EraseFails(h) \/ Reload(h) \/ Assign(h) \/ ProviderStatus(h)
      PROVE  IInv'
  BY <1>2, <1>5, QuietActions
<1>6. ASSUME NEW p \in Pids, Restart(p) PROVE IInv'
  <2>0. config' \in Configs
    BY <1>6, LoadType DEF IInv, TypeOK, Restart
  <2>1. TypeOK'
    BY <1>6, <2>0, UnsetType DEF IInv, TypeOK, Restart, disk, Replies
  <2>2. SavedIsReady' /\ TmpIsLock' /\ StoredIsUsable'
    BY <1>6 DEF IInv, SavedIsReady, TmpIsLock, StoredIsUsable, Saving, Holding, Restart, disk, Ready, HasKey
  <2> QED BY <2>1, <2>2 DEF IInv
<1>7. CASE UNCHANGED vars
  <2>1. TypeOK' /\ TmpIsLock'
    BY <1>7 DEF IInv, TypeOK, TmpIsLock, Holding, vars, disk
  <2>2. SavedIsReady' /\ StoredIsUsable'
    BY <1>7 DEF IInv, SavedIsReady, StoredIsUsable, Saving, Ready, HasKey, vars, disk
  <2> QED BY <2>1, <2>2 DEF IInv
<1> QED BY <1>1, <1>3, <1>4, <1>5, <1>6, <1>7 DEF Next, Command

(* Types hold in every reachable state (config.rs 31-40).                  *)
THEOREM TypeCorrect == Spec => []TypeOK
<1>1. IInv => TypeOK
  BY DEF IInv
<1> QED BY Initially, Inductive, <1>1, PTL DEF Spec

(* However many tasks save and clear at once, and wherever the daemon dies *)
(* or a system call fails, credentials.json is absent or a whole           *)
(* configuration that can fetch (config.rs 106-138).                       *)
THEOREM StoredStaysUsable == Spec => []StoredIsUsable
<1>1. IInv => StoredIsUsable
  BY DEF IInv
<1> QED BY Initially, Inductive, <1>1, PTL DEF Spec

(* A rename installs what its own task was asked to save: the temporary    *)
(* name is shared by all tasks of the process, and create_new keeps a      *)
(* second saver out (config.rs 115-129).                                   *)
THEOREM SavesAreOwn == Spec => InstallsItsOwn
<1>1. ASSUME IInv, Next, file' # file
      PROVE  \/ file' = None
             \/ \E h \in Handlers : pc[h] = "rename" /\ pc'[h] = "load" /\ file' = job[h]
  <2>1. ASSUME NEW h \in Handlers, Rename(h)
        PROVE  pc[h] = "rename" /\ pc'[h] = "load" /\ file' = job[h]
    BY <1>1, <2>1 DEF IInv, TypeOK, TmpIsLock, Rename, Goto
  <2>2. ASSUME NEW h \in Handlers, Erase(h) PROVE file' = None
    BY <2>2 DEF Erase
  <2>3. (\E h \in Handlers : Rename(h) \/ Erase(h))
    BY <1>1 DEF Next, Command, Save, Refuse, SetProvider, ClearProvider, Create, CreateFails, Write, WriteFails,
                RenameFails, EraseFails, Reload, Assign, ProviderStatus, Restart, disk
  <2> QED BY <2>1, <2>2, <2>3
<1>2. IInv /\ [Next]_vars =>
        [file' # file =>
            \/ file' = None
            \/ \E h \in Handlers : pc[h] = "rename" /\ pc'[h] = "load" /\ file' = job[h]]_vars
  BY <1>1
<1> QED BY Initially, Inductive, <1>2, PTL DEF Spec, InstallsItsOwn

-----------------------------------------------------------------------------
(* What a restart would load, as long as commands come one at a time.      *)

LEMMA WithHistory == MCSpec => []IInv
<1>1. MCInit => IInv
  BY Initially DEF MCInit
<1>2. IInv /\ [MCNext]_<<vars, noted>> => IInv'
  <2>1. [MCNext]_<<vars, noted>> => [Next]_vars
    BY DEF MCNext, Next, noted
  <2> QED BY <2>1, Inductive
<1> QED BY <1>1, <1>2, PTL DEF MCSpec

OneAtATime == \A g, h \in Handlers : pc[g] # "idle" /\ pc[h] # "idle" => g = h

\* A task has changed the file, and has not yet put what it read in memory.
Between(h) == pc[h] \in {"load", "assign"}

AgreeInv ==
    ~overlapped =>
        /\ OneAtATime
        /\ ~misread /\ (\A h \in Handlers : ~Between(h)) => config = Load
        /\ ~misread => \A h \in Handlers : pc[h] = "assign" => loaded[h] = Load

\* What the history makes of a command.
Noting ==
    /\ Command
    /\ misread' = IF \E h \in Handlers : Reads(h)
                  THEN \E h \in Handlers : Reads(h) /\ Amiss(loaded'[h])
                  ELSE misread

\* A step of task h that neither writes the file nor the copy in memory, nor begins to.
LEMMA AgreeQuiet ==
    ASSUME TypeOK, AgreeInv, Noting, NEW h \in Handlers, NEW label, label \notin {"load", "assign"},
           pc[h] \notin {"load", "assign"}, Goto(h, label), UNCHANGED <<file, config, loaded>>,
           ~overlapped, OneAtATime'
    PROVE  AgreeInv'
<1>1. \A g \in Handlers : pc'[g] = (IF g = h THEN label ELSE pc[g])
  BY DEF Goto, TypeOK
<1>2. \A g \in Handlers : (Between(g)' <=> Between(g)) /\ (pc'[g] = "assign" <=> pc[g] = "assign")
  BY <1>1 DEF Between
<1>3. Load' = Load
  BY DEF Load, Overridden
<1>4. misread' = misread
  BY <1>2 DEF Noting, Reads
<1>5. ~misread' /\ (\A g \in Handlers : ~Between(g)') => config' = Load'
  BY <1>2, <1>3, <1>4 DEF AgreeInv
<1>6. ~misread' => \A g \in Handlers : pc'[g] = "assign" => loaded'[g] = Load'
  BY <1>2, <1>3, <1>4 DEF AgreeInv
<1> QED BY <1>5, <1>6 DEF AgreeInv

LEMMA AgreeStep ==
    ASSUME TypeOK, AgreeInv, Noting, ~overlapped, OneAtATime'
    PROVE  AgreeInv'
<1>q. ASSUME NEW h \in Handlers, NEW label, label \notin {"load", "assign"},
             pc[h] \notin {"load", "assign"}, Goto(h, label), UNCHANGED <<file, config, loaded>>
      PROVE  AgreeInv'
  BY <1>q, AgreeQuiet
<1>1. ASSUME NEW h \in Handlers, NEW r \in Requests, Refuse(h, r) PROVE AgreeInv'
  <2>1. pc[h] = "idle" /\ Goto(h, "idle") /\ UNCHANGED <<file, config, loaded>>
    BY <1>1 DEF Refuse, Begins, Answer, disk
  <2> QED BY <1>q, <2>1
<1>2. ASSUME NEW h \in Handlers, NEW r \in Requests, SetProvider(h, r) PROVE AgreeInv'
  <2>1. pc[h] = "idle" /\ Goto(h, "create") /\ UNCHANGED <<file, config, loaded>>
    BY <1>2 DEF SetProvider, Begins, disk
  <2> QED BY <1>q, <2>1
<1>3. ASSUME NEW h \in Handlers, NEW r \in Requests, ClearProvider(h, r) PROVE AgreeInv'
  <2>1. pc[h] = "idle" /\ Goto(h, "erase") /\ UNCHANGED <<file, config, loaded>>
    BY <1>3 DEF ClearProvider, Begins, disk
  <2> QED BY <1>q, <2>1
<1>4. ASSUME NEW h \in Handlers, Create(h) \/ Write(h) PROVE AgreeInv'
  <2>1. /\ pc[h] \in {"create", "write"} /\ UNCHANGED <<file, config, loaded>>
        /\ Goto(h, "write") \/ Goto(h, "rename")
    BY <1>4 DEF Create, Write
  <2> QED BY <1>q, <2>1
<1>5. ASSUME NEW h \in Handlers,
             CreateFails(h) \/ WriteFails(h) \/ RenameFails(h) \/ EraseFails(h) \/ ProviderStatus(h)
      PROVE  AgreeInv'
  <2>1. /\ pc[h] \in {"create", "write", "rename", "erase", "status"} /\ UNCHANGED <<file, config, loaded>>
        /\ Goto(h, "idle")
    BY <1>5 DEF CreateFails, WriteFails, RenameFails, EraseFails, ProviderStatus, Answer, disk
  <2> QED BY <1>q, <2>1
<1>6. ASSUME NEW h \in Handlers, Rename(h) \/ Erase(h) PROVE AgreeInv'
  <2>1. pc[h] \in {"rename", "erase"} /\ pc' = [pc EXCEPT ![h] = "load"]
    BY <1>6 DEF Rename, Erase, Goto
  <2>2. pc'[h] = "load" /\ \A g \in Handlers : g # h => pc'[g] = "idle"
    BY <2>1 DEF TypeOK, OneAtATime
  <2>3. Between(h)' /\ \A g \in Handlers : pc'[g] # "assign"
    BY <2>2 DEF Between
  <2> QED BY <2>3 DEF AgreeInv
<1>7. ASSUME NEW h \in Handlers, Reload(h) PROVE AgreeInv'
  <2>1. PICK c \in Loads : loaded' = [loaded EXCEPT ![h] = c]
    BY <1>7 DEF Reload
  <2>2. pc[h] = "load" /\ pc' = [pc EXCEPT ![h] = "assign"] /\ Load' = Load
    BY <1>7 DEF Reload, Goto, Load, Overridden, disk
  <2>3. loaded'[h] = c /\ pc'[h] = "assign" /\ \A g \in Handlers : g # h => pc'[g] = "idle"
    BY <2>1, <2>2 DEF TypeOK, OneAtATime
  <2>4. Reads(h) /\ \A g \in Handlers : Reads(g) => g = h
    BY <2>2, <2>3 DEF Reads
  <2>5. ASSUME c # Load PROVE misread'
    <3>1. Amiss(loaded'[h])
      BY <2>1, <2>3, <2>5 DEF Loads, Amiss
    <3>2. \E g \in Handlers : Reads(g)
      BY <2>4
    <3>3. \E g \in Handlers : Reads(g) /\ Amiss(loaded'[g])
      BY <2>4, <3>1
    <3> HIDE DEF Reads, Amiss
    <3> QED BY <3>2, <3>3, Zenon DEF Noting
  <2>6. ~misread' => c = Load'
    BY <2>2, <2>5
  <2>7. Between(h)' /\ (~misread' => \A g \in Handlers : pc'[g] = "assign" => loaded'[g] = Load')
    BY <2>3, <2>6 DEF Between
  <2> QED BY <2>7 DEF AgreeInv
<1>8. ASSUME NEW h \in Handlers, Assign(h) PROVE AgreeInv'
  <2>1. pc[h] = "assign" /\ pc' = [pc EXCEPT ![h] = "status"] /\ config' = loaded[h] /\ Load' = Load
    BY <1>8 DEF Assign, Goto, Load, Overridden, disk
  <2>2. pc'[h] = "status" /\ \A g \in Handlers : g # h => pc[g] = "idle" /\ pc'[g] = "idle"
    BY <2>1 DEF TypeOK, AgreeInv, OneAtATime
  <2>3. \A g \in Handlers : pc'[g] # "assign"
    BY <2>2
  <2>4. misread' = misread
    BY <2>3 DEF Noting, Reads
  <2>5. ~misread' => config' = Load'
    BY <2>1, <2>4 DEF AgreeInv
  <2> QED BY <2>3, <2>5 DEF AgreeInv
<1> QED BY <1>1, <1>2, <1>3, <1>4, <1>5, <1>6, <1>7, <1>8 DEF Noting, Command, Save

LEMMA AgreeInductive == TypeOK /\ AgreeInv /\ [MCNext]_<<vars, noted>> => AgreeInv'
<1> SUFFICES ASSUME TypeOK, AgreeInv, [MCNext]_<<vars, noted>> PROVE AgreeInv'
  OBVIOUS
<1>1. CASE UNCHANGED <<vars, noted>>
  BY <1>1 DEF vars, noted, AgreeInv, OneAtATime, Between, Load, Overridden
<1>2. ASSUME NEW p \in Pids, Restart(p), misread' = Amiss(config') PROVE AgreeInv'
  <2>1. config' \in Loads /\ Load' = Load /\ \A h \in Handlers : pc'[h] = "idle"
    BY <1>2 DEF Restart, Load, Overridden, disk
  <2>2. ~misread' => config' = Load'
    <3>1. config' # Load => Amiss(config')
      BY <2>1 DEF Loads, Amiss
    <3> QED BY <1>2, <2>1, <3>1
  <2>3. OneAtATime' /\ \A h \in Handlers : pc'[h] # "assign"
    BY <2>1 DEF OneAtATime
  <2> QED BY <2>2, <2>3 DEF AgreeInv
<1>3. CASE Noting /\ overlapped' = (overlapped \/ \E g, h \in Handlers :
                                        g # h /\ pc'[g] # "idle" /\ pc'[h] # "idle")
  <2>1. CASE overlapped'
    BY <2>1 DEF AgreeInv
  <2>2. CASE ~overlapped'
    BY <1>3, <2>2, AgreeStep DEF OneAtATime
  <2> QED BY <2>1, <2>2
<1> QED BY <1>1, <1>2, <1>3 DEF MCNext, Noting

(* As long as provider commands have come one at a time since the daemon   *)
(* started, and whichever of them failed, a daemon with none under way     *)
(* that could read its file when last it did fetches with what a restart   *)
(* would load, environment overrides included (server.rs 516-522).         *)
THEOREM OneByOneRestartAgrees == MCSpec => []RestartAgrees
<1>1. MCInit => AgreeInv
  BY DEF MCInit, Init, AgreeInv, OneAtATime
<1>2. IInv => TypeOK
  BY DEF IInv
<1>3. AgreeInv => RestartAgrees
  BY DEF AgreeInv, RestartAgrees, Settled, Between
<1> QED BY <1>1, <1>2, <1>3, WithHistory, AgreeInductive, PTL DEF MCSpec
=============================================================================
