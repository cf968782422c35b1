---------------------------- MODULE MCProviderConfig ----------------------------
(* The catalog's one provider, which needs a key, and a mistyped one.      *)
EXTENDS ProviderConfig

CONSTANTS av, typo, k1, k2, empty

MCProviders == {av, typo}
MCCatalog == {av}
MCKeys == {k1, k2, empty}
NoEnv == [provider |-> None, api_key |-> None]
KeyEnv == [provider |-> None, api_key |-> k2]

VARIABLES
    overlapped,  \* since the start of the daemon, two commands were under way at once
    misread      \* the last time the daemon read its file, it could not

noted == <<overlapped, misread>>

MCInit == Init /\ overlapped = FALSE /\ misread = FALSE

\* The steps that read the file, and what came of it.
Reads(h) == pc[h] = "load" /\ pc'[h] = "assign"

Amiss(c) == c = Misread /\ c # Load

MCNext ==
    \/ /\ Command
       /\ overlapped' = (overlapped \/ \E g, h \in Handlers :
                             g # h /\ pc'[g] # "idle" /\ pc'[h] # "idle")
       /\ misread' = IF \E h \in Handlers : Reads(h)
                     THEN \E h \in Handlers : Reads(h) /\ Amiss(loaded'[h])
                     ELSE misread
    \/ /\ \E p \in Pids : Restart(p)
       /\ overlapped' = FALSE
       /\ misread' = Amiss(config')

MCSpec == MCInit /\ [][MCNext]_<<vars, noted>>

(* When no provider command is under way, what the daemon fetches with is  *)
(* what a restart would load, environment overrides included (server.rs    *)
(* 520-522), failures and crashes notwithstanding: as long as its provider *)
(* commands came one at a time, and the file could be read when last it    *)
(* was.  A failing read is over with the next one that succeeds.           *)
RestartAgrees == Settled /\ ~overlapped /\ ~misread => config = Load

(* "Re-read rather than reusing `updated`, so the in-memory copy reflects  *)
(* the same environment overrides a restart would apply" (server.rs        *)
(* 520-521): here with commands that overlap.                              *)
MemoryReflectsRestart == Settled => config = Load

(* "tickerctl provider clear  # forget it, erase the stored key"           *)
(* (README.md 211): once the only client's clear has succeeded, no file of *)
(* the daemon holds a key.                                                 *)
ClearErases ==
    \A h \in Handlers :
        Settled /\ job[h] = Unset /\ reply[h] \notin {"none", "Error"} =>
            file = None /\ \A p \in Pids : tmp[p] = None
=============================================================================
