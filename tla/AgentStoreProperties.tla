------------------------- MODULE AgentStoreProperties -------------------------
(* What the sandbox registry must get right, whoever calls it and whenever  *)
(* it crashes.                                                              *)
EXTENDS AgentStore

Grants == [status : TrustStatuses, tier : Tiers]
Records == [card : Cards, status : TrustStatuses, tier : Tiers]
Entries == [card : Cards, own : TrustStatuses, status : TrustStatuses, tier : Tiers]
IsMap(f, values) == DOMAIN f \subseteq Agents /\ \A a \in DOMAIN f : f[a] \in values

Phases == {"down", "loaded", "loaded_truncated", "unseeded", "seeded",
           "seeded_truncated", "up", "refused"}
Pcs == {"idle", "store", "persist", "iterate", "truncate", "write", "answer"}

(* The types, and that a worker thread about to store or to answer knows   *)
(* which agent it serves, which for an answer the store holds.             *)
StoreTypeOK ==
  /\ phase \in Phases
  /\ IsMap(records, Records)
  /\ file.kind \in {"absent", "empty", "torn", "whole"}
  /\ IsMap(file.entries, Entries)
  /\ \A t \in Threads :
       /\ thread[t].pc \in Pcs
       /\ IsMap(thread[t].seen, Entries)
       /\ thread[t].pc = "store" =>
            thread[t].id \in Agents /\ thread[t].held \in Records
       /\ thread[t].pc \in {"persist", "truncate", "write", "answer"} =>
            thread[t].id \in DOMAIN records /\ thread[t].held \in Records

(* Trust is never invented: the status and the ceiling of every record, in *)
(* memory, in the file and in a snapshot being taken, were decided         *)
(* together, by a registration, by one admin's update or by that agent's   *)
(* seed entry; racing updates, snapshots taken while they race, and        *)
(* restarts never mix two decisions (register, set_trust, load_seed,       *)
(* snapshot of store.py).                                                  *)
Decisions(a) ==
  {FreshGrant} \cup {GrantFor(u) : u \in Updates}
  \cup {GrantOf(Loaded(Seed[s])) : s \in DOMAIN Seed \cap {a}}
TrustIsDecided ==
  /\ \A a \in DOMAIN records : GrantOf(records[a]) \in Decisions(a)
  /\ \A a \in DOMAIN file.entries : GrantOf(Loaded(file.entries[a])) \in Decisions(a)
  /\ \A t \in Threads : \A a \in DOMAIN thread[t].seen :
       GrantOf(Loaded(thread[t].seen[a])) \in Decisions(a)

(* An acknowledged change survives a crash, even one in the middle of      *)
(* rewriting the file: while requests were served one at a time, a store   *)
(* that starts again holds every acknowledged agent with the grant last    *)
(* acknowledged, or the one whose answer the crash cut off (_persist and   *)
(* AgentStore.__init__, which never takes an unreadable file for none).    *)
StartKeepsAcknowledged ==
  Start /\ ~overlapped /\ phase' # "refused" =>
    \A a \in Agents :
      acked[a] # None =>
        a \in DOMAIN records' /\ GrantOf(records'[a]) \in {acked[a], latest[a]}
AcknowledgedSurvives == [][StartKeepsAcknowledged]_vars

(* Served one at a time, the idle store's file is its memory: "rewrites it *)
(* after every mutation" (AgentStore's docstring).                         *)
IdleFileIsCurrent ==
  phase = "up" /\ Busy = {} /\ ~overlapped =>
    \/ file = Whole(Snapshot(records))
    \/ file = Absent /\ records = Empty

(* DuplicateAgentError: registering an id that is already registered is    *)
(* refused; a registration never replaces a record.                        *)
RegistrationNeverReplaces ==
  [][\A t \in Threads :
       Store(t) /\ thread[t].op = "register" => thread[t].id \notin DOMAIN records]_vars
=============================================================================
