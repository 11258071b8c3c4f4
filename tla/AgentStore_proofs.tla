--------------------------- MODULE AgentStore_proofs ---------------------------
(***************************************************************************)
(* Proofs about the sandbox registry, for every set of agents, threads,    *)
(* trust updates and seeds, and any number of crashes.                     *)
(***************************************************************************)
EXTENDS AgentStoreProperties, TLAPS

-----------------------------------------------------------------------------
(* The inductive invariant.                                                *)

(* The change is stored, and the file is yet to be rewritten or the answer *)
(* to be given.                                                            *)
Stored(th) ==
  /\ th.pc \in {"persist", "iterate", "truncate", "write", "answer"}
  /\ th.op # "list"

ThreadFields == {"pc", "op", "id", "held", "todo", "size", "seen"}

WellFormed(th) ==
  /\ DOMAIN th = ThreadFields
  /\ th.pc \in Pcs
  /\ IsMap(th.seen, Entries)
  /\ th.todo \subseteq DOMAIN records
  /\ th.pc \in {"store", "persist", "truncate", "write", "answer"} => th.op # "list"
  /\ th.pc \in {"store", "persist"} => th.seen = Empty
  /\ th.pc = "store" => th.id \in Agents /\ th.held \in Records
  /\ Stored(th) => th.id \in DOMAIN records /\ th.held \in Records

FileTyped ==
  /\ file.kind \in {"absent", "empty", "torn", "whole"}
  /\ IsMap(file.entries, Entries)
  /\ file.kind = "absent" => file = Absent

Typed ==
  /\ phase \in Phases
  /\ IsMap(records, Records)
  /\ FileTyped
  /\ DOMAIN thread = Threads
  /\ \A t \in Threads : WellFormed(thread[t])
  /\ phase # "up" => \A t \in Threads : thread[t].pc = "idle"
  /\ phase = "down" => records = Empty

(* TrustIsDecided is not inductive alone: a record on its way to the store *)
(* must have been decided too.                                             *)
EntriesDecided(entries) ==
  \A a \in DOMAIN entries : GrantOf(Loaded(entries[a])) \in Decisions(a)
ThreadDecided(th) ==
  /\ th.pc = "store" => GrantOf(th.held) \in Decisions(th.id)
  /\ EntriesDecided(th.seen)
Decided ==
  /\ \A a \in DOMAIN records : GrantOf(records[a]) \in Decisions(a)
  /\ EntriesDecided(file.entries)
  /\ \A t \in Threads : ThreadDecided(thread[t])

FileCurrent == file = Whole(Snapshot(records)) \/ (file = Absent /\ records = Empty)

FileGrant(a) == GrantOf(Loaded(file.entries[a]))

AckedInMemory(agents) ==
  \A a \in agents : acked[a] # None =>
     a \in DOMAIN records /\ GrantOf(records[a]) = acked[a]
AckedInFile ==
  Readable(file) => \A a \in Agents : acked[a] # None =>
     a \in DOMAIN file.entries /\ FileGrant(a) = acked[a]

Persisting(th) ==
  /\ records[th.id] = th.held
  /\ latest[th.id] = GrantOf(th.held)
  /\ AckedInMemory(Agents \ {th.id})
  /\ th.pc \in {"persist", "iterate", "truncate"} => AckedInFile
  /\ th.pc = "iterate" => /\ th.size = Cardinality(DOMAIN records)
                          /\ th.seen = [a \in DOMAIN records \ th.todo |-> Entry(records[a])]
  /\ th.pc \in {"truncate", "write"} => th.seen = Snapshot(records)
  /\ th.pc = "write" => file = Truncated
  /\ th.pc = "answer" => file = Whole(Snapshot(records))

Booting ==
  /\ phase = "down" /\ Readable(file) =>
       \A a \in Agents : acked[a] # None =>
          a \in DOMAIN file.entries /\ FileGrant(a) \in {acked[a], latest[a]}
  /\ phase \in {"loaded", "seeded"} => AckedInFile
  /\ phase \in {"loaded", "loaded_truncated", "unseeded"} => AckedInMemory(Agents)
  /\ phase = "unseeded" => FileCurrent
  /\ phase \in {"seeded", "seeded_truncated"} =>
       \A a \in Agents : acked[a] # None => a \in DOMAIN records
  /\ phase \in {"loaded_truncated", "seeded_truncated"} => file = Truncated

Serving ==
  /\ \A s, t \in Threads : thread[s].pc # "idle" /\ thread[t].pc # "idle" => s = t
  /\ phase = "up" /\ (\A t \in Threads : ~Stored(thread[t])) =>
       FileCurrent /\ AckedInMemory(Agents)
  /\ \A t \in Threads : Stored(thread[t]) => Persisting(thread[t])

Sequential ==
  /\ DOMAIN acked = Agents /\ DOMAIN latest = Agents
  /\ ~overlapped => Booting /\ Serving

IInv == Typed /\ Decided /\ Sequential

-----------------------------------------------------------------------------
(* Grants and entries                                                      *)

LEMMA GrantTypes ==
  /\ FreshGrant \in Grants
  /\ \A u \in Updates : GrantFor(u) \in Grants
  BY UpdateAssumption, NoneAssumption
     DEF FreshGrant, Grants, Grant, GrantFor, TRUST_TIER_CEILING, TrustStatuses, Tiers

LEMMA RecordType ==
  ASSUME NEW card \in Cards, NEW g \in Grants
  PROVE  Record(card, g) \in Records /\ GrantOf(Record(card, g)) = g
  BY DEF Record, Records, Grants, GrantOf, Grant

(* A record comes back from the file as it went in.                        *)
LEMMA EntryRoundTrip ==
  ASSUME NEW r \in Records
  PROVE  /\ Entry(r) \in Entries
         /\ Loaded(Entry(r)) \in Records
         /\ GrantOf(Loaded(Entry(r))) = GrantOf(r)
  BY NoneAssumption
     DEF Records, Entries, Entry, Loaded, LoadedStatus, Record, GrantOf, Grant

LEMMA EntryLoads ==
  ASSUME NEW e \in Entries
  PROVE  Loaded(e) \in Records
  BY NoneAssumption DEF Records, Entries, Loaded, LoadedStatus, Record, Grant

LEMMA SeedLoads ==
  ASSUME NEW a \in DOMAIN Seed
  PROVE  a \in Agents /\ Loaded(Seed[a]) \in Records
<1>1. /\ a \in Agents
      /\ Seed[a] \in [card : Cards, own : TrustStatuses,
                      status : TrustStatuses \cup {None}, tier : Tiers \cup {None}]
  BY SeedAssumption
<1>2. /\ Seed[a].card \in Cards /\ Seed[a].own \in TrustStatuses
      /\ Seed[a].status \in TrustStatuses \cup {None}
      /\ Seed[a].tier \in Tiers \cup {None}
  BY <1>1
<1>3. LoadedStatus(Seed[a]) \in TrustStatuses
  BY <1>2 DEF LoadedStatus, TrustStatuses
<1>4. TRUST_TIER_CEILING[LoadedStatus(Seed[a])] \in Tiers
  BY <1>3 DEF TRUST_TIER_CEILING, TrustStatuses, Tiers
<1>. QED BY <1>1, <1>2, <1>3, <1>4 DEF Records, Loaded, Record, Grant

LEMMA SnapshotType ==
  ASSUME IsMap(records, Records)
  PROVE  /\ IsMap(Snapshot(records), Entries)
         /\ DOMAIN Snapshot(records) = DOMAIN records
         /\ \A a \in DOMAIN records :
              GrantOf(Loaded(Snapshot(records)[a])) = GrantOf(records[a])
  BY EntryRoundTrip DEF IsMap, Snapshot

(* What a thread's step does to the threads' table.                        *)
LEMMA Becomes ==
  ASSUME DOMAIN thread = Threads, NEW t \in Threads, NEW v, Become(t, v)
  PROVE  /\ DOMAIN thread' = Threads
         /\ thread'[t] = v
         /\ \A s \in Threads \ {t} : thread'[s] = thread[s]
  BY DEF Become

-----------------------------------------------------------------------------
(* Types                                                                   *)

(* A step of thread t that only lets the store grow types the threads if   *)
(* it types t.                                                             *)
LEMMA ThreadsTyped ==
  ASSUME Typed, NEW t \in Threads, NEW v, Become(t, v),
         DOMAIN records \subseteq DOMAIN records', WellFormed(thread[t])'
  PROVE  DOMAIN thread' = Threads /\ \A s \in Threads : WellFormed(thread[s])'
<1>1. /\ DOMAIN thread' = Threads
      /\ \A s \in Threads \ {t} : thread'[s] = thread[s]
  BY Becomes DEF Typed
<1>2. ASSUME NEW s \in Threads \ {t} PROVE WellFormed(thread[s])'
  BY <1>1 DEF Typed, WellFormed, Stored
<1>. QED BY <1>1, <1>2

(* A request that begins.                                                  *)
LEMMA RequestTyped ==
  ASSUME Typed, NEW t \in Threads, NEW v, Become(t, v), phase = "up",
         UNCHANGED <<phase, records, file>>,
         DOMAIN v = ThreadFields, v.pc \in Pcs, v.seen = Empty,
         v.todo \subseteq DOMAIN records,
         \/ v.pc = "store" /\ v.op # "list" /\ v.id \in Agents /\ v.held \in Records
         \/ v.pc = "iterate" /\ v.op = "list"
  PROVE  Typed'
<1>1. thread'[t] = v
  BY Becomes DEF Typed
<1>2. WellFormed(thread[t])'
  BY <1>1 DEF WellFormed, Stored, IsMap, Empty
<1>3. DOMAIN thread' = Threads /\ \A s \in Threads : WellFormed(thread[s])'
  BY <1>2, ThreadsTyped
<1>. QED BY <1>3 DEF Typed, FileTyped

(* A later step of a request.                                              *)
LEMMA ServingTyped ==
  ASSUME Typed, NEW t \in Threads, NEW v, Become(t, v), thread[t].pc # "idle",
         UNCHANGED phase, WellFormed(thread[t])',
         DOMAIN records \subseteq DOMAIN records', IsMap(records', Records),
         FileTyped'
  PROVE  Typed'
<1>1. phase = "up"
  BY DEF Typed
<1>2. DOMAIN thread' = Threads /\ \A s \in Threads : WellFormed(thread[s])'
  BY ThreadsTyped
<1>. QED BY <1>1, <1>2 DEF Typed

LEMMA IdleWellFormed ==
  DOMAIN Idle = ThreadFields /\ Idle.pc = "idle" /\ WellFormed(Idle)
  BY DEF Idle, ThreadFields, WellFormed, Stored, IsMap, Empty, Pcs

LEMMA ServeKeepsTyped ==
  ASSUME Typed, NEW t \in Threads, Serve(t)
  PROVE  Typed'
<1>. DEFINE th == thread[t]
<1>0. /\ WellFormed(th) /\ DOMAIN thread = Threads
      /\ IsMap(records, Records)
      /\ FileTyped /\ (UNCHANGED file => FileTyped')
  BY DEF Typed, FileTyped
<1>1. ASSUME NEW a \in Agents, NEW card \in Cards, Register(t, a, card)
      PROVE  Typed'
  <2>1. Record(card, FreshGrant) \in Records
    BY GrantTypes, RecordType
  <2>. QED BY <1>1, <2>1, RequestTyped
           DEF Register, Accept, Request, Idle, ThreadFields, Pcs
<1>2. ASSUME NEW a \in Agents, NEW update \in Updates, SetTrust(t, a, update)
      PROVE  Typed'
  <2>1. records[a].card \in Cards
    BY <1>0, <1>2 DEF SetTrust, IsMap, Records
  <2>2. Record(records[a].card, GrantFor(update)) \in Records
    BY <2>1, GrantTypes, RecordType
  <2>. QED BY <1>2, <2>2, RequestTyped
           DEF SetTrust, Accept, Request, Idle, ThreadFields, Pcs
<1>3. CASE List(t)
  BY <1>3, RequestTyped DEF List, Accept, Request, Idle, ThreadFields, Pcs
<1>4. CASE Store(t)
  <2>1. /\ th.pc = "store" /\ th.id \in Agents /\ th.held \in Records /\ th.op # "list"
        /\ records' = Put(records, th.id, th.held)
        /\ Become(t, [th EXCEPT !.pc = "persist"])
        /\ UNCHANGED <<phase, file>>
    BY <1>0, <1>4 DEF Store, Goto, AfterStore, WellFormed
  <2>2. thread'[t] = [th EXCEPT !.pc = "persist"]
    BY <1>0, <2>1, Becomes
  <2>3. DOMAIN records' = DOMAIN records \cup {th.id} /\ IsMap(records', Records)
    BY <1>0, <2>1 DEF Put, IsMap
  <2>4. WellFormed(thread[t])'
    BY <1>0, <2>1, <2>2, <2>3 DEF WellFormed, Stored, ThreadFields, Pcs
  <2>. QED BY <1>0, <2>1, <2>3, <2>4, ServingTyped
<1>5. CASE BeginSnapshot(t)
  <2>1. /\ th.pc = "persist"
        /\ Become(t, [th EXCEPT !.pc = "iterate", !.todo = DOMAIN records,
                                !.size = Cardinality(DOMAIN records)])
        /\ UNCHANGED <<phase, records, file>>
    BY <1>5 DEF BeginSnapshot
  <2>2. thread'[t] = [th EXCEPT !.pc = "iterate", !.todo = DOMAIN records,
                                !.size = Cardinality(DOMAIN records)]
    BY <1>0, <2>1, Becomes
  <2>3. WellFormed(thread[t])'
    BY <1>0, <2>1, <2>2 DEF WellFormed, Stored, ThreadFields, Pcs
  <2>. QED BY <1>0, <2>1, <2>3, ServingTyped
<1>6. ASSUME NEW a \in Agents, Visit(t, a) PROVE Typed'
  <2>1. /\ th.pc = "iterate" /\ a \in th.todo
        /\ Become(t, [th EXCEPT !.todo = @ \ {a},
                                !.seen = Put(@, a, Entry(records[a]))])
        /\ UNCHANGED <<phase, records, file>>
    BY <1>6 DEF Visit
  <2>2. thread'[t] = [th EXCEPT !.todo = @ \ {a},
                                !.seen = Put(@, a, Entry(records[a]))]
    BY <1>0, <2>1, Becomes
  <2>3. Entry(records[a]) \in Entries
    BY <1>0, <2>1, EntryRoundTrip DEF WellFormed, IsMap
  <2>4. IsMap(Put(th.seen, a, Entry(records[a])), Entries)
    BY <1>0, <2>3 DEF WellFormed, IsMap, Put
  <2>5. WellFormed(thread[t])'
    BY <1>0, <2>1, <2>2, <2>4 DEF WellFormed, Stored, ThreadFields
  <2>. QED BY <1>0, <2>1, <2>5, ServingTyped
<1>7. ASSUME Become(t, Idle), th.pc # "idle", UNCHANGED <<phase, records, file>>
      PROVE  Typed'
  <2>1. WellFormed(thread[t])'
    BY <1>0, <1>7, Becomes, IdleWellFormed DEF WellFormed, Stored
  <2>. QED BY <1>0, <1>7, <2>1, ServingTyped
<1>8. CASE IterationFails(t)
  BY <1>7, <1>8 DEF IterationFails
<1>9. CASE EndIteration(t)
  <2>1. CASE th.op = "list"
    BY <1>7, <1>9, <2>1 DEF EndIteration
  <2>2. CASE th.op # "list"
    <3>1. /\ th.pc = "iterate"
          /\ Become(t, [th EXCEPT !.pc = "truncate"])
          /\ UNCHANGED <<phase, records, file>>
      BY <1>9, <2>2 DEF EndIteration, Goto
    <3>2. thread'[t] = [th EXCEPT !.pc = "truncate"]
      BY <1>0, <3>1, Becomes
    <3>3. WellFormed(thread[t])'
      BY <1>0, <2>2, <3>1, <3>2 DEF WellFormed, Stored, ThreadFields, Pcs
    <3>. QED BY <1>0, <3>1, <3>3, ServingTyped
  <2>. QED BY <2>1, <2>2
<1>10. CASE Truncate(t)
  <2>1. /\ th.pc = "truncate" /\ file' = Truncated
        /\ Become(t, [th EXCEPT !.pc = "write"])
        /\ UNCHANGED <<phase, records>>
    BY <1>10 DEF Truncate, Goto
  <2>2. thread'[t] = [th EXCEPT !.pc = "write"]
    BY <1>0, <2>1, Becomes
  <2>3. WellFormed(thread[t])'
    BY <1>0, <2>1, <2>2 DEF WellFormed, Stored, ThreadFields, Pcs
  <2>4. FileTyped'
    BY <2>1 DEF FileTyped, Truncated, File, Empty, IsMap
  <2>. QED BY <1>0, <2>1, <2>3, <2>4, ServingTyped
<1>11. CASE Write(t)
  <2>1. /\ th.pc = "write" /\ file' \in Overlay(th.seen)
        /\ Become(t, [th EXCEPT !.pc = "answer"])
        /\ UNCHANGED <<phase, records>>
    BY <1>11 DEF Write, Goto
  <2>2. thread'[t] = [th EXCEPT !.pc = "answer"]
    BY <1>0, <2>1, Becomes
  <2>3. WellFormed(thread[t])'
    BY <1>0, <2>1, <2>2 DEF WellFormed, Stored, ThreadFields, Pcs
  <2>4. file' = Whole(th.seen) \/ file' = Torn
    BY <2>1 DEF Overlay
  <2>5. FileTyped'
    BY <1>0, <2>4 DEF FileTyped, Whole, Torn, File, Empty, IsMap, WellFormed
  <2>. QED BY <1>0, <2>1, <2>3, <2>5, ServingTyped
<1>12. CASE Answer(t)
  BY <1>7, <1>12 DEF Answer
<1>. QED BY <1>1, <1>2, <1>3, <1>4, <1>5, <1>6, <1>8, <1>9, <1>10, <1>11, <1>12 DEF Serve

(* Loading entries over records keeps and makes records.                   *)
LEMMA LoadIntoType ==
  ASSUME NEW recs, IsMap(recs, Records), NEW entries, DOMAIN entries \subseteq Agents,
         \A a \in DOMAIN entries : Loaded(entries[a]) \in Records
  PROVE  /\ IsMap(LoadInto(recs, entries), Records)
         /\ DOMAIN recs \subseteq DOMAIN LoadInto(recs, entries)
  BY DEF LoadInto, IsMap

LEMMA BootKeepsTyped ==
  ASSUME Typed, Boot \/ Crash
  PROVE  Typed'
<1>1. CASE Crash
  <2>1. /\ phase' = "down" /\ records' = Empty /\ file' = file
        /\ thread' = [t \in Threads |-> Idle]
    BY <1>1 DEF Crash
  <2>2. \A t \in Threads : WellFormed(thread[t])'
    BY <2>1 DEF Idle, ThreadFields, Pcs, WellFormed, Stored, IsMap, Empty
  <2>. QED BY <2>1, <2>2, IdleWellFormed DEF Typed, FileTyped, IsMap, Empty, Phases
<1>2. ASSUME phase # "up", UNCHANGED thread, phase' \in Phases \ {"down"},
             DOMAIN records \subseteq DOMAIN records', IsMap(records', Records),
             FileTyped'
      PROVE  Typed'
  <2>1. \A t \in Threads : WellFormed(thread[t])'
    BY <1>2 DEF Typed, WellFormed, Stored
  <2>. QED BY <1>2, <2>1 DEF Typed
<1>3. CASE Start
  <2>1. IsMap(LoadInto(records, file.entries), Records)
        /\ DOMAIN records \subseteq DOMAIN LoadInto(records, file.entries)
    BY EntryLoads, LoadIntoType DEF Typed, FileTyped, IsMap
  <2>2. FileTyped'
    BY <1>3 DEF Start, Typed, FileTyped
  <2>. QED BY <1>2, <1>3, <2>1, <2>2 DEF Start, Typed, Phases
<1>4. CASE LoadSeed
  <2>1. IsMap(LoadInto(records, Seed), Records)
        /\ DOMAIN records \subseteq DOMAIN LoadInto(records, Seed)
    BY SeedLoads, LoadIntoType DEF Typed
  <2>2. FileTyped'
    BY <1>4 DEF LoadSeed, Typed, FileTyped
  <2>. QED BY <1>2, <1>4, <2>1, <2>2 DEF LoadSeed, Typed, Phases
<1>5. ASSUME NEW from \in Phases \ {"up"}, NEW to \in Phases \ {"down"},
             BootTruncate(from, to)
      PROVE  Typed'
  <2>1. FileTyped'
    BY <1>5 DEF FileTyped, BootTruncate, Truncated, File, Empty, IsMap
  <2>. QED BY <1>2, <1>5, <2>1 DEF BootTruncate, Typed
<1>6. ASSUME NEW from \in Phases \ {"up"}, NEW to \in Phases \ {"down"},
             BootWrite(from, to)
      PROVE  Typed'
  <2>1. FileTyped'
    BY <1>6, SnapshotType DEF FileTyped, BootWrite, Whole, File, Typed
  <2>. QED BY <1>2, <1>6, <2>1 DEF BootWrite, Typed
<1>. QED BY <1>1, <1>3, <1>4, <1>5, <1>6 DEF Boot, Phases

LEMMA TypedInvariant == Init => Typed
<1>. SUFFICES ASSUME Init PROVE Typed
  OBVIOUS
<1>1. \A t \in Threads : thread[t] = Idle
  BY DEF Init
<1>. QED BY <1>1, IdleWellFormed DEF Init, Typed, FileTyped, IsMap, Empty, Absent, File, Phases

-----------------------------------------------------------------------------
(* Trust is decided                                                        *)

LEMMA RequestDecided ==
  ASSUME Typed, Decided, NEW t \in Threads, NEW v, Become(t, v), ThreadDecided(v),
         UNCHANGED <<records, file>>
  PROVE  Decided'
  BY Becomes DEF Typed, Decided

LEMMA ServeKeepsDecided ==
  ASSUME Typed, Decided, NEW t \in Threads, Serve(t)
  PROVE  Decided'
<1>. DEFINE th == thread[t]
<1>0. /\ WellFormed(th) /\ ThreadDecided(th) /\ DOMAIN thread = Threads
      /\ IsMap(records, Records)
  BY DEF Typed, Decided
<1>1. EntriesDecided(Empty)
  BY DEF EntriesDecided, Empty
<1>2. ASSUME NEW a \in Agents, NEW card \in Cards, Register(t, a, card)
      PROVE  Decided'
  <2>1. GrantOf(Record(card, FreshGrant)) \in Decisions(a)
    BY GrantTypes, RecordType DEF Decisions
  <2>. QED BY <1>1, <1>2, <2>1, RequestDecided
           DEF Register, Request, Idle, ThreadDecided
<1>3. ASSUME NEW a \in Agents, NEW update \in Updates, SetTrust(t, a, update)
      PROVE  Decided'
  <2>1. records[a].card \in Cards
    BY <1>0, <1>3 DEF SetTrust, IsMap, Records
  <2>2. GrantOf(Record(records[a].card, GrantFor(update))) \in Decisions(a)
    BY <2>1, GrantTypes, RecordType DEF Decisions
  <2>. QED BY <1>1, <1>3, <2>2, RequestDecided
           DEF SetTrust, Request, Idle, ThreadDecided
<1>4. CASE List(t)
  BY <1>1, <1>4, RequestDecided DEF List, Request, Idle, ThreadDecided
<1>5. CASE Store(t)
  <2>1. /\ th.pc = "store"
        /\ records' = Put(records, th.id, th.held)
        /\ Become(t, [th EXCEPT !.pc = "persist"])
        /\ UNCHANGED file
    BY <1>5 DEF Store, Goto, AfterStore
  <2>2. /\ thread'[t] = [th EXCEPT !.pc = "persist"]
        /\ \A s \in Threads \ {t} : thread'[s] = thread[s]
    BY <1>0, <2>1, Becomes
  <2>3. ThreadDecided(thread'[t])
    BY <1>0, <2>2 DEF ThreadDecided, WellFormed, ThreadFields
  <2>4. ASSUME NEW a \in DOMAIN records' PROVE GrantOf(records'[a]) \in Decisions(a)
    BY <1>0, <2>1 DEF Put, Decided, ThreadDecided
  <2>. QED BY <2>1, <2>2, <2>3, <2>4 DEF Decided
<1>6. CASE BeginSnapshot(t)
  <2>1. ThreadDecided([th EXCEPT !.pc = "iterate", !.todo = DOMAIN records,
                                 !.size = Cardinality(DOMAIN records)])
    BY <1>0 DEF ThreadDecided, WellFormed, ThreadFields
  <2>. QED BY <1>6, <2>1, RequestDecided DEF BeginSnapshot
<1>7. ASSUME NEW a \in Agents, Visit(t, a) PROVE Decided'
  <2>1. th.pc = "iterate" /\ a \in th.todo /\ a \in DOMAIN records
    BY <1>0, <1>7 DEF Visit, WellFormed
  <2>2. GrantOf(Loaded(Entry(records[a]))) \in Decisions(a)
    BY <1>0, <2>1, EntryRoundTrip DEF Decided, IsMap
  <2>3. EntriesDecided(Put(th.seen, a, Entry(records[a])))
    BY <1>0, <2>2 DEF ThreadDecided, EntriesDecided, Put
  <2>4. ThreadDecided([th EXCEPT !.todo = @ \ {a},
                                 !.seen = Put(@, a, Entry(records[a]))])
    BY <1>0, <2>1, <2>3 DEF ThreadDecided, WellFormed, ThreadFields
  <2>. QED BY <1>7, <2>4, RequestDecided DEF Visit
<1>8. ThreadDecided(Idle)
  BY <1>1 DEF ThreadDecided, Idle
<1>9. CASE IterationFails(t)
  BY <1>8, <1>9, RequestDecided DEF IterationFails
<1>10. ASSUME NEW pc \in {"truncate", "write", "answer"}
       PROVE  ThreadDecided([th EXCEPT !.pc = pc])
  BY <1>0 DEF ThreadDecided, WellFormed, ThreadFields
<1>11. CASE EndIteration(t)
  BY <1>8, <1>10, <1>11, RequestDecided DEF EndIteration, Goto
<1>12. CASE Truncate(t)
  <2>1. EntriesDecided(file'.entries)
    BY <1>1, <1>12 DEF Truncate, Truncated, File
  <2>. QED BY <1>0, <1>10, <1>12, <2>1, Becomes DEF Truncate, Goto, Decided
<1>13. CASE Write(t)
  <2>1. file' = Whole(th.seen) \/ file' = Torn
    BY <1>13 DEF Write, Overlay
  <2>2. EntriesDecided(file'.entries)
    BY <1>0, <1>1, <2>1 DEF Whole, Torn, File, ThreadDecided
  <2>. QED BY <1>0, <1>10, <1>13, <2>2, Becomes DEF Write, Goto, Decided
<1>14. CASE Answer(t)
  BY <1>8, <1>14, RequestDecided DEF Answer
<1>. QED BY <1>2, <1>3, <1>4, <1>5, <1>6, <1>7, <1>9, <1>11, <1>12, <1>13, <1>14 DEF Serve

LEMMA BootKeepsDecided ==
  ASSUME Typed, Decided, Boot \/ Crash
  PROVE  Decided'
<1>0. EntriesDecided(Empty)
  BY DEF EntriesDecided, Empty
<1>1. CASE Crash
  <2>1. \A t \in Threads : ThreadDecided(thread'[t])
    BY <1>0, <1>1 DEF Crash, Idle, ThreadDecided
  <2>. QED BY <1>1, <2>1 DEF Crash, Decided, Empty
<1>2. CASE Start
  BY <1>2 DEF Start, LoadInto, Decided, EntriesDecided
<1>3. CASE LoadSeed
  <2>1. \A a \in DOMAIN Seed : GrantOf(Loaded(Seed[a])) \in Decisions(a)
    BY DEF Decisions
  <2>. QED BY <1>3, <2>1 DEF LoadSeed, LoadInto, Decided
<1>4. ASSUME NEW from, NEW to, BootTruncate(from, to) PROVE Decided'
  BY <1>0, <1>4 DEF BootTruncate, Truncated, File, Decided
<1>5. ASSUME NEW from, NEW to, BootWrite(from, to) PROVE Decided'
  <2>1. EntriesDecided(Snapshot(records))
    BY SnapshotType DEF Typed, Decided, EntriesDecided
  <2>. QED BY <1>5, <2>1 DEF BootWrite, Whole, File, Decided
<1>. QED BY <1>1, <1>2, <1>3, <1>4, <1>5 DEF Boot

-----------------------------------------------------------------------------
(* Requests served one at a time                                           *)

(* What a current file keeps of an acknowledged change.                    *)
LEMMA CurrentInFile ==
  ASSUME Typed, FileCurrent, AckedInMemory(Agents)
  PROVE  AckedInFile
<1>1. CASE file = Whole(Snapshot(records))
  BY <1>1, SnapshotType
     DEF AckedInFile, AckedInMemory, FileGrant, Whole, File, Typed
<1>2. CASE file = Absent /\ records = Empty
  BY <1>2 DEF AckedInFile, AckedInMemory, Empty
<1>. QED BY <1>1, <1>2 DEF FileCurrent

(* A step of the only busy thread, if there is one.                        *)
LEMMA OneServes ==
  ASSUME Typed, Sequential, NEW t \in Threads, NEW v, Become(t, v), phase = "up",
         ~overlapped', ~overlapped, thread[t].pc # "idle" \/ Busy = {},
         UNCHANGED phase, DOMAIN acked' = Agents, DOMAIN latest' = Agents,
         \/ Stored(v) /\ Persisting(thread[t])'
         \/ ~Stored(v) /\ FileCurrent' /\ AckedInMemory(Agents)'
  PROVE  Sequential'
<1>1. /\ thread'[t] = v
      /\ \A s \in Threads \ {t} : thread'[s] = thread[s]
  BY Becomes DEF Typed
<1>2. \A s \in Threads \ {t} : thread'[s].pc = "idle"
  BY <1>1 DEF Sequential, Serving, Busy
<1>3. \A s \in Threads \ {t} : ~Stored(thread'[s])
  BY <1>2 DEF Stored
<1>4. Serving'
  <2>1. \A r, s \in Threads : thread'[r].pc # "idle" /\ thread'[s].pc # "idle" => r = s
    BY <1>2
  <2>2. CASE Stored(v) /\ Persisting(thread[t])'
    BY <1>1, <1>3, <2>1, <2>2 DEF Serving
  <2>3. CASE ~Stored(v) /\ FileCurrent' /\ AckedInMemory(Agents)'
    BY <1>1, <1>3, <2>1, <2>3 DEF Serving
  <2>. QED BY <2>2, <2>3
<1>5. Booting'
  BY DEF Booting
<1>. QED BY <1>4, <1>5 DEF Sequential

(* While no change is stored and unanswered, the file is current.          *)
LEMMA SettledFile ==
  ASSUME Typed, Sequential, ~overlapped, phase = "up", NEW t \in Threads,
         thread[t].pc # "idle" \/ Busy = {}, ~Stored(thread[t])
  PROVE  FileCurrent /\ AckedInMemory(Agents)
<1>1. \A s \in Threads : ~Stored(thread[s])
  BY DEF Sequential, Serving, Stored, Busy
<1>. QED BY <1>1 DEF Sequential, Serving

LEMMA SameCurrent ==
  ASSUME UNCHANGED <<records, file, acked>>
  PROVE  /\ FileCurrent => FileCurrent'
         /\ \A agents : AckedInMemory(agents) => AckedInMemory(agents)'
         /\ AckedInFile => AckedInFile'
  BY DEF FileCurrent, AckedInMemory, AckedInFile, FileGrant

LEMMA RequestKeepsSequential ==
  ASSUME Typed, Sequential, NEW t \in Threads, NEW v, Become(t, v), Accept,
         thread[t] = Idle, ~Stored(v), UNCHANGED <<phase, records, file>>
  PROVE  Sequential'
<1>1. CASE overlapped'
  <2>1. DOMAIN acked' = Agents /\ DOMAIN latest' = Agents
    BY <1>1 DEF Accept, Forgotten
  <2>. QED BY <1>1, <2>1 DEF Sequential
<1>2. CASE ~overlapped'
  <2>1. /\ ~overlapped /\ Busy = {} /\ phase = "up"
        /\ UNCHANGED <<acked, latest>>
    BY <1>2 DEF Accept
  <2>2. ~Stored(thread[t])
    BY DEF Stored, Idle
  <2>3. FileCurrent' /\ AckedInMemory(Agents)'
    BY <2>1, <2>2, SettledFile, SameCurrent
  <2>. QED BY <1>2, <2>1, <2>3, OneServes DEF Sequential
<1>. QED BY <1>1, <1>2

LEMMA ServeKeepsSequential ==
  ASSUME Typed, Sequential, NEW t \in Threads, Serve(t)
  PROVE  Sequential'
<1>. DEFINE th == thread[t]
            id == th.id
<1>0. /\ WellFormed(th) /\ DOMAIN thread = Threads /\ IsMap(records, Records)
      /\ DOMAIN th = ThreadFields
  BY DEF Typed, WellFormed
<1>1. ASSUME NEW a \in Agents, NEW card \in Cards, Register(t, a, card)
      PROVE  Sequential'
  BY <1>1, RequestKeepsSequential DEF Register, Request, Idle, Stored
<1>2. ASSUME NEW a \in Agents, NEW update \in Updates, SetTrust(t, a, update)
      PROVE  Sequential'
  BY <1>2, RequestKeepsSequential DEF SetTrust, Request, Idle, Stored
<1>3. CASE List(t)
  BY <1>3, RequestKeepsSequential DEF List, Request, Idle, Stored

(* The later steps leave the history's domains alone, and say nothing of   *)
(* requests that overlapped.                                               *)
<1>4. ASSUME th.pc # "idle", UNCHANGED <<phase, overlapped>>,
             DOMAIN acked' = DOMAIN acked, DOMAIN latest' = DOMAIN latest,
             NEW v, Become(t, v),
             ~overlapped =>
                \/ Stored(v) /\ Persisting(thread[t])'
                \/ ~Stored(v) /\ FileCurrent' /\ AckedInMemory(Agents)'
      PROVE  Sequential'
  <2>1. phase = "up"
    BY <1>4 DEF Typed
  <2>. QED BY <1>4, <2>1, OneServes DEF Sequential
<1>5. ~overlapped /\ Stored(th) => Persisting(th)
  BY DEF Sequential, Serving
<1>6. ~overlapped /\ ~Stored(th) /\ th.pc # "idle" =>
         FileCurrent /\ AckedInMemory(Agents) /\ AckedInFile
  <2>. SUFFICES ASSUME ~overlapped, ~Stored(th), th.pc # "idle"
                PROVE  FileCurrent /\ AckedInMemory(Agents) /\ AckedInFile
    OBVIOUS
  <2>1. phase = "up"
    BY DEF Typed
  <2>. QED BY <2>1, SettledFile, CurrentInFile
<1>7. CASE Store(t)
  <2>1. /\ th.pc = "store" /\ id \in Agents /\ th.held \in Records /\ th.op # "list"
        /\ records' = Put(records, id, th.held)
        /\ latest' = IF overlapped THEN latest ELSE [latest EXCEPT ![id] = GrantOf(th.held)]
        /\ Become(t, [th EXCEPT !.pc = "persist"])
        /\ UNCHANGED <<phase, file, overlapped, acked>>
    BY <1>0, <1>7 DEF Store, Goto, AfterStore, WellFormed
  <2>2. /\ thread'[t] = [th EXCEPT !.pc = "persist"]
        /\ thread'[t].pc = "persist" /\ thread'[t].op = th.op
        /\ thread'[t].id = id /\ thread'[t].held = th.held
    BY <1>0, <2>1, Becomes DEF ThreadFields
  <2>3. ~Stored(th) /\ Stored(thread'[t])
    BY <2>1, <2>2 DEF Stored
  <2>4. /\ records'[id] = th.held
        /\ \A a \in DOMAIN records \ {id} : a \in DOMAIN records' /\ records'[a] = records[a]
    BY <2>1 DEF Put
  <2>5. ASSUME ~overlapped PROVE Persisting(thread[t])'
    <3>1. AckedInMemory(Agents) /\ AckedInFile
      BY <1>6, <2>1, <2>3, <2>5
    <3>2. latest'[id] = GrantOf(th.held)
      BY <2>1, <2>5 DEF Sequential
    <3>3. AckedInMemory(Agents \ {thread[t].id})'
      BY <2>1, <2>2, <2>4, <3>1 DEF AckedInMemory
    <3>4. AckedInFile'
      BY <2>1, <3>1 DEF AckedInFile, FileGrant
    <3>. QED BY <2>2, <2>4, <3>2, <3>3, <3>4 DEF Persisting
  <2>6. DOMAIN latest' = DOMAIN latest
    BY <2>1
  <2>7. Stored([th EXCEPT !.pc = "persist"])
    BY <2>2, <2>3
  <2>. QED BY <1>4, <2>1, <2>5, <2>6, <2>7

(* Steps of a stored change that neither store nor answer anything.        *)
<1>8. ASSUME NEW v, Become(t, v), Stored(th),
             v.pc \in {"iterate", "truncate", "write", "answer"},
             v.op = th.op, v.id = id, v.held = th.held,
             UNCHANGED <<phase, records, history>>,
             ~overlapped =>
               /\ v.pc \in {"iterate", "truncate"} => AckedInFile'
               /\ v.pc = "iterate" =>
                    /\ v.size = Cardinality(DOMAIN records)
                    /\ v.seen = [a \in DOMAIN records \ v.todo |-> Entry(records[a])]
               /\ v.pc \in {"truncate", "write"} => v.seen = Snapshot(records)
               /\ v.pc = "write" => file' = Truncated
               /\ v.pc = "answer" => file' = Whole(Snapshot(records))
      PROVE  Sequential'
  <2>1. thread'[t] = v
    BY <1>0, <1>8, Becomes
  <2>2. Stored(v) /\ th.pc # "idle"
    BY <1>8 DEF Stored
  <2>3. /\ records' = records /\ latest' = latest /\ acked' = acked
        /\ UNCHANGED <<phase, overlapped>>
    BY <1>8 DEF history
  <2>4. ASSUME ~overlapped PROVE Persisting(thread[t])'
    <3>1. /\ records[id] = th.held /\ latest[id] = GrantOf(th.held)
          /\ AckedInMemory(Agents \ {id})
      BY <1>5, <1>8, <2>4 DEF Persisting
    <3>2. AckedInMemory(Agents \ {thread[t].id})'
      BY <1>8, <2>1, <2>3, <3>1 DEF AckedInMemory
    <3>3. Snapshot(records)' = Snapshot(records)
      BY <2>3
    <3>. QED BY <1>8, <2>1, <2>3, <2>4, <3>1, <3>2, <3>3 DEF Persisting
  <2>. QED BY <1>4, <1>8, <2>2, <2>3, <2>4
<1>9. ~overlapped /\ Stored(th) /\ th.pc \in {"persist", "iterate", "truncate"}
         /\ UNCHANGED <<file, history>> => AckedInFile'
  BY <1>5 DEF Persisting, AckedInFile, FileGrant, history
<1>10. CASE BeginSnapshot(t)
  <2>. DEFINE v == [th EXCEPT !.pc = "iterate", !.todo = DOMAIN records,
                              !.size = Cardinality(DOMAIN records)]
  <2>1. /\ th.pc = "persist" /\ Become(t, v)
        /\ UNCHANGED <<phase, records, file, history>>
    BY <1>10 DEF BeginSnapshot
  <2>2. /\ v.pc = "iterate" /\ v.op = th.op /\ v.id = id /\ v.held = th.held
        /\ v.todo = DOMAIN records /\ v.size = Cardinality(DOMAIN records)
        /\ v.seen = Empty
    BY <1>0, <2>1 DEF ThreadFields, WellFormed
  <2>3. Stored(th)
    BY <1>0, <2>1 DEF Stored, WellFormed
  <2>4. v.seen = [a \in DOMAIN records \ v.todo |-> Entry(records[a])]
    BY <2>2 DEF Empty
  <2>. HIDE DEF v
  <2>. QED BY <1>8, <1>9, <2>1, <2>2, <2>3, <2>4
<1>11. ASSUME NEW a \in Agents, Visit(t, a) PROVE Sequential'
  <2>. DEFINE v == [th EXCEPT !.todo = @ \ {a}, !.seen = Put(@, a, Entry(records[a]))]
  <2>1. /\ th.pc = "iterate" /\ a \in th.todo /\ a \in DOMAIN records /\ Become(t, v)
        /\ UNCHANGED <<phase, records, file, history>>
    BY <1>0, <1>11 DEF Visit, WellFormed
  <2>2. /\ v.pc = "iterate" /\ v.op = th.op /\ v.id = id /\ v.held = th.held
        /\ v.todo = th.todo \ {a} /\ v.size = th.size
        /\ v.seen = Put(th.seen, a, Entry(records[a]))
    BY <1>0, <2>1 DEF ThreadFields
  <2>. HIDE DEF v
  <2>3. CASE Stored(th)
    <3>1. ASSUME ~overlapped
          PROVE  /\ v.size = Cardinality(DOMAIN records)
                 /\ v.seen = [b \in DOMAIN records \ v.todo |-> Entry(records[b])]
      BY <1>5, <2>1, <2>2, <2>3, <3>1 DEF Persisting, Put
    <3>. QED BY <1>8, <1>9, <2>1, <2>2, <2>3, <3>1
  <2>4. CASE ~Stored(th)
    <3>1. ~Stored(v) /\ th.pc # "idle"
      BY <2>1, <2>2, <2>4 DEF Stored
    <3>2. ~overlapped => FileCurrent' /\ AckedInMemory(Agents)'
      BY <1>6, <2>1, <2>4, SameCurrent DEF history
    <3>. QED BY <1>4, <2>1, <3>1, <3>2 DEF history
  <2>. QED BY <2>3, <2>4

(* A listing that ends or fails answers; nothing else fails.               *)
<1>12. ASSUME th.pc = "iterate", ~Stored(th), Become(t, Idle),
              UNCHANGED <<phase, records, file, history>>
       PROVE  Sequential'
  <2>1. ~Stored(Idle)
    BY DEF Stored, Idle
  <2>2. ~overlapped => FileCurrent' /\ AckedInMemory(Agents)'
    BY <1>6, <1>12, SameCurrent DEF history
  <2>. QED BY <1>4, <1>12, <2>1, <2>2 DEF history
<1>13. CASE IterationFails(t)
  <2>1. /\ th.pc = "iterate" /\ Cardinality(DOMAIN records) # th.size /\ Become(t, Idle)
        /\ UNCHANGED <<phase, records, file, history>>
    BY <1>13 DEF IterationFails, SizeChanged
  <2>2. Stored(th) => overlapped
    BY <1>5, <2>1 DEF Persisting
  <2>3. CASE overlapped
    BY <1>4, <2>1, <2>3 DEF history
  <2>. QED BY <1>12, <2>1, <2>2, <2>3
<1>14. CASE EndIteration(t)
  <2>1. CASE th.op = "list"
    BY <1>12, <1>14, <2>1 DEF EndIteration, Stored
  <2>2. CASE th.op # "list"
    <3>. DEFINE v == [th EXCEPT !.pc = "truncate"]
    <3>1. /\ th.pc = "iterate" /\ th.todo = {} /\ Become(t, v)
          /\ UNCHANGED <<phase, records, file, history>>
      BY <1>14, <2>2 DEF EndIteration, Goto
    <3>2. /\ v.pc = "truncate" /\ v.op = th.op /\ v.id = id /\ v.held = th.held
          /\ v.seen = th.seen
      BY <1>0 DEF ThreadFields
    <3>. HIDE DEF v
    <3>3. Stored(th)
      BY <2>2, <3>1 DEF Stored
    <3>4. ASSUME ~overlapped PROVE v.seen = Snapshot(records)
      BY <1>5, <3>1, <3>2, <3>3, <3>4 DEF Persisting, Snapshot
    <3>. QED BY <1>8, <1>9, <3>1, <3>2, <3>3, <3>4
  <2>. QED BY <2>1, <2>2
<1>15. CASE Truncate(t)
  <2>. DEFINE v == [th EXCEPT !.pc = "write"]
  <2>1. /\ th.pc = "truncate" /\ file' = Truncated /\ Become(t, v)
        /\ UNCHANGED <<phase, records, history>>
    BY <1>15 DEF Truncate, Goto
  <2>2. /\ v.pc = "write" /\ v.op = th.op /\ v.id = id /\ v.held = th.held
        /\ v.seen = th.seen
    BY <1>0 DEF ThreadFields
  <2>. HIDE DEF v
  <2>3. Stored(th)
    BY <1>0, <2>1 DEF Stored, WellFormed
  <2>4. ~overlapped => v.seen = Snapshot(records)
    BY <1>5, <2>1, <2>2, <2>3 DEF Persisting
  <2>. QED BY <1>8, <2>1, <2>2, <2>3, <2>4
<1>16. CASE Write(t)
  <2>. DEFINE v == [th EXCEPT !.pc = "answer"]
  <2>1. /\ th.pc = "write" /\ file' \in Overlay(th.seen) /\ Become(t, v)
        /\ UNCHANGED <<phase, records, history>>
    BY <1>16 DEF Write, Goto
  <2>2. /\ v.pc = "answer" /\ v.op = th.op /\ v.id = id /\ v.held = th.held
    BY <1>0 DEF ThreadFields
  <2>. HIDE DEF v
  <2>3. Stored(th)
    BY <1>0, <2>1 DEF Stored, WellFormed
  <2>4. ASSUME ~overlapped PROVE file' = Whole(Snapshot(records))
    <3>1. th.seen = Snapshot(records) /\ file = Truncated
      BY <1>5, <2>1, <2>3, <2>4 DEF Persisting
    <3>2. file.kind = "empty"
      BY <3>1 DEF Truncated, File
    <3>. QED BY <2>1, <3>1, <3>2 DEF Overlay
  <2>. QED BY <1>8, <2>1, <2>2, <2>3, <2>4
<1>17. CASE Answer(t)
  <2>1. /\ th.pc = "answer" /\ Become(t, Idle)
        /\ acked' = IF overlapped THEN acked ELSE [acked EXCEPT ![id] = AnsweredGrant(t)]
        /\ UNCHANGED <<phase, records, file, latest, overlapped>>
    BY <1>17 DEF Answer
  <2>2. Stored(th) /\ ~Stored(Idle) /\ id \in Agents /\ id \in DOMAIN records
    BY <1>0, <2>1 DEF Stored, Idle, WellFormed, IsMap
  <2>3. ASSUME ~overlapped PROVE FileCurrent' /\ AckedInMemory(Agents)'
    <3>1. /\ records[id] = th.held /\ AckedInMemory(Agents \ {id})
          /\ file = Whole(Snapshot(records))
      BY <1>5, <2>1, <2>2, <2>3 DEF Persisting
    <3>2. AnsweredGrant(t) = GrantOf(records[id])
      BY <3>1 DEF AnsweredGrant
    <3>3. /\ acked'[id] = GrantOf(records[id])
          /\ \A a \in Agents \ {id} : acked'[a] = acked[a]
      BY <2>1, <2>2, <2>3, <3>2 DEF Sequential
    <3>4. AckedInMemory(Agents)'
      BY <2>1, <2>2, <3>1, <3>3 DEF AckedInMemory
    <3>. QED BY <2>1, <3>1, <3>4 DEF FileCurrent
  <2>4. DOMAIN acked' = DOMAIN acked /\ th.pc # "idle"
    BY <2>1
  <2>. QED BY <1>4, <2>1, <2>2, <2>3, <2>4
<1>. QED BY <1>1, <1>2, <1>3, <1>7, <1>10, <1>11, <1>13, <1>14, <1>15, <1>16, <1>17 DEF Serve

LEMMA BootKeepsSequential ==
  ASSUME Typed, Sequential, Boot \/ Crash
  PROVE  Sequential'
<1>0. /\ DOMAIN acked = Agents /\ DOMAIN latest = Agents
      /\ IsMap(records, Records) /\ IsMap(file.entries, Entries)
  BY DEF Sequential, Typed, FileTyped
<1>1. \A entries : DOMAIN Noted(acked, entries) = Agents /\ DOMAIN Noted(latest, entries) = Agents
  BY DEF Noted
<1>2. CASE Crash
  <2>1. /\ phase' = "down" /\ phase \notin {"down", "refused"}
        /\ \A t \in Threads : thread'[t].pc = "idle"
        /\ UNCHANGED <<file, acked, latest, overlapped>>
    BY <1>2 DEF Crash, Idle, history
  <2>2. ASSUME ~overlapped, Readable(file), NEW a \in Agents, acked[a] # None
        PROVE  a \in DOMAIN file.entries /\ FileGrant(a) \in {acked[a], latest[a]}
    <3>1. CASE AckedInFile
      BY <2>2, <3>1 DEF AckedInFile
    <3>2. CASE FileCurrent /\ AckedInMemory(Agents)
      BY <3>1, <3>2, CurrentInFile
    <3>3. CASE phase \in {"loaded_truncated", "seeded_truncated"}
      BY <2>2, <3>3 DEF Sequential, Booting, Readable, Truncated, File
    <3>4. CASE phase = "up"
      <4>1. CASE \A t \in Threads : ~Stored(thread[t])
        BY <2>2, <3>2, <3>4, <4>1 DEF Sequential, Serving
      <4>2. ASSUME NEW t \in Threads, Stored(thread[t])
            PROVE  a \in DOMAIN file.entries /\ FileGrant(a) \in {acked[a], latest[a]}
        <5>1. Persisting(thread[t]) /\ WellFormed(thread[t])
          BY <2>2, <4>2 DEF Sequential, Serving, Typed
        <5>2. thread[t].pc # "write"
          BY <2>2, <5>1 DEF Persisting, Readable, Truncated, File
        <5>3. CASE thread[t].pc = "answer"
          <6>1. /\ file = Whole(Snapshot(records))
                /\ latest[thread[t].id] = GrantOf(records[thread[t].id])
                /\ thread[t].id \in DOMAIN records
            BY <4>2, <5>1, <5>3 DEF Persisting, WellFormed
          <6>2. a # thread[t].id => a \in DOMAIN records /\ GrantOf(records[a]) = acked[a]
            BY <2>2, <5>1 DEF Persisting, AckedInMemory
          <6>3. a \in DOMAIN records /\ GrantOf(records[a]) \in {acked[a], latest[a]}
            BY <6>1, <6>2
          <6>. QED BY <1>0, <6>1, <6>3, SnapshotType DEF FileGrant, Whole, File
        <5>. QED BY <3>1, <4>2, <5>1, <5>2, <5>3 DEF Stored, Persisting
      <4>. QED BY <4>1, <4>2
    <3>5. phase \in {"loaded", "seeded", "unseeded"} =>
             AckedInFile \/ (FileCurrent /\ AckedInMemory(Agents))
      BY <2>2 DEF Sequential, Booting
    <3>. QED BY <2>1, <3>1, <3>2, <3>3, <3>4, <3>5 DEF Typed, Phases
  <2>3. ~overlapped => Booting'
    BY <2>1, <2>2 DEF Booting, FileGrant
  <2>4. Serving'
    BY <2>1 DEF Serving, Stored
  <2>. QED BY <1>0, <2>1, <2>3, <2>4 DEF Sequential

(* While the process boots no thread serves.                               *)
<1>3. ASSUME phase # "up", UNCHANGED thread,
             phase' = "up" /\ ~overlapped => FileCurrent' /\ AckedInMemory(Agents)'
      PROVE  ~overlapped => Serving'
  <2>1. \A t \in Threads : thread'[t].pc = "idle"
    BY <1>3 DEF Typed
  <2>. QED BY <1>3, <2>1 DEF Serving, Stored
<1>4. CASE Start
  <2>1. /\ phase = "down" /\ records = Empty
        /\ acked' = Noted(acked, file.entries)
        /\ UNCHANGED <<file, thread, latest, overlapped>>
    BY <1>4 DEF Start, Typed
  <2>2. ~overlapped => Serving'
    BY <1>3, <1>4, <2>1 DEF Start
  <2>3. CASE ~Readable(file)
    <3>1. phase' = "refused"
      BY <1>4, <2>3 DEF Start
    <3>2. Booting'
      BY <3>1 DEF Booting
    <3>. QED BY <1>0, <1>1, <2>1, <2>2, <3>2 DEF Sequential
  <2>4. CASE Readable(file)
    <3>1. /\ phase' = IF file.kind = "whole" THEN "loaded" ELSE "unseeded"
          /\ records' = LoadInto(records, file.entries)
      BY <1>4, <2>4 DEF Start
    <3>2. /\ DOMAIN records' = DOMAIN file.entries
          /\ \A a \in DOMAIN file.entries : records'[a] = Loaded(file.entries[a])
      BY <2>1, <3>1 DEF LoadInto, Empty
    <3>3. ASSUME ~overlapped, NEW a \in Agents, acked'[a] # None
          PROVE  a \in DOMAIN file.entries /\ acked'[a] = FileGrant(a)
      <4>1. a \in DOMAIN file.entries
        BY <2>1, <2>4, <3>3 DEF Noted, Sequential, Booting
      <4>. QED BY <2>1, <3>3, <4>1 DEF Noted, FileGrant
    <3>4. ~overlapped => AckedInFile' /\ AckedInMemory(Agents)'
      BY <2>1, <3>2, <3>3 DEF AckedInFile, AckedInMemory, FileGrant
    <3>5. phase' = "unseeded" => FileCurrent'
      <4>. SUFFICES ASSUME phase' = "unseeded" PROVE FileCurrent'
        OBVIOUS
      <4>1. file = Absent
        BY <2>4, <3>1 DEF Readable, Typed, FileTyped
      <4>2. records' = Empty
        BY <2>1, <3>1, <4>1 DEF LoadInto, Absent, File, Empty
      <4>. QED BY <2>1, <4>1, <4>2 DEF FileCurrent
    <3>6. ~overlapped => Booting'
      BY <3>1, <3>4, <3>5 DEF Booting
    <3>. QED BY <1>0, <1>1, <2>1, <2>2, <3>6 DEF Sequential
  <2>. QED BY <2>3, <2>4
<1>5. CASE LoadSeed
  <2>1. /\ phase = "unseeded" /\ records' = LoadInto(records, Seed)
        /\ phase' = IF Seed = Empty THEN "up" ELSE "seeded"
        /\ latest' = Noted(latest, Seed)
        /\ UNCHANGED <<file, thread, acked, overlapped>>
    BY <1>5 DEF LoadSeed
  <2>2. ~overlapped => FileCurrent /\ AckedInMemory(Agents) /\ AckedInFile
    BY <2>1, CurrentInFile DEF Sequential, Booting
  <2>3. ~overlapped => AckedInFile'
    BY <2>1, <2>2 DEF AckedInFile, FileGrant
  <2>4. DOMAIN records \subseteq DOMAIN records'
    BY <2>1 DEF LoadInto
  <2>5. CASE Seed = Empty
    <3>1. /\ DOMAIN records' = DOMAIN records
          /\ \A a \in DOMAIN records : records'[a] = records[a]
          /\ records = Empty => records' = Empty
      BY <2>1, <2>5 DEF LoadInto, Empty
    <3>2. Snapshot(records)' = Snapshot(records)
      BY <3>1 DEF Snapshot
    <3>3. ~overlapped => FileCurrent' /\ AckedInMemory(Agents)'
      BY <2>1, <2>2, <3>1, <3>2 DEF FileCurrent, AckedInMemory
    <3>4. Booting'
      BY <2>1, <2>5 DEF Booting
    <3>. QED BY <1>0, <1>1, <1>3, <2>1, <3>3, <3>4 DEF Sequential
  <2>6. CASE Seed # Empty
    <3>1. ~overlapped => Booting'
      BY <2>1, <2>2, <2>3, <2>4, <2>6 DEF Booting, AckedInMemory
    <3>. QED BY <1>0, <1>1, <1>3, <2>1, <2>6, <3>1 DEF Sequential
  <2>. QED BY <2>5, <2>6
<1>6. ASSUME NEW from, NEW to, BootTruncate(from, to),
             \/ from = "loaded" /\ to = "loaded_truncated"
             \/ from = "seeded" /\ to = "seeded_truncated"
      PROVE  Sequential'
  <2>1. /\ phase = from /\ file' = Truncated /\ phase' = to
        /\ UNCHANGED <<records, thread, acked, latest, overlapped>>
    BY <1>6 DEF BootTruncate, history
  <2>2. ~overlapped => /\ from = "loaded" => AckedInMemory(Agents)
                       /\ from = "seeded" =>
                            \A a \in Agents : acked[a] # None => a \in DOMAIN records
    BY <2>1 DEF Sequential, Booting
  <2>3. ~overlapped => Booting'
    BY <1>6, <2>1, <2>2 DEF Booting, AckedInMemory
  <2>. QED BY <1>0, <1>3, <1>6, <2>1, <2>3 DEF Sequential
<1>7. CASE BootWrite("loaded_truncated", "unseeded")
  <2>1. /\ phase = "loaded_truncated" /\ phase' = "unseeded"
        /\ file' = Whole(Snapshot(records))
        /\ UNCHANGED <<records, thread, acked, latest, overlapped>>
    BY <1>7 DEF BootWrite
  <2>2. ~overlapped => AckedInMemory(Agents)
    BY <2>1 DEF Sequential, Booting
  <2>3. ~overlapped => Booting'
    BY <2>1, <2>2 DEF Booting, FileCurrent, AckedInMemory
  <2>. QED BY <1>0, <1>3, <2>1, <2>3 DEF Sequential
<1>8. CASE BootWrite("seeded_truncated", "up")
  <2>1. /\ phase = "seeded_truncated" /\ phase' = "up"
        /\ file' = Whole(Snapshot(records))
        /\ acked' = Noted(acked, Snapshot(records))
        /\ UNCHANGED <<records, thread, latest, overlapped>>
    BY <1>8 DEF BootWrite
  <2>2. ASSUME ~overlapped PROVE FileCurrent' /\ AckedInMemory(Agents)'
    <3>1. \A a \in Agents : acked[a] # None => a \in DOMAIN records
      BY <2>1, <2>2 DEF Sequential, Booting
    <3>2. \A a \in Agents : acked'[a] = IF a \in DOMAIN records THEN GrantOf(records[a])
                                        ELSE acked[a]
      BY <1>0, <2>1, <2>2, SnapshotType DEF Noted
    <3>. QED BY <2>1, <3>1, <3>2 DEF FileCurrent, AckedInMemory
  <2>3. Booting'
    BY <2>1 DEF Booting
  <2>. QED BY <1>0, <1>1, <1>3, <2>1, <2>2, <2>3 DEF Sequential
<1>. QED BY <1>2, <1>4, <1>5, <1>6, <1>7, <1>8 DEF Boot

-----------------------------------------------------------------------------
LEMMA InitIInv == Init => IInv
<1>. SUFFICES ASSUME Init PROVE IInv
  OBVIOUS
<1>1. /\ phase = "down" /\ records = Empty /\ file = Absent
      /\ acked = Forgotten /\ latest = Forgotten
      /\ \A t \in Threads : thread[t].pc = "idle" /\ thread[t].seen = Empty
  BY DEF Init, Idle
<1>2. Decided
  BY <1>1 DEF Decided, ThreadDecided, EntriesDecided, Absent, File, Empty
<1>3. Sequential
  BY <1>1 DEF Sequential, Booting, Serving, Forgotten, Stored
<1>. QED BY <1>2, <1>3, TypedInvariant DEF IInv

LEMMA SameState == IInv /\ UNCHANGED vars => IInv'
<1>. SUFFICES ASSUME IInv, UNCHANGED vars PROVE IInv'
  OBVIOUS
<1>. USE DEF vars, history
<1>1. Typed'
  BY DEF IInv, Typed, FileTyped, WellFormed, Stored
<1>2. Decided'
  BY DEF IInv, Decided
<1>3. Serving = Serving' /\ Booting = Booting'
  BY DEF Serving, Booting, Persisting, FileCurrent, AckedInMemory, AckedInFile, FileGrant
<1>4. Sequential'
  BY <1>3 DEF IInv, Sequential
<1>. QED BY <1>1, <1>2, <1>4 DEF IInv

LEMMA InductiveInvariant == Spec => []IInv
<1>1. IInv /\ [Next]_vars => IInv'
  <2>. SUFFICES ASSUME IInv, [Next]_vars PROVE IInv'
    OBVIOUS
  <2>1. CASE UNCHANGED vars
    BY <2>1, SameState
  <2>2. CASE Boot \/ Crash
    BY <2>2, BootKeepsTyped, BootKeepsDecided, BootKeepsSequential DEF IInv
  <2>3. ASSUME NEW t \in Threads, Serve(t) PROVE IInv'
    BY <2>3, ServeKeepsTyped, ServeKeepsDecided, ServeKeepsSequential DEF IInv
  <2>. QED BY <2>1, <2>2, <2>3 DEF Next
<1>. QED BY <1>1, InitIInv, PTL DEF Spec

-----------------------------------------------------------------------------
(* The types; and a thread about to store or to answer knows the agent it  *)
(* serves, which for an answer the store holds.                            *)
THEOREM StoreTypeCorrect == Spec => []StoreTypeOK
<1>1. IInv => StoreTypeOK
  BY DEF IInv, Typed, FileTyped, WellFormed, Stored, StoreTypeOK
<1>. QED BY <1>1, InductiveInvariant, PTL

(* No status or ceiling is ever held that nobody decided, and none is      *)
(* paired with another decision's, however updates, snapshots, crashes and *)
(* restarts interleave.                                                    *)
THEOREM TrustIsNeverInvented == Spec => []TrustIsDecided
<1>1. IInv => TrustIsDecided
  BY DEF IInv, Decided, ThreadDecided, EntriesDecided, TrustIsDecided
<1>. QED BY <1>1, InductiveInvariant, PTL

(* Whatever its size, a store that serves one request at a time has its    *)
(* memory in its file whenever it is idle.                                 *)
THEOREM IdleFilesAreCurrent == Spec => []IdleFileIsCurrent
<1>1. IInv => IdleFileIsCurrent
  <2>. SUFFICES ASSUME IInv, phase = "up", Busy = {}, ~overlapped PROVE FileCurrent
    BY DEF IdleFileIsCurrent, FileCurrent
  <2>1. \A t \in Threads : ~Stored(thread[t])
    BY DEF Busy, Stored
  <2>. QED BY <2>1 DEF IInv, Sequential, Serving
<1>. QED BY <1>1, InductiveInvariant, PTL

(* A restart finds every acknowledged change, whichever step the crash cut *)
(* off, unless the file is unreadable and the store refuses to start.      *)
THEOREM RestartsKeepAcknowledged == Spec => AcknowledgedSurvives
<1>1. IInv /\ [Next]_vars => StartKeepsAcknowledged
  <2>. SUFFICES ASSUME IInv, Start, ~overlapped, phase' # "refused",
                       NEW a \in Agents, acked[a] # None
                PROVE  a \in DOMAIN records' /\ GrantOf(records'[a]) \in {acked[a], latest[a]}
    BY DEF StartKeepsAcknowledged
  <2>1. Readable(file) /\ phase = "down" /\ records' = LoadInto(records, file.entries)
    BY DEF Start
  <2>2. a \in DOMAIN file.entries /\ FileGrant(a) \in {acked[a], latest[a]}
    BY <2>1 DEF IInv, Sequential, Booting
  <2>. QED BY <2>1, <2>2 DEF LoadInto, FileGrant
<1>. QED BY <1>1, InductiveInvariant, PTL DEF Spec, AcknowledgedSurvives
=============================================================================
