------------------------------ MODULE AgentStore ------------------------------
(***************************************************************************)
(* The sandbox registry (sandbox_registry/store.py behind app.py).  Its    *)
(* handlers are plain functions, which FastAPI runs in a pool of threads,  *)
(* and the store takes no lock: a thread can lose the interpreter between  *)
(* any two steps below.  Every mutation rewrites the persistence file in   *)
(* place; the process may crash at any time and is started again.          *)
(*                                                                         *)
(* Iterating over the dict visits its entries one by one and raises when   *)
(* an insertion changed its size in the meantime.  Which entry comes next  *)
(* is left open here; the code visits them in the order of insertion.      *)
(***************************************************************************)
EXTENDS Trust, Naturals, FiniteSets

CONSTANTS
  Agents,       \* agent ids
  Cards,        \* agent cards; two cards may claim one id
  Updates,      \* the trust updates admins send: [status, tier]
  Threads,      \* the worker threads
  Seed,         \* the seed file's entries: agent -> [card, own, status, tier]
  MaxCrashes,   \* bound on the crashes of a run
  None          \* an absent optional value

ASSUME UpdateAssumption ==
  Updates \subseteq [status : TrustStatuses, tier : Tiers \cup {None}]
ASSUME SeedAssumption ==
  /\ DOMAIN Seed \subseteq Agents
  /\ \A a \in DOMAIN Seed :
       Seed[a] \in [card : Cards, own : TrustStatuses,
                    status : TrustStatuses \cup {None}, tier : Tiers \cup {None}]
ASSUME NoneAssumption == None \notin TrustStatuses \cup Tiers \cup Agents

VARIABLES
  phase,       \* where the process is: down, booting, up, or refusing to start
  records,     \* _records: agent id -> AgentRecord
  file,        \* the persistence file
  thread,      \* what each worker thread is doing
  crashes,     \* crashes so far
  overlapped,  \* history: two requests were once served at the same time
  acked,       \* history: the grant last acknowledged for an agent ...
  latest       \* ... and the one last stored (both kept until overlapped)

history == <<overlapped, acked, latest>>
vars == <<phase, records, file, thread, crashes, history>>

-----------------------------------------------------------------------------
(* Records, entries of a seed or persistence file, the file's states       *)

Record(card, grant) == [card |-> card, status |-> grant.status, tier |-> grant.tier]
GrantOf(r) == Grant(r.status, r.tier)
Put(f, k, v) == [x \in DOMAIN f \cup {k} |-> IF x = k THEN v ELSE f[x]]
Empty == [x \in {} |-> None]

(* set_trust's arguments made whole: the canonical ceiling by default.     *)
GrantFor(update) ==
  Grant(update.status,
        IF update.tier = None THEN TRUST_TIER_CEILING[update.status] ELSE update.tier)

(* load_seed(): what becomes of one entry.                                 *)
LoadedStatus(e) ==
  IF e.status # None THEN e.status
  ELSE IF e.own = "unknown" THEN "registered" ELSE e.own
LoadedResettingTier(e) ==  \* fault: an explicit tier is forgotten
  Record(e.card, Grant(LoadedStatus(e), TRUST_TIER_CEILING[LoadedStatus(e)]))
Loaded(e) ==
  Record(e.card, Grant(LoadedStatus(e),
                       IF e.tier = None THEN TRUST_TIER_CEILING[LoadedStatus(e)]
                       ELSE e.tier))
LoadInto(recs, entries) ==
  [a \in DOMAIN recs \cup DOMAIN entries |->
     IF a \in DOMAIN entries THEN Loaded(entries[a]) ELSE recs[a]]

(* snapshot(): a record as an entry of the file.                           *)
EntryWithoutTier(r) ==  \* fault: the ceiling is not saved
  [card |-> r.card, own |-> r.status, status |-> r.status, tier |-> None]
Entry(r) == [card |-> r.card, own |-> r.status, status |-> r.status, tier |-> r.tier]
Snapshot(recs) == [a \in DOMAIN recs |-> Entry(recs[a])]

File(kind, entries) == [kind |-> kind, entries |-> entries]
Absent == File("absent", Empty)
Truncated == File("empty", Empty)
Torn == File("torn", Empty)
Whole(entries) == File("whole", entries)

(* What the file may hold once `entries` are written from its start.       *)
(* Another writer may have got in between, and what it wrote beyond our    *)
(* end stays behind us.                                                    *)
Overlay(entries) ==
  IF file.kind = "empty" \/ file.entries = entries THEN {Whole(entries)}
  ELSE IF file.kind = "whole"
          /\ Cardinality(DOMAIN entries) > Cardinality(DOMAIN file.entries)
       THEN {Whole(entries)}
       ELSE {Whole(entries), Torn}

-----------------------------------------------------------------------------
(* Requests.  A thread first reads, then stores, then persists, and last   *)
(* answers; a listing only iterates.                                       *)

Idle == [pc |-> "idle", op |-> None, id |-> None, held |-> None,
         todo |-> {}, size |-> 0, seen |-> Empty]
Busy == {t \in Threads : thread[t].pc # "idle"}

Become(t, value) == thread' = [thread EXCEPT ![t] = value]
Goto(t, pc) == Become(t, [thread[t] EXCEPT !.pc = pc])
Forgotten == [a \in Agents |-> None]
Accept ==
  /\ phase = "up"
  /\ overlapped' = (overlapped \/ Busy # {})
  /\ acked' = IF overlapped' THEN Forgotten ELSE acked
  /\ latest' = IF overlapped' THEN Forgotten ELSE latest

Request(op, a, held, pc) == [Idle EXCEPT !.pc = pc, !.op = op, !.id = a, !.held = held]

Init ==
  /\ phase = "down"
  /\ records = Empty
  /\ file = Absent
  /\ thread = [t \in Threads |-> Idle]
  /\ crashes = 0
  /\ acked = Forgotten
  /\ latest = Forgotten
  /\ overlapped = FALSE

(* POST /agents: 409 for a known id (no step: nothing changes), else the   *)
(* card is stored in a later step.                                         *)
Register(t, a, card) ==
  /\ thread[t] = Idle
  /\ Accept
  /\ a \notin DOMAIN records
  /\ Become(t, Request("register", a, Record(card, FreshGrant), "store"))
  /\ UNCHANGED <<phase, records, file, crashes>>

(* PUT /agents/{id}/trust: 404 for an unknown id (no step), else the       *)
(* updated record is built from the one just read.                         *)
SetTrust(t, a, update) ==
  /\ thread[t] = Idle
  /\ Accept
  /\ a \in DOMAIN records
  /\ Become(t, Request("trust", a, Record(records[a].card, GrantFor(update)), "store"))
  /\ UNCHANGED <<phase, records, file, crashes>>

(* GET /agents                                                             *)
List(t) ==
  /\ thread[t] = Idle
  /\ Accept
  /\ Become(t, [Request("list", None, None, "iterate")
                  EXCEPT !.todo = DOMAIN records, !.size = Cardinality(DOMAIN records)])
  /\ UNCHANGED <<phase, records, file, crashes>>

(* Where a mutation goes once it is stored.                                *)
AfterStoreTrustOnly(t) ==  \* fault: registrations are not persisted
  IF thread[t].op = "register" THEN "answer" ELSE "persist"
AfterStore(t) == "persist"

(* The assignment to _records[agent_id].                                   *)
Store(t) ==
  LET a == thread[t].id
      r == thread[t].held
  IN
  /\ thread[t].pc = "store"
  /\ records' = Put(records, a, r)
  /\ latest' = IF overlapped THEN latest ELSE [latest EXCEPT ![a] = GrantOf(r)]
  /\ Goto(t, AfterStore(t))
  /\ UNCHANGED <<phase, file, crashes, acked, overlapped>>

(* _persist() begins to iterate over the dict ...                          *)
BeginSnapshot(t) ==
  /\ thread[t].pc = "persist"
  /\ Become(t, [thread[t] EXCEPT !.pc = "iterate", !.todo = DOMAIN records,
                                 !.size = Cardinality(DOMAIN records)])
  /\ UNCHANGED <<phase, records, file, crashes, history>>

SizeChanged(t) == Cardinality(DOMAIN records) # thread[t].size

(* ... copies what each record holds when its turn comes ...               *)
Visit(t, a) ==
  /\ thread[t].pc = "iterate"
  /\ ~SizeChanged(t)
  /\ a \in thread[t].todo
  /\ Become(t, [thread[t] EXCEPT !.todo = @ \ {a},
                                 !.seen = Put(@, a, Entry(records[a]))])
  /\ UNCHANGED <<phase, records, file, crashes, history>>

(* ... or finds the size changed: RuntimeError, answered 500.              *)
IterationFails(t) ==
  /\ thread[t].pc = "iterate"
  /\ SizeChanged(t)
  /\ Become(t, Idle)
  /\ UNCHANGED <<phase, records, file, crashes, history>>

EndIteration(t) ==
  /\ thread[t].pc = "iterate"
  /\ ~SizeChanged(t)
  /\ thread[t].todo = {}
  /\ IF thread[t].op = "list" THEN Become(t, Idle) ELSE Goto(t, "truncate")
  /\ UNCHANGED <<phase, records, file, crashes, history>>

(* write_text(): opening truncates, closing flushes.                       *)
Truncate(t) ==
  /\ thread[t].pc = "truncate"
  /\ file' = Truncated
  /\ Goto(t, "write")
  /\ UNCHANGED <<phase, records, crashes, history>>

Write(t) ==
  /\ thread[t].pc = "write"
  /\ file' \in Overlay(thread[t].seen)
  /\ Goto(t, "answer")
  /\ UNCHANGED <<phase, records, crashes, history>>

(* register() answers what it stored; the trust handler reads the record   *)
(* again for its answer.                                                   *)
AnsweredGrant(t) ==
  IF thread[t].op = "register" THEN GrantOf(thread[t].held)
  ELSE GrantOf(records[thread[t].id])
Answer(t) ==
  /\ thread[t].pc = "answer"
  /\ acked' = IF overlapped THEN acked
              ELSE [acked EXCEPT ![thread[t].id] = AnsweredGrant(t)]
  /\ Become(t, Idle)
  /\ UNCHANGED <<phase, records, file, crashes, latest, overlapped>>

-----------------------------------------------------------------------------
(* Crash and start.  AgentStore() loads the file if there is one and       *)
(* persists; create_app() then loads the seed over it and persists again.  *)

Crash ==
  /\ phase \notin {"down", "refused"}
  /\ crashes < MaxCrashes
  /\ phase' = "down"
  /\ records' = Empty
  /\ thread' = [t \in Threads |-> Idle]
  /\ crashes' = crashes + 1
  /\ UNCHANGED <<file, history>>

Noted(h, entries) ==
  [a \in Agents |-> IF a \in DOMAIN entries /\ ~overlapped
                    THEN GrantOf(Loaded(entries[a])) ELSE h[a]]

(* AgentStore(): json.loads raises on an empty or torn file.               *)
ReadableAnyway(f) == TRUE  \* fault: an unreadable file is taken for none
Readable(f) == f.kind \in {"absent", "whole"}
Start ==
  /\ phase = "down"
  /\ IF ~Readable(file)
     THEN phase' = "refused" /\ UNCHANGED records
     ELSE /\ phase' = IF file.kind = "whole" THEN "loaded" ELSE "unseeded"
          /\ records' = LoadInto(records, file.entries)
  /\ acked' = Noted(acked, file.entries)
  /\ UNCHANGED <<file, thread, crashes, latest, overlapped>>

(* create_app(): the seed overrides what the file said.                    *)
LoadSeed ==
  /\ phase = "unseeded"
  /\ records' = LoadInto(records, Seed)
  /\ phase' = IF Seed = Empty THEN "up" ELSE "seeded"
  /\ latest' = Noted(latest, Seed)
  /\ UNCHANGED <<file, thread, crashes, acked, overlapped>>

(* The _persist() at the end of either load_seed().                        *)
BootTruncate(from, to) ==
  /\ phase = from
  /\ file' = Truncated
  /\ phase' = to
  /\ UNCHANGED <<records, thread, crashes, history>>
BootWrite(from, to) ==
  /\ phase = from
  /\ file' = Whole(Snapshot(records))
  /\ phase' = to
  /\ acked' = IF to = "up" THEN Noted(acked, Snapshot(records)) ELSE acked
  /\ UNCHANGED <<records, thread, crashes, latest, overlapped>>

Boot ==
  \/ Start
  \/ BootTruncate("loaded", "loaded_truncated")
  \/ BootWrite("loaded_truncated", "unseeded")
  \/ LoadSeed
  \/ BootTruncate("seeded", "seeded_truncated")
  \/ BootWrite("seeded_truncated", "up")

Serve(t) ==
  \/ \E a \in Agents, card \in Cards : Register(t, a, card)
  \/ \E a \in Agents, update \in Updates : SetTrust(t, a, update)
  \/ List(t)
  \/ Store(t)
  \/ BeginSnapshot(t)
  \/ \E a \in Agents : Visit(t, a)
  \/ IterationFails(t)
  \/ EndIteration(t)
  \/ Truncate(t)
  \/ Write(t)
  \/ Answer(t)

Next == Crash \/ Boot \/ \E t \in Threads : Serve(t)

Spec == Init /\ [][Next]_vars
=============================================================================
