------------------------ MODULE ProjectionSnapshots ------------------------
(***************************************************************************)
(* Snapshots of the derived order state: the store that saves and clears   *)
(* them, the resolver that starts from one and reduces the tail, and the   *)
(* two validators that compare derived state with a replay of accepted     *)
(* history.  Savers and readers run beside writers, the projection worker  *)
(* and one another.                                                        *)
(*                                                                         *)
(* A reader reads in several statements.  Behind the PostgreSQL            *)
(* observation boundary they share one REPEATABLE READ transaction; the    *)
(* generic resolver and validator own no transaction, and each statement   *)
(* then sees what is committed when it runs.                               *)
(***************************************************************************)
EXTENDS ProjectionReducer, ReadSideReceipt, SnapshotResolutionTrace

CONSTANTS
  Savers,        \* processes that call save_snapshot
  Readers,       \* processes that resolve or validate
  Orders,
  Commands,      \* the commands writers execute
  Faults,        \* what may be wrong with a snapshot that is saved
  MaxSaves, MaxFaulty,  \* bounds: calls of save_snapshot, and those with a fault
  TailLimit,     \* tail_event_limit
  NoSnapshot,    \* trusted_snapshot_id = None
  SchemaVersion, ReducerVersion  \* what this reducer supports

ASSUME SnapshotsAssumption ==
  /\ TailLimit \in Nat \ {0} /\ MaxSaves \in Nat /\ MaxFaulty \in Nat
  /\ Faults \subseteq {"none", "payload", "schema", "reducer", "version", "ahead"}
  /\ \A c \in Commands : c.order_id \in Orders /\ c.command_type \in CommandTypes
                         /\ c.amount \in Int

VARIABLES
  order_events,          \* committed rows
  projection_states,     \* committed rows
  projection_snapshots,  \* committed rows
  saving,                \* what each saver's transaction has done
  saves, faulty,         \* calls of save_snapshot so far, and those with a fault
  acknowledged,          \* snapshots whose save returned, since their order was last cleared
  trusted,               \* snapshot_ids a validation has answered MATCH for
  reading,               \* what each reader has read in its open call
  returned               \* the results the last step returned, at most one

tables  == <<order_events, projection_states, projection_snapshots>>
savers  == <<saving, saves, faulty, acknowledged>>
vars    == <<tables, savers, trusted, reading, returned>>

----------------------------------------------------------------------------
(* Writers and the projection worker, as far as readers see them.          *)

History(o, rows) == InSequenceOrder({r.event : r \in {s \in rows : s.event.order_id = o}})

\* A write transaction commits one event.
AppendEvent(c) ==
  LET a == Rehydrate(c.order_id, History(c.order_id, order_events))
      n == Cardinality(order_events) + 1
  IN  /\ IsLegal(a, c)
      /\ order_events' = order_events \cup
           {[event |-> CandidateEvent(a, c, n), global_position |-> n]}
      /\ returned' = {}
      /\ UNCHANGED <<projection_states, projection_snapshots, savers, trusted, reading>>

StateOf(o, states) == {s \in states : s.order_id = o}

load_state(o, states) == IF StateOf(o, states) = {} THEN build_empty_projection_state(o)
                         ELSE CHOOSE s \in StateOf(o, states) : TRUE

\* A worker transaction commits the next event of one order.
ProjectNext(o) ==
  LET s == load_state(o, projection_states)
  IN  /\ s.version < Len(History(o, order_events))
      /\ projection_states' = (projection_states \ {s}) \cup
           {reduce_order_event(s, History(o, order_events)[s.version + 1])}
      /\ returned' = {}
      /\ UNCHANGED <<order_events, projection_snapshots, savers, trusted, reading>>

----------------------------------------------------------------------------
(* save_snapshot and clear_snapshots.                                      *)

Replayed(o, n, rows) ==
  ReplayFrom(build_empty_projection_state(o), SubSeq(History(o, rows), 1, n))

ElsewherePosition == 100  \* positions and identities of events not in this history

\* The snapshots a saver may build: of the accepted event r, with the state
\* replayed up to it - or with one thing wrong, as a saver with another
\* reducer, another schema, a bad payload or an event of another history has.
BuiltSnapshot(v, r, fault) ==
  LET o     == r.event.order_id
      ahead == IF fault = "ahead" THEN 1 ELSE 0
      other == ahead * ElsewherePosition
      s     == Replayed(o, r.event.sequence, order_events)
      state == CASE fault = "payload" -> [s EXCEPT !.total_amount = @ + 1]
                 [] fault = "version" -> [s EXCEPT !.version = @ - 1]
                 [] fault = "ahead"   -> [s EXCEPT !.version = @ + 1, !.status = "PAID",
                                                   !.paid_amount = s.total_amount]
                 [] OTHER             -> s
  IN  [snapshot_id            |-> <<v, r.global_position, fault>>,
       order_id               |-> o,
       source_event_id        |-> r.event.event_id + other,
       source_event_sequence  |-> r.event.sequence + ahead,
       source_global_position |-> r.global_position + other,
       state                  |-> state,
       snapshot_schema_version |-> SchemaVersion + (IF fault = "schema" THEN 1 ELSE 0),
       reducer_version        |-> ReducerVersion + (IF fault = "reducer" THEN 1 ELSE 0),
       payload_hash           |-> state]

\* The primary key and the three unique constraints of the table.
Conflicts(s, t) ==
  \/ s.snapshot_id = t.snapshot_id
  \/ s.source_event_id = t.source_event_id
  \/ s.source_global_position = t.source_global_position
  \/ s.order_id = t.order_id /\ s.source_event_sequence = t.source_event_sequence

Idle == [step |-> "idle", snapshot |-> {}]

\* Rows of other open transactions; a conflicting INSERT waits for them.
Uncommitted(v) == UNION {saving[w].snapshot : w \in {x \in Savers \ {v} : saving[x].step = "inserted"}}

\* _insert_snapshot: INSERT ... ON CONFLICT DO NOTHING.
InsertSnapshot(v, s) ==
  /\ saving[v].step = "idle"
  /\ \A t \in Uncommitted(v) : ~Conflicts(s, t)
  /\ saving' = [saving EXCEPT ![v] =
       [step |-> IF \E t \in projection_snapshots : Conflicts(s, t) THEN "conflicted"
                 ELSE "inserted", snapshot |-> {s}]]
  /\ returned' = {}
  /\ UNCHANGED <<tables, acknowledged, trusted, reading>>

\* The caller commits the insert: save_snapshot has returned.
CommitSnapshot(v) ==
  /\ saving[v].step = "inserted"
  /\ projection_snapshots' = projection_snapshots \cup saving[v].snapshot
  /\ acknowledged' = acknowledged \cup saving[v].snapshot
  /\ saving' = [saving EXCEPT ![v] = Idle]
  /\ returned' = {}
  /\ UNCHANGED <<order_events, projection_states, saves, faulty, trusted, reading>>

\* The caller's transaction dies and takes the insert with it.
RollbackSnapshot(v) ==
  /\ saving[v].step = "inserted"
  /\ saving' = [saving EXCEPT ![v] = Idle]
  /\ returned' = {}
  /\ UNCHANGED <<tables, saves, faulty, acknowledged, trusted, reading>>

\* _load_existing_source_boundary_snapshots
SourceBoundaryRows(s) ==
  {t \in projection_snapshots :
     \/ t.source_event_id = s.source_event_id
     \/ t.source_global_position = s.source_global_position
     \/ t.order_id = s.order_id /\ t.source_event_sequence = s.source_event_sequence}

same_source_boundary(t, s) ==
  /\ t.order_id = s.order_id
  /\ t.source_event_id = s.source_event_id
  /\ t.source_event_sequence = s.source_event_sequence
  /\ t.source_global_position = s.source_global_position

\* A mistake: the same boundary is taken for the same evidence.
SameBoundaryIsSameEvidence(t, s) == same_source_boundary(t, s)

same_snapshot_evidence(t, s) ==
  /\ same_source_boundary(t, s)
  /\ t.snapshot_schema_version = s.snapshot_schema_version
  /\ t.reducer_version = s.reducer_version
  /\ t.payload_hash = s.payload_hash

\* The second statement of a save that did not insert: it returns when every
\* row at the boundary is the same evidence and raises
\* SnapshotWriteCollisionError otherwise, also when the rows are gone.
CompareSnapshot(v) ==
  LET s        == CHOOSE t \in saving[v].snapshot : TRUE
      existing == SourceBoundaryRows(s)
  IN  /\ saving[v].step = "conflicted"
      /\ \/ /\ existing # {} /\ \A t \in existing : same_snapshot_evidence(t, s)
            /\ acknowledged' = acknowledged \cup {s}
         \/ /\ ~(existing # {} /\ \A t \in existing : same_snapshot_evidence(t, s))
            /\ UNCHANGED acknowledged
      /\ saving' = [saving EXCEPT ![v] = Idle]
      /\ returned' = {}
      /\ UNCHANGED <<tables, saves, faulty, trusted, reading>>

clear_snapshots(o) ==
  /\ \E s \in projection_snapshots : s.order_id = o
  /\ projection_snapshots' = {s \in projection_snapshots : s.order_id # o}
  /\ acknowledged' = {s \in acknowledged : s.order_id # o}
  /\ returned' = {}
  /\ UNCHANGED <<order_events, projection_states, saving, saves, faulty, trusted, reading>>

----------------------------------------------------------------------------
(* What a reader's statements return.                                      *)

NoTables == [events |-> {}, states |-> {}]
Tables   == [events |-> order_events, states |-> projection_states]

\* A mistake: READ COMMITTED, a new snapshot per statement.
SeenPerStatement(k) == Tables

\* _set_consistent_read_transaction: what a later statement of the call sees.
Seen(k) == IF reading[k].call.isolation = "REPEATABLE READ" THEN reading[k].view ELSE Tables

load_snapshot(id, rows) == {s \in rows : s.snapshot_id = id}

\* ORDER BY source_event_sequence DESC LIMIT 1
load_latest_snapshot(o, rows) ==
  {s \in rows : s.order_id = o /\ \A t \in rows :
                  t.order_id = o => t.source_event_sequence <= s.source_event_sequence}

\* load_after_sequence: one page of the tail, by order-local sequence.
load_after_sequence(o, n, rows) ==
  LET rest == InSequenceOrder({r.event : r \in {s \in rows :
                                 s.event.order_id = o /\ s.event.sequence > n}})
  IN  SubSeq(rest, 1, IF Len(rest) < TailLimit THEN Len(rest) ELSE TailLimit)

----------------------------------------------------------------------------
(* The checks readers make on what they have read.                         *)

\* _hydrate_snapshot_state
Hydrated(s) == s.state

\* The conditions _validate_snapshot_boundary and
\* _validate_snapshot_compatibility share.
UsableBase(s, o) ==
  /\ s.order_id = o
  /\ s.source_global_position > 0 /\ s.source_event_sequence > 0
  /\ s.state.version = s.source_event_sequence
  /\ s.state.status \in {"CREATED", "PAID"}

\* _validate_snapshot_compatibility: resolver only.
SnapshotCompatible(s, o) ==
  /\ UsableBase(s, o)
  /\ s.snapshot_schema_version = SchemaVersion
  /\ s.reducer_version = ReducerVersion

\* _validate_snapshot_boundary: validator only.
SnapshotBoundaryValid(s, o, max) == UsableBase(s, o) /\ s.source_event_sequence <= max

\* The check _load_all_tail_records makes on each record of a page.
Contiguous(o, n, page) ==
  \A i \in 1..Len(page) : page[i].order_id = o /\ page[i].sequence = n + i

\* A mistake: only versions are compared.
SameVersion(s, t) == s.version = t.version

\* The comparison of validate_order.
SameState(s, t) == s = t

Only(S) == CHOOSE s \in S : TRUE

\* _replay_authority_state
AuthorityState(c, events) == ReplayFrom(build_empty_projection_state(c.order_id), events)

----------------------------------------------------------------------------
(* resolve_order and the two validate_order, one action per statement.     *)

NoCall == [op |-> "none", order_id |-> NoSnapshot, trusted |-> NoSnapshot,
           isolation |-> "READ COMMITTED"]

\* A reader between its calls, and what it keeps during one: the statement
\* that is next, the arguments, whether the snapshot it was called with had
\* been matched by then, the transaction's snapshot of the tables and the rows
\* it has read.
NotReading == [pc |-> "idle", call |-> NoCall, vouched |-> FALSE, view |-> NoTables,
               found |-> {}, authority |-> <<>>, tail |-> <<>>]

\* The statement is done and another one follows.
Continue(k, r) ==
  /\ reading' = [reading EXCEPT ![k] = r]
  /\ returned' = {}
  /\ UNCHANGED trusted

\* The call returns; its transaction, if it has one, ends.
Return(k, r, status, state, auth) ==
  LET c       == r.call
      lineage == IF status \in {"INVALID_SNAPSHOT_PRECONDITION", "MISSING_SNAPSHOT"}
                 THEN {} ELSE r.found
  IN  /\ reading' = [reading EXCEPT ![k] = NotReading]
      /\ returned' = {[op |-> c.op, order_id |-> c.order_id, status |-> status,
                       state |-> state, authority |-> auth,
                       snapshot_id |-> IF c.op = "resolve" /\ status = "MISSING_SNAPSHOT"
                                       THEN {c.trusted} ELSE {s.snapshot_id : s \in lineage},
                       position |-> {s.source_global_position : s \in lineage},
                       read |-> r]}
      /\ trusted' = IF c.op = "validate" /\ status = "MATCH"
                    THEN trusted \cup {s.snapshot_id : s \in lineage} ELSE trusted

\* The call begins: the first statement fixes what a REPEATABLE READ
\* transaction sees.
Began(c) == [NotReading EXCEPT !.call = c, !.vouched = c.trusted \in trusted,
               !.view = IF c.isolation = "REPEATABLE READ" THEN Tables ELSE NoTables]

\* resolve_order up to the load of the snapshot its caller trusts.
BeginResolve(k, c) ==
  LET row == load_snapshot(c.trusted, projection_snapshots)
      r   == [Began(c) EXCEPT !.pc = "tail", !.found = row]
  IN  /\ reading[k].pc = "idle" /\ c.op = "resolve"
      /\ \/ /\ c.trusted = NoSnapshot
            /\ Return(k, r, "INVALID_SNAPSHOT_PRECONDITION", {}, {})
         \/ /\ c.trusted # NoSnapshot /\ row = {}
            /\ Return(k, r, "MISSING_SNAPSHOT", {}, {})
         \/ /\ row # {} /\ ~SnapshotCompatible(Only(row), c.order_id)
            /\ Return(k, r, "INVALID_SNAPSHOT_COMPATIBILITY", {}, {})
         \/ /\ row # {} /\ SnapshotCompatible(Only(row), c.order_id)
            /\ Continue(k, r)
      /\ UNCHANGED <<tables, savers>>

\* The snapshot validator's first statement.
BeginValidate(k, c) ==
  /\ reading[k].pc = "idle" /\ c.op = "validate"
  /\ Continue(k, [Began(c) EXCEPT !.pc = "history",
                    !.found = load_latest_snapshot(c.order_id, projection_snapshots)])
  /\ UNCHANGED <<tables, savers>>

\* The replay validator's first statement; it always owns its transaction.
BeginReplay(k, c) ==
  /\ reading[k].pc = "idle" /\ c.op = "replay" /\ c.isolation = "REPEATABLE READ"
  /\ Continue(k, [Began(c) EXCEPT !.pc = "state", !.authority = History(c.order_id, order_events)])
  /\ UNCHANGED <<tables, savers>>

\* The snapshot validator's second: the accepted history of the order.
LoadHistory(k) ==
  LET c      == reading[k].call
      events == History(c.order_id, Seen(k).events)
      row    == reading[k].found
      auth   == {AuthorityState(c, events)}
      r      == [reading[k] EXCEPT !.pc = "tail", !.authority = events]
      valid  == SnapshotBoundaryValid(Only(row), c.order_id, Len(events))
  IN  /\ reading[k].pc = "history"
      /\ \/ events = <<>> /\ Return(k, r, "NO_ACCEPTED_HISTORY_FOR_ORDER", {}, {})
         \/ events # <<>> /\ row = {} /\ Return(k, r, "MISSING_SNAPSHOT", {}, auth)
         \/ events # <<>> /\ row # {} /\ ~valid /\ Return(k, r, "INVALID_SNAPSHOT_BOUNDARY", {}, auth)
         \/ events # <<>> /\ row # {} /\ valid /\ Continue(k, r)
      /\ UNCHANGED <<tables, savers>>

\* The whole tail is loaded: reduce it over the snapshot.
Reduced(k, r) ==
  LET base  == Hydrated(Only(r.found))
      state == ReplayFrom(base, r.tail)
      whole == Replays(base, r.tail)
      auth  == AuthorityState(r.call, r.authority)
  IN  \/ /\ r.call.op = "resolve" /\ whole
         /\ Return(k, r, "RESOLVED_FROM_SNAPSHOT", {state}, {})
      \/ /\ r.call.op = "resolve" /\ ~whole
         /\ Return(k, r, "TAIL_REPLAY_FAILED", {}, {})
      \/ /\ r.call.op = "validate" /\ whole /\ SameState(state, auth)
         /\ Return(k, r, "MATCH", {state}, {auth})
      \/ /\ r.call.op = "validate" /\ ~(whole /\ SameState(state, auth))
         /\ Return(k, r, "SNAPSHOT_ASSISTED_DRIFT", {state}, {auth})

\* A page that is not contiguous ends the call before anything is reduced.
BrokenTail(k, r) ==
  LET validating == r.call.op = "validate"
  IN  Return(k, r, "TAIL_EVENT_SOURCE_CONTRACT_VIOLATION",
             {Hydrated(s) : s \in {t \in r.found : validating}},
             {AuthorityState(r.call, e) : e \in {f \in {r.authority} : validating}})

\* One page of _load_all_tail_records, an empty one ending the loop.
LoadTailPage(k) ==
  LET r    == reading[k]
      n    == Only(r.found).source_event_sequence + Len(r.tail)
      page == load_after_sequence(r.call.order_id, n, Seen(k).events)
  IN  /\ r.pc = "tail"
      /\ IF ~Contiguous(r.call.order_id, n, page) THEN BrokenTail(k, r)
         ELSE \/ page # <<>> /\ Continue(k, [r EXCEPT !.tail = @ \o page])
              \/ page = <<>> /\ Reduced(k, r)
      /\ UNCHANGED <<tables, savers>>

\* DurableReplayValidator: the persisted state and the comparison.
LoadState(k) ==
  LET r         == reading[k]
      persisted == StateOf(r.call.order_id, Seen(k).states)
      expected  == {AuthorityState(r.call, r.authority)}
  IN  /\ r.pc = "state"
      /\ \/ r.authority = <<>> /\ Return(k, r, "NO_ACCEPTED_HISTORY", persisted, {})
         \/ r.authority # <<>> /\ persisted = {} /\ Return(k, r, "MISSING_PROJECTION", {}, expected)
         \/ r.authority # <<>> /\ persisted \notin {{}, expected}
            /\ Return(k, r, "DRIFT", persisted, expected)
         \/ r.authority # <<>> /\ persisted = expected /\ Return(k, r, "MATCH", persisted, expected)
      /\ UNCHANGED <<tables, savers>>

----------------------------------------------------------------------------
Init ==
  /\ order_events = {} /\ projection_states = {} /\ projection_snapshots = {}
  /\ saving = [v \in Savers |-> Idle] /\ saves = 0 /\ faulty = 0
  /\ acknowledged = {} /\ trusted = {}
  /\ reading = [k \in Readers |-> NotReading]
  /\ returned = {}

\* The arguments a reader may be called with: any snapshot_id it can know of.
Calls ==
  [op : {"validate", "replay"}, order_id : Orders, trusted : {NoSnapshot},
   isolation : {"READ COMMITTED", "REPEATABLE READ"}]
  \cup
  [op : {"resolve"}, order_id : Orders,
   trusted : {NoSnapshot} \cup trusted \cup {s.snapshot_id : s \in projection_snapshots},
   isolation : {"READ COMMITTED", "REPEATABLE READ"}]

Next ==
  \/ \E c \in Commands : AppendEvent(c)
  \/ \E o \in Orders : ProjectNext(o) \/ clear_snapshots(o)
  \/ \E v \in Savers :
       \/ \E r \in order_events, f \in Faults :
            /\ f = "ahead" => r.event.sequence = 1
            /\ saves < MaxSaves /\ saves' = saves + 1
            /\ \/ f = "none" /\ UNCHANGED faulty
               \/ f # "none" /\ faulty < MaxFaulty /\ faulty' = faulty + 1
            /\ InsertSnapshot(v, BuiltSnapshot(v, r, f))
       \/ CommitSnapshot(v) \/ RollbackSnapshot(v) \/ CompareSnapshot(v)
  \/ \E k \in Readers :
       \/ \E c \in Calls : BeginResolve(k, c) \/ BeginValidate(k, c) \/ BeginReplay(k, c)
       \/ LoadHistory(k) \/ LoadTailPage(k) \/ LoadState(k)

Spec == Init /\ [][Next]_vars

----------------------------------------------------------------------------
(* Properties.                                                             *)

\* A snapshot that a validation matched can be trusted for good: whenever a
\* resolution begins after that - after more events, from any isolation level -
\* the result is the replay of accepted history, whole as of the moment the
\* reader saw when it reads in one transaction.
TrustedResolutionIsReplay ==
  \A r \in returned :
    r.status = "RESOLVED_FROM_SNAPSHOT" /\ r.read.vouched =>
      \A s \in r.state :
        /\ s = Replayed(r.order_id, s.version, order_events)
        /\ r.read.call.isolation = "REPEATABLE READ" =>
             s.version = Len(History(r.order_id, r.read.view.events))

\* The snapshot is what a replay of these rows up to its boundary leaves.
Sound(s, rows) ==
  /\ s.source_event_sequence <= Len(History(s.order_id, rows))
  /\ s.state = Replayed(s.order_id, s.source_event_sequence, rows)

\* Verdicts of the observation boundary are about one state of the database:
\* drift or a bad boundary is never reported of a snapshot that is sound in
\* the history the reader's transaction saw, however writers move between the
\* reads, a match never of one that is not, and a drifting projection is
\* behind the history it was compared with, never ahead of it.
ObservedVerdictsAreReal ==
  \A r \in returned :
    r.read.call.isolation = "REPEATABLE READ" =>
      /\ r.status \in {"SNAPSHOT_ASSISTED_DRIFT", "INVALID_SNAPSHOT_BOUNDARY"} =>
           \A s \in r.read.found : ~Sound(s, r.read.view.events)
      /\ r.status = "MATCH" => \A s \in r.read.found : Sound(s, r.read.view.events)
      /\ r.status = "DRIFT" =>
           \A s \in r.state : s = Replayed(r.order_id, s.version, order_events)
                               /\ s.version < Len(r.read.authority)

\* A save that returned left its evidence behind, its own row or another
\* saver's equal one, until the snapshots of the order are cleared - also
\* when a rival's insert, a rollback or a clear falls between the INSERT and
\* the comparison.
SavedEvidenceStays ==
  \A s \in acknowledged : \E t \in projection_snapshots :
    same_source_boundary(t, s) /\ t.state = s.state
    /\ t.reducer_version = s.reducer_version
    /\ t.snapshot_schema_version = s.snapshot_schema_version

\* The trace of what a resolution did.
TraceOf(r) ==
  LET snapshot == IF r.status \in {"TAIL_REPLAY_FAILED", "RESOLVED_FROM_SNAPSHOT",
                                   "TAIL_EVENT_SOURCE_CONTRACT_VIOLATION"}
                  THEN r.read.found ELSE {}
      rest     == r.read.tail
      reduced  == IF snapshot = {} THEN 0
                  ELSE Len(ReplayStates(Hydrated(Only(snapshot)), rest)) - 1
  IN  [stage |-> CASE r.status = "INVALID_SNAPSHOT_PRECONDITION" -> "SNAPSHOT_PRECONDITION"
                   [] r.status = "MISSING_SNAPSHOT" -> "SNAPSHOT_LOOKUP"
                   [] r.status = "INVALID_SNAPSHOT_COMPATIBILITY" -> "SNAPSHOT_COMPATIBILITY"
                   [] r.status = "TAIL_EVENT_SOURCE_CONTRACT_VIOLATION" -> "TAIL_SOURCE"
                   [] r.status = "TAIL_REPLAY_FAILED" -> "TAIL_REPLAY"
                   [] OTHER -> "COMPLETED",
       base      |-> {s.source_event_sequence : s \in snapshot},
       validated |-> IF rest = <<>> THEN {} ELSE {rest[Len(rest)].sequence},
       replayed  |-> IF reduced = 0 THEN {} ELSE {rest[reduced].sequence},
       expected  |-> IF r.status = "TAIL_EVENT_SOURCE_CONTRACT_VIOLATION"
                     THEN {s.source_event_sequence + Len(rest) + 1 : s \in snapshot} ELSE {},
       observed  |-> IF r.status = "TAIL_REPLAY_FAILED" THEN {rest[reduced + 1]} ELSE {}]

\* Everything a reader can return is reportable: it has its decision receipt,
\* for no shape check of the mapper refuses what the producers produce; a
\* receipt that is ok carries a state, one with snapshot lineage names a row
\* that was loaded; and the trace of every resolution is one the trace
\* contract constructs.
EveryResultIsReportable ==
  \A r \in returned :
    /\ \E d \in MappedReadSideReceipts(r) :
         /\ d.outcome.ok => r.state # {}
         /\ d.correlation.identity_source = "SNAPSHOT_LINEAGE" =>
              d.correlation.snapshot_id = {s.snapshot_id : s \in r.read.found} /\ r.read.found # {}
         /\ d.subject.type = "SNAPSHOT" => d.subject.id \subseteq d.correlation.snapshot_id
    /\ r.op = "resolve" => ExecutionConstructs(r.status, TraceOf(r))
=============================================================================
