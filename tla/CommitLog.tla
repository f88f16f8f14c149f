------------------------------ MODULE CommitLog ------------------------------
(***************************************************************************)
(* The write and read path of the runtime core (crates/tqsdk-core/src):    *)
(* writers apply mutations to the partitioned state store under the commit *)
(* gate (runtime/handle.rs, runtime/commit_engine.rs, state/store.rs) and  *)
(* publish each commit, with an immutable snapshot of the same revision,   *)
(* to a log bounded in entries and in bytes (runtime/commit_log.rs).       *)
(* Readers follow the log through cursors (runtime/reader.rs).             *)
(*                                                                         *)
(* A mutation is the set of partitions it touches; the content of a        *)
(* partition is the revision that last changed it.  A partition's root is  *)
(* an Arc, replaced (copy on write) when it is written while a snapshot    *)
(* shares it; the log accounts its bytes under the Arc's address.          *)
(***************************************************************************)
EXTENDS Integers, FiniteSets, FiniteSetsExt, Functions, Sequences

CONSTANTS
    Writers,       \* threads that call ingest and record_*
    Readers,       \* consumers, each with at most one cursor
    Partitions,    \* the roots of the state store
    Addresses,     \* bound: addresses an allocation may be given
    CommitSizes,   \* accounted bytes of a commit's payload
    RootSizes,     \* accounted bytes of a partition's root
    MaxEntries,    \* CommitLogRetention::max_entries
    MaxBytes,      \* CommitLogRetention::max_retained_bytes
    MaxRevision,   \* bound: revisions the writers produce
    MaxCursors,    \* bound: cursors ever created
    NoWriter       \* nobody holds the commit gate

\* CommitLogRetention::new raises both limits to at least one.
ASSUME RetentionAssumption ==
    /\ MaxEntries \in Nat \ {0}
    /\ MaxBytes \in Nat \ {0}

ASSUME SizesAssumption ==
    /\ CommitSizes \subseteq Nat \ {0}
    /\ RootSizes \subseteq Nat \ {0}
    /\ MaxRevision \in Nat
    /\ MaxCursors \in Nat
    /\ NoWriter \notin Writers

\* The store has a fixed number of partitions, each with a root of its own.
ASSUME StoreAssumption ==
    /\ IsFiniteSet(Partitions)
    /\ Injection(Partitions, Addresses) # {}

VARIABLES
    \* StateStore
    revision,        \* the revision of the live state
    roots,           \* the current root of each partition
    touched,         \* which partitions each revision changed (history)
    \* RuntimeHandle
    gate,            \* who holds commit_gate
    work,            \* where each writer stands
    \* CommitLogInner, under its RwLock
    locked,          \* a writer holds the log's write lock
    head,            \* 0 while the log has no head
    first,           \* first_retained_revision, 0 when there is none
    entries,         \* retained commits, oldest first
    retainedRoots,   \* address |-> references and bytes of a snapshot root
    retainedBytes,
    nextCursorId,
    positions,       \* cursor_positions: cursor id |-> tracked revision
    \* the consumers
    cursor           \* UpdateCursor of each reader and where the reader stands

stateVars == <<revision, roots, touched>>
writerVars == <<gate, work>>
bufferVars == <<head, first, entries, retainedRoots, retainedBytes>>
cursorVars == <<nextCursorId, positions, cursor>>
vars == <<stateVars, writerVars, locked, bufferVars, cursorVars>>

-----------------------------------------------------------------------------
(* Types *)

Root == [address : Addresses, bytes : Nat, changed : Nat]
Snapshot == [revision : Nat, roots : [Partitions -> Root]]
Entry == [revision : Nat, bytes : Nat, snapshot : Snapshot]
Work == [at : {"idle", "applied", "pushing"}, revision : Nat, bytes : Nat]
Cursor == [at : {"none", "anchored", "ready", "fetched", "lagged", "resync"},
           id : Nat, next : Nat, fetched : Nat]

Idle == [at |-> "idle", revision |-> 0, bytes |-> 0]
NoCursor == [at |-> "none", id |-> 0, next |-> 0, fetched |-> 0]

\* Distinct addresses for newly allocated roots.  Addresses are only compared,
\* so which of the free ones are taken makes no difference.
NewAddresses(ps, free) == CHOOSE f \in Injection(ps, free) : TRUE

Init ==
    /\ revision = 0
    /\ \E size \in RootSizes :
          roots = [p \in Partitions |-> 
             [address |-> NewAddresses(Partitions, Addresses)[p],
              bytes |-> size, changed |-> 0]]
    /\ touched = << >>
    /\ gate = NoWriter
    /\ work = [w \in Writers |-> Idle]
    /\ locked = FALSE
    /\ head = 0
    /\ first = 0
    /\ entries = << >>
    /\ retainedRoots = [a \in {} |-> 0]
    /\ retainedBytes = 0
    /\ nextCursorId = 1
    /\ positions = [i \in {} |-> 0]
    /\ cursor = [r \in Readers |-> NoCursor]

-----------------------------------------------------------------------------
(* The writers *)

\* Addresses no live allocation has: neither a current root's nor one of a
\* root that a retained snapshot keeps alive.
FreeAddresses ==
    Addresses \ ({roots[p].address : p \in Partitions} \cup DOMAIN retainedRoots)

\* The allocator finds room, as it always does in the program.
CanAllocate(ps) == Injection(ps, FreeAddresses) # {}

\* Arc::make_mut on every written partition: a root of its own.
Rewritten(ps, bytes, changed) ==
    LET address == NewAddresses(ps, FreeAddresses)
    IN  [p \in Partitions |->
            IF p \in ps
            THEN [address |-> address[p], bytes |-> bytes[p], changed |-> changed[p]]
            ELSE roots[p]]

\* A bug: a writer does not wait for the commit gate.
GateIgnored(w) == work[w].at = "idle"

GateFree(w) ==
    /\ gate = NoWriter
    /\ work[w].at = "idle"

\* A bug: the gate is released as soon as the state has changed.
ApplyReleasing(w, ps, size, bytes) ==
    /\ GateFree(w) /\ CanAllocate(ps)
    /\ revision < MaxRevision
    /\ revision' = revision + 1
    /\ roots' = Rewritten(ps, [p \in ps |-> size], [p \in ps |-> revision + 1])
    /\ touched' = Append(touched, ps)
    /\ work' = [work EXCEPT ![w] = [at |-> "applied", revision |-> revision + 1,
                                    bytes |-> bytes]]
    /\ UNCHANGED <<gate, locked, bufferVars, cursorVars>>

\* ingest, ingest_batch and record_* up to the state change: under the gate,
\* the partitions the mutations touch are locked and written, and the revision
\* is stored before any of them is released.
Apply(w, ps, size, bytes) ==
    /\ GateFree(w) /\ CanAllocate(ps)
    /\ revision < MaxRevision
    /\ revision' = revision + 1
    /\ roots' = Rewritten(ps, [p \in ps |-> size], [p \in ps |-> revision + 1])
    /\ touched' = Append(touched, ps)
    /\ gate' = w
    /\ work' = [work EXCEPT ![w] = [at |-> "applied", revision |-> revision + 1,
                                    bytes |-> bytes]]
    /\ UNCHANGED <<locked, bufferVars, cursorVars>>

\* The same call when no field changes its value: there is no commit, but the
\* written partitions have been copied all the same.
ApplyWithoutChange(w, ps) ==
    /\ GateFree(w) /\ CanAllocate(ps)
    /\ roots' = Rewritten(ps, [p \in ps |-> roots[p].bytes],
                             [p \in ps |-> roots[p].changed])
    /\ UNCHANGED <<revision, touched, writerVars, locked, bufferVars, cursorVars>>

SaturatingSub(a, b) == IF a < b THEN 0 ELSE a - b

AddressesOf(snapshot) == {snapshot.roots[p].address : p \in Partitions}

\* The accounting of a pushed snapshot: a root another retained snapshot
\* shares gains a reference, a new one brings its bytes.
NewRoots(snapshot) ==
    {p \in Partitions : snapshot.roots[p].address \notin DOMAIN retainedRoots}

RootsWith(snapshot) ==
    [a \in DOMAIN retainedRoots \cup AddressesOf(snapshot) |->
        IF a \in DOMAIN retainedRoots
        THEN [references |-> retainedRoots[a].references
                                + (IF a \in AddressesOf(snapshot) THEN 1 ELSE 0),
              bytes |-> retainedRoots[a].bytes]
        ELSE LET p == CHOOSE p \in NewRoots(snapshot) :
                            snapshot.roots[p].address = a
             IN  [references |-> 1, bytes |-> snapshot.roots[p].bytes]]

BytesWith(snapshot, bytes) ==
    retainedBytes + bytes
        + SumFunctionOnSet([p \in Partitions |-> snapshot.roots[p].bytes],
                           NewRoots(snapshot))

\* publish and CommitLogInner::push, up to the call of trim: the snapshot is
\* taken from the live state, and the log's write lock is held from here on.
Push(w) ==
    LET snapshot == [revision |-> revision, roots |-> roots]
    IN  /\ work[w].at = "applied"
        /\ ~locked
        /\ locked' = TRUE
        /\ work' = [work EXCEPT ![w] = [@ EXCEPT !.at = "pushing"]]
        /\ head' = work[w].revision
        /\ first' = IF entries = << >> THEN work[w].revision ELSE first
        /\ entries' = Append(entries, [revision |-> work[w].revision,
                                       bytes |-> work[w].bytes,
                                       snapshot |-> snapshot])
        /\ retainedRoots' = RootsWith(snapshot)
        /\ retainedBytes' = BytesWith(snapshot, work[w].bytes)
        /\ UNCHANGED <<stateVars, gate, cursorVars>>

OverLimit ==
    \/ Len(entries) > MaxEntries
    \/ retainedBytes > MaxBytes

\* A bug: the roots of a released entry are subtracted although other
\* retained snapshots still share them.
UnreferencedEagerly(e) == AddressesOf(e.snapshot) \cap DOMAIN retainedRoots

\* The roots of a released entry that no retained snapshot shares any more.
Unreferenced(e) ==
    {a \in AddressesOf(e.snapshot) \cap DOMAIN retainedRoots :
        retainedRoots[a].references = 1}

\* What each snapshot root and each entry weighs.
RootBytes == [a \in DOMAIN retainedRoots |-> retainedRoots[a].bytes]
EntryBytes == [i \in DOMAIN entries |-> entries[i].bytes]

\* One round of trim's loop: pop_front and release_entry.
TrimFront(w) ==
    LET gone == Unreferenced(Head(entries))
    IN  /\ work[w].at = "pushing"
        /\ OverLimit
        /\ entries # << >>
        /\ entries' = Tail(entries)
        /\ retainedRoots' =
              [a \in DOMAIN retainedRoots \ gone |->
                  IF a \in AddressesOf(Head(entries).snapshot)
                  THEN [retainedRoots[a] EXCEPT !.references = @ - 1]
                  ELSE retainedRoots[a]]
        /\ retainedBytes' =
              SaturatingSub(retainedBytes,
                  Head(entries).bytes + SumFunctionOnSet(RootBytes, gone))
        /\ UNCHANGED <<stateVars, writerVars, locked, head, first, cursorVars>>

\* A bug: the first retained revision is not brought up to date.
EndPushStaleFirst(w) ==
    /\ work[w].at = "pushing"
    /\ ~OverLimit \/ entries = << >>
    /\ locked' = FALSE
    /\ gate' = NoWriter
    /\ work' = [work EXCEPT ![w] = Idle]
    /\ UNCHANGED <<stateVars, bufferVars, cursorVars>>

\* The loop ends: the first retained revision is set, the log is unlocked and
\* the gate released.
EndPush(w) ==
    /\ work[w].at = "pushing"
    /\ ~OverLimit \/ entries = << >>
    /\ first' = IF entries = << >> THEN 0 ELSE Head(entries).revision
    /\ locked' = FALSE
    /\ gate' = NoWriter
    /\ work' = [work EXCEPT ![w] = Idle]
    /\ UNCHANGED <<stateVars, head, entries, retainedRoots, retainedBytes, cursorVars>>

-----------------------------------------------------------------------------
(* The readers *)

\* CommitLogInner::entry_at: the entry is found by its distance from the first
\* retained revision, and must carry the revision asked for.
Found(rev) ==
    /\ first # 0
    /\ rev >= first
    /\ rev - first + 1 \in DOMAIN entries
    /\ entries[rev - first + 1].revision = rev

\* CommitLogInner::next and view_at: a revision at or below the head that is
\* not retained is reported as lag; one above it is not there yet.
Lagged(rev) == ~Found(rev) /\ head # 0 /\ rev <= head

\* CommitLogLagged::oldest_available_revision
OldestAvailable == IF first = 0 THEN head + 1 ELSE first

Holders(id) == {r \in Readers : cursor[r].id = id}

\* CommitLogCursorTracker::update
Tracked(id, next) ==
    IF id \in DOMAIN positions /\ next >= positions[id]
    THEN [positions EXCEPT ![id] = next]
    ELSE positions

\* RuntimeReader::cursor, first half: the head is read and the lock released.
Anchor(r) ==
    /\ ~locked
    /\ cursor[r].at = "none"
    /\ nextCursorId <= MaxCursors
    /\ cursor' = [cursor EXCEPT ![r] = [NoCursor EXCEPT !.at = "anchored",
                                                        !.next = head + 1]]
    /\ UNCHANGED <<stateVars, writerVars, locked, bufferVars, nextCursorId, positions>>

\* CommitLog::new_cursor: the cursor is registered at that revision.
NewCursor(r) ==
    /\ ~locked
    /\ cursor[r].at = "anchored"
    /\ nextCursorId' = nextCursorId + 1
    /\ positions' = [i \in DOMAIN positions \cup {nextCursorId} |->
                        IF i = nextCursorId THEN cursor[r].next ELSE positions[i]]
    /\ cursor' = [cursor EXCEPT ![r] = [cursor[r] EXCEPT !.at = "ready",
                                                         !.id = nextCursorId]]
    /\ UNCHANGED <<stateVars, writerVars, locked, bufferVars>>

\* cursor_from: a cursor at a revision the caller names.
CursorFrom(r, n) ==
    /\ cursor[r].at = "none"
    /\ nextCursorId <= MaxCursors
    /\ cursor' = [cursor EXCEPT ![r] = [NoCursor EXCEPT !.at = "anchored", !.next = n]]
    /\ UNCHANGED <<stateVars, writerVars, locked, bufferVars, nextCursorId, positions>>

\* UpdateCursor::clone: the copy has the same id and shares the tracker.
CloneCursor(r, s) ==
    /\ cursor[r].at = "ready"
    /\ cursor[s].at = "none"
    /\ cursor' = [cursor EXCEPT ![s] = cursor[r]]
    /\ UNCHANGED <<stateVars, writerVars, locked, bufferVars, nextCursorId, positions>>

\* The cursor is dropped; the last copy takes its tracker with it.
DropCursor(r) ==
    /\ ~locked
    /\ cursor[r].at = "ready"
    /\ positions' = IF Holders(cursor[r].id) = {r}
                    THEN [i \in DOMAIN positions \ {cursor[r].id} |-> positions[i]]
                    ELSE positions
    /\ cursor' = [cursor EXCEPT ![r] = NoCursor]
    /\ UNCHANGED <<stateVars, writerVars, locked, bufferVars, nextCursorId>>

\* next_checked and next_view, the lookup under the read lock.
Fetch(r) ==
    /\ ~locked
    /\ cursor[r].at \in {"ready", "lagged"}
    /\ Found(cursor[r].next)
    /\ cursor' = [cursor EXCEPT ![r] =
                     [cursor[r] EXCEPT !.at = "fetched",
                          !.fetched = entries[cursor[r].next - first + 1].revision]]
    /\ UNCHANGED <<stateVars, writerVars, locked, bufferVars, nextCursorId, positions>>

\* next_checked and next_view, lag: the caller is told, the cursor stays.
ReportLag(r) ==
    /\ ~locked
    /\ cursor[r].at = "ready"
    /\ Lagged(cursor[r].next)
    /\ cursor' = [cursor EXCEPT ![r] = [cursor[r] EXCEPT !.at = "lagged"]]
    /\ UNCHANGED <<stateVars, writerVars, locked, bufferVars, nextCursorId, positions>>

\* next, lag: the compatibility surface goes on to resynchronise by itself.
FetchCompat(r) ==
    /\ ~locked
    /\ cursor[r].at = "ready"
    /\ Lagged(cursor[r].next)
    /\ cursor' = [cursor EXCEPT ![r] = [cursor[r] EXCEPT !.at = "resync"]]
    /\ UNCHANGED <<stateVars, writerVars, locked, bufferVars, nextCursorId, positions>>

\* A bug: the cursor is moved to the head that was current meanwhile.
AdvanceToHead(r) ==
    /\ ~locked
    /\ cursor[r].at = "fetched"
    /\ cursor' = [cursor EXCEPT ![r] = [cursor[r] EXCEPT !.at = "ready",
                                            !.next = head + 1,
                                            !.fetched = 0]]
    /\ positions' = Tracked(cursor[r].id, head + 1)
    /\ UNCHANGED <<stateVars, writerVars, locked, bufferVars, nextCursorId>>

\* The cursor is moved past the revision that was fetched.
Advance(r) ==
    /\ ~locked
    /\ cursor[r].at = "fetched"
    /\ cursor' = [cursor EXCEPT ![r] = [cursor[r] EXCEPT !.at = "ready",
                                            !.next = cursor[r].fetched + 1,
                                            !.fetched = 0]]
    /\ positions' = Tracked(cursor[r].id, cursor[r].fetched + 1)
    /\ UNCHANGED <<stateVars, writerVars, locked, bufferVars, nextCursorId>>

\* resync_cursor_to_head, called by the reader or by next.
Resync(r) ==
    /\ ~locked
    /\ cursor[r].at \in {"lagged", "resync"}
    /\ cursor' = [cursor EXCEPT ![r] = [cursor[r] EXCEPT !.at = "ready",
                                                         !.next = head + 1]]
    /\ positions' = Tracked(cursor[r].id, head + 1)
    /\ UNCHANGED <<stateVars, writerVars, locked, bufferVars, nextCursorId>>

-----------------------------------------------------------------------------
Write(w) ==
    \/ \E ps \in SUBSET Partitions \ {{}} :
          \/ \E size \in RootSizes, bytes \in CommitSizes : Apply(w, ps, size, bytes)
          \/ ApplyWithoutChange(w, ps)
    \/ Push(w)
    \/ TrimFront(w)
    \/ EndPush(w)

Read(r) ==
    \/ Anchor(r)
    \/ \E n \in 1 .. MaxRevision + 1 : CursorFrom(r, n)
    \/ NewCursor(r)
    \/ \E s \in Readers : CloneCursor(r, s)
    \/ DropCursor(r)
    \/ Fetch(r)
    \/ ReportLag(r)
    \/ FetchCompat(r)
    \/ Advance(r)
    \/ Resync(r)

Next == (\E w \in Writers : Write(w)) \/ (\E r \in Readers : Read(r))

Spec == Init /\ [][Next]_vars

-----------------------------------------------------------------------------
(* Properties *)

\* A lookup answers exactly: a revision that has been published is returned if
\* it is retained and reported as lag if it was trimmed, nothing else is, and
\* the oldest revision a lag names can be read (entry_at's index arithmetic
\* over first_retained_revision, next, CommitLogLagged).
LookupIsExact ==
    ~locked =>
        /\ \A rev \in 1 .. head :
              /\ Found(rev) <=> rev >= OldestAvailable
              /\ Lagged(rev) <=> rev < OldestAvailable
        /\ OldestAvailable \in 1 .. head + 1

\* The last revision up to n that changed p.
LastChange(p, n) == Max({0} \cup {k \in 1 .. n : p \in touched[k]})

\* A retained commit is paired with the state of exactly its revision, never
\* with a later one (the snapshot is taken after the commit, under the gate).
ViewIsOfItsRevision ==
    \A i \in DOMAIN entries :
        LET e == entries[i]
        IN  /\ e.snapshot.revision = e.revision
            /\ \A p \in Partitions :
                  e.snapshot.roots[p].changed = LastChange(p, e.revision)

\* The log never runs ahead of the state, and lags it only by the one commit
\* whose writer is still inside the gate: whoever consumed a commit finds at
\* least its revision in the live state.
StateLeadsByOne ==
    /\ head <= revision
    /\ gate = NoWriter => head = revision
    /\ \A w \in Writers : work[w].at = "applied" => revision = head + 1

\* The references and bytes the log keeps per snapshot root, and their sum, are
\* those of the retained entries: a root shared by several snapshots is counted
\* once and released with the last of them (push, release_entry).
BytesAccounted ==
    LET users(a) == {i \in DOMAIN entries : a \in AddressesOf(entries[i].snapshot)}
    IN  /\ DOMAIN retainedRoots =
              UNION {AddressesOf(entries[i].snapshot) : i \in DOMAIN entries}
        /\ \A a \in DOMAIN retainedRoots :
              /\ retainedRoots[a].references = Cardinality(users(a))
              /\ \A i \in users(a), p \in Partitions :
                    entries[i].snapshot.roots[p].address = a =>
                        retainedRoots[a].bytes = entries[i].snapshot.roots[p].bytes
        /\ retainedBytes = SumFunction(EntryBytes) + SumFunction(RootBytes)

\* Every consumer sees the published revisions one after the other, without a
\* gap or a repetition; it skips only when the revision it expects has been
\* trimmed, and then to the end of the stream.  A revision counts as delivered
\* when it is fetched: a commit published meanwhile may trim it.
Stream == INSTANCE CommitStream WITH
    published <- head,
    lost <- OldestAvailable - 1,
    open <- {r \in Readers : cursor[r].at # "none"},
    position <- [r \in Readers |-> IF cursor[r].at = "fetched"
                                   THEN cursor[r].fetched + 1
                                   ELSE cursor[r].next]

ImplementsStream == Stream!StreamSpec
=============================================================================
