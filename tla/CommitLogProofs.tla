--------------------------- MODULE CommitLogProofs ---------------------------
(***************************************************************************)
(* Proofs about CommitLog, for every number of writers, readers and        *)
(* partitions and for every retention limit.  The inductive invariant has  *)
(* three parts: GateInv ties the commit gate and the log's lock to where   *)
(* each writer stands, WindowInv says that the retained entries are the    *)
(* last revisions up to the head without a gap, and CursorInv where a      *)
(* cursor can stand between two locks.                                     *)
(***************************************************************************)
EXTENDS CommitLog, FiniteSums, TLAPS

\* One writer is inside the gate; the state leads the log by its commit until
\* that is pushed, and the log is locked from then on.
GateInv ==
    /\ revision \in Nat
    /\ head \in Nat
    /\ gate \in Writers \cup {NoWriter}
    /\ locked \in BOOLEAN
    /\ work \in [Writers -> Work]
    /\ \A w \in Writers : work[w].at # "idle" <=> gate = w
    /\ gate = NoWriter => head = revision /\ ~locked
    /\ \A w \in Writers : work[w].at = "applied" =>
          revision = head + 1 /\ work[w].revision = revision /\ ~locked
    /\ \A w \in Writers : work[w].at = "pushing" => head = revision /\ locked

\* The entries are a window of consecutive revisions that ends at the head.
\* While the log is locked the first retained revision may be that of an entry
\* which has been trimmed since.
WindowInv ==
    /\ Len(entries) \in Nat
    /\ entries = [i \in 1 .. Len(entries) |-> entries[i]]
    /\ Len(entries) <= head
    /\ \A i \in 1 .. Len(entries) : entries[i].revision = head - Len(entries) + i
    /\ first \in Nat
    /\ ~locked => first = IF Len(entries) = 0 THEN 0 ELSE head - Len(entries) + 1
    /\ locked => first \in 1 .. head - Len(entries) + 1

\* A fetched revision is the one the cursor expected; a cursor that was told it
\* lags expects a revision which is still lost.
CursorInv ==
    /\ cursor \in [Readers -> Cursor]
    /\ nextCursorId \in Nat
    /\ \A r \in Readers :
          /\ cursor[r].at = "none" => cursor[r].next = 0
          /\ cursor[r].at \in {"lagged", "resync"} => cursor[r].next < OldestAvailable

LogInv == GateInv /\ WindowInv /\ CursorInv

-----------------------------------------------------------------------------
(* Lemmas *)

\* The window grows by one entry at its end.
LEMMA AppendWindow ==
    ASSUME NEW s, NEW e, Len(s) \in Nat, s = [i \in 1 .. Len(s) |-> s[i]]
    PROVE  /\ Len(Append(s, e)) = Len(s) + 1
           /\ Append(s, e) = [i \in 1 .. Len(Append(s, e)) |-> Append(s, e)[i]]
           /\ \A i \in 1 .. Len(s) : Append(s, e)[i] = s[i]
           /\ Append(s, e)[Len(s) + 1] = e
<1> DEFINE S == {s[i] : i \in 1 .. Len(s)} \cup {e}
           t == Append(s, e)
<1>1. s \in Seq(S) /\ e \in S
  <2>1. [i \in 1 .. Len(s) |-> s[i]] \in [1 .. Len(s) -> S]
    OBVIOUS
  <2> QED BY <2>1
<1> HIDE DEF S
<1>2. t \in Seq(S) /\ Len(t) = Len(s) + 1
  BY <1>1
<1>3. \A i \in 1 .. Len(s) : t[i] = s[i]
  BY <1>1
<1>4. t[Len(s) + 1] = e
  BY <1>1
<1>5. t = [i \in 1 .. Len(t) |-> t[i]]
  <2> HIDE DEF t
  <2> QED BY <1>2
<1> QED BY <1>2, <1>3, <1>4, <1>5

\* The window loses its first entry.
LEMMA TailWindow ==
    ASSUME NEW s, Len(s) \in Nat, s = [i \in 1 .. Len(s) |-> s[i]], s # << >>
    PROVE  /\ Len(s) > 0
           /\ Len(Tail(s)) = Len(s) - 1
           /\ Tail(s) = [i \in 1 .. Len(Tail(s)) |-> Tail(s)[i]]
           /\ \A i \in 1 .. Len(s) - 1 : Tail(s)[i] = s[i + 1]
<1> DEFINE S == {s[i] : i \in 1 .. Len(s)}
           t == Tail(s)
<1>1. s \in Seq(S)
  <2>1. [i \in 1 .. Len(s) |-> s[i]] \in [1 .. Len(s) -> S]
    OBVIOUS
  <2> QED BY <2>1
<1> HIDE DEF S
<1>2. t \in Seq(S) /\ Len(t) = Len(s) - 1 /\ Len(s) > 0
  BY <1>1
<1>3. \A i \in 1 .. Len(s) - 1 : t[i] = s[i + 1]
  BY <1>1
<1>4. t = [i \in 1 .. Len(t) |-> t[i]]
  <2> HIDE DEF t
  <2> QED BY <1>2
<1> QED BY <1>2, <1>3, <1>4

\* An empty window is the empty sequence.
LEMMA EmptyWindow ==
    ASSUME NEW s, Len(s) \in Nat, s = [i \in 1 .. Len(s) |-> s[i]]
    PROVE  /\ s = << >> <=> Len(s) = 0
           /\ DOMAIN s = 1 .. Len(s)
<1> DEFINE S == {s[i] : i \in 1 .. Len(s)}
<1>1. s \in Seq(S)
  <2>1. [i \in 1 .. Len(s) |-> s[i]] \in [1 .. Len(s) -> S]
    OBVIOUS
  <2> QED BY <2>1
<1> HIDE DEF S
<1> QED BY <1>1

-----------------------------------------------------------------------------
(* The inductive invariant *)

LEMMA InitLogInv == Init => LogInv
<1> SUFFICES ASSUME Init PROVE LogInv
  OBVIOUS
<1>1. GateInv
  BY SizesAssumption DEF Init, GateInv, Work, Idle
<1>2. WindowInv
  BY DEF Init, WindowInv
<1>3. CursorInv
  BY DEF Init, CursorInv, Cursor, NoCursor
<1> QED BY <1>1, <1>2, <1>3 DEF LogInv

\* A writer that enters the gate changes the state and nothing of the log.
LEMMA ApplyKeeps ==
    ASSUME LogInv, NEW w \in Writers, NEW ps, NEW size, NEW bytes \in CommitSizes,
           Apply(w, ps, size, bytes)
    PROVE  LogInv'
<1> USE SizesAssumption DEF LogInv
<1>1. GateInv'
  <2>1. work' \in [Writers -> Work]
    BY DEF Apply, GateInv, Work, GateFree
  <2>2. /\ work'[w].at = "applied"
        /\ work'[w].revision = revision + 1
        /\ \A v \in Writers : v # w => work'[v] = work[v]
    BY DEF Apply, GateInv
  <2>3. gate = NoWriter /\ \A v \in Writers : work[v].at = "idle"
    BY DEF Apply, GateInv, GateFree
  <2>4. gate' = w /\ revision' = revision + 1 /\ head' = head /\ locked' = locked
    BY DEF Apply, bufferVars
  <2> QED BY <2>1, <2>2, <2>3, <2>4 DEF GateInv
<1>2. WindowInv'
  BY DEF Apply, WindowInv, bufferVars
<1>3. CursorInv'
  BY DEF Apply, CursorInv, cursorVars, bufferVars, OldestAvailable
<1> QED BY <1>1, <1>2, <1>3

LEMMA ApplyWithoutChangeKeeps ==
    ASSUME LogInv, NEW w \in Writers, NEW ps, ApplyWithoutChange(w, ps)
    PROVE  LogInv'
<1>1. UNCHANGED <<revision, gate, work, locked, head, first, entries, nextCursorId, cursor>>
  BY DEF ApplyWithoutChange, writerVars, bufferVars, cursorVars
<1> QED BY <1>1 DEF LogInv, GateInv, WindowInv, CursorInv, OldestAvailable

\* The commit pushed is the one after the head: the window stays consecutive,
\* and the oldest available revision stays where it was.
LEMMA PushKeeps ==
    ASSUME LogInv, NEW w \in Writers, Push(w)
    PROVE  LogInv' /\ head' = head + 1 /\ OldestAvailable' = OldestAvailable
<1> DEFINE e == [revision |-> work[w].revision, bytes |-> work[w].bytes,
                 snapshot |-> [revision |-> revision, roots |-> roots]]
<1>1. /\ work[w].at = "applied"
      /\ work[w].revision = head + 1
      /\ ~locked /\ locked'
      /\ head' = head + 1
      /\ revision = head + 1 /\ revision' = revision
      /\ gate = w /\ gate' = gate
      /\ first' = IF entries = << >> THEN head + 1 ELSE first
      /\ entries' = Append(entries, e)
      /\ UNCHANGED <<nextCursorId, cursor>>
      /\ head \in Nat
  BY DEF Push, LogInv, GateInv, stateVars, cursorVars
<1>2. GateInv'
  <2>1. work' = [work EXCEPT ![w] = [work[w] EXCEPT !.at = "pushing"]]
    BY DEF Push
  <2>2. work' \in [Writers -> Work]
    BY <2>1 DEF LogInv, GateInv, Work
  <2>3. \A v \in Writers : v # w => work'[v] = work[v] /\ work[v].at = "idle"
    BY <1>1, <2>1 DEF LogInv, GateInv
  <2>4. work'[w].at = "pushing"
    BY <2>1 DEF LogInv, GateInv, Work
  <2> QED BY <1>1, <2>2, <2>3, <2>4, SizesAssumption DEF LogInv, GateInv
<1>3. /\ Len(entries) \in Nat
      /\ entries = [i \in 1 .. Len(entries) |-> entries[i]]
      /\ Len(entries) <= head
      /\ \A i \in 1 .. Len(entries) : entries[i].revision = head - Len(entries) + i
      /\ first = IF Len(entries) = 0 THEN 0 ELSE head - Len(entries) + 1
  BY <1>1 DEF LogInv, WindowInv
<1>4. entries = << >> <=> Len(entries) = 0
  BY <1>3, EmptyWindow
<1> HIDE DEF e
<1>5. /\ Len(entries') = Len(entries) + 1
      /\ entries' = [i \in 1 .. Len(entries') |-> entries'[i]]
      /\ \A i \in 1 .. Len(entries) : entries'[i] = entries[i]
      /\ entries'[Len(entries) + 1] = e
  BY <1>1, <1>3, AppendWindow
<1>6. e.revision = head + 1
  BY <1>1 DEF e
<1>7. WindowInv'
  <2>1. \A i \in 1 .. Len(entries') : entries'[i].revision = head' - Len(entries') + i
    BY <1>1, <1>3, <1>5, <1>6
  <2> QED BY <1>1, <1>3, <1>4, <1>5, <2>1 DEF WindowInv
<1>8. OldestAvailable' = OldestAvailable
  BY <1>1, <1>3, <1>4 DEF OldestAvailable
<1>9. CursorInv'
  BY <1>1, <1>8 DEF LogInv, CursorInv
<1> QED BY <1>1, <1>2, <1>7, <1>8, <1>9 DEF LogInv

\* Trimming takes entries from the front only.
LEMMA TrimFrontKeeps ==
    ASSUME LogInv, NEW w \in Writers, TrimFront(w)
    PROVE  LogInv' /\ head' = head /\ OldestAvailable' = OldestAvailable
<1>1. /\ work[w].at = "pushing"
      /\ entries # << >>
      /\ entries' = Tail(entries)
      /\ UNCHANGED <<revision, gate, work, locked, head, first, nextCursorId, cursor>>
  BY DEF TrimFront, stateVars, writerVars, cursorVars
<1>2. GateInv'
  BY <1>1 DEF LogInv, GateInv
<1>3. /\ locked
      /\ head \in Nat
  BY <1>1 DEF LogInv, GateInv
<1>4. /\ Len(entries) \in Nat
      /\ entries = [i \in 1 .. Len(entries) |-> entries[i]]
      /\ Len(entries) <= head
      /\ \A i \in 1 .. Len(entries) : entries[i].revision = head - Len(entries) + i
      /\ first \in Nat
      /\ first \in 1 .. head - Len(entries) + 1
  BY <1>3 DEF LogInv, WindowInv
<1>5. /\ Len(entries) > 0
      /\ Len(entries') = Len(entries) - 1
      /\ entries' = [i \in 1 .. Len(entries') |-> entries'[i]]
      /\ \A i \in 1 .. Len(entries) - 1 : entries'[i] = entries[i + 1]
  BY <1>1, <1>4, TailWindow
<1>6. WindowInv'
  <2>1. \A i \in 1 .. Len(entries') : entries'[i].revision = head' - Len(entries') + i
    BY <1>1, <1>3, <1>4, <1>5
  <2> QED BY <1>1, <1>3, <1>4, <1>5, <2>1 DEF WindowInv
<1>7. OldestAvailable' = OldestAvailable
  BY <1>1 DEF OldestAvailable
<1>8. CursorInv'
  BY <1>1, <1>7 DEF LogInv, CursorInv
<1> QED BY <1>1, <1>2, <1>6, <1>7, <1>8 DEF LogInv

\* When the lock is released the first retained revision is that of the first
\* entry, and no revision that was lost becomes available again.
LEMMA EndPushKeeps ==
    ASSUME LogInv, NEW w \in Writers, EndPush(w)
    PROVE  /\ LogInv'
           /\ head' = head
           /\ OldestAvailable \in Nat \ {0}
           /\ OldestAvailable' \in OldestAvailable .. head + 1
<1>1. /\ work[w].at = "pushing"
      /\ first' = IF entries = << >> THEN 0 ELSE Head(entries).revision
      /\ ~locked'
      /\ locked' \in BOOLEAN
      /\ gate' = NoWriter
      /\ work' = [work EXCEPT ![w] = Idle]
      /\ UNCHANGED <<revision, head, entries, nextCursorId, cursor>>
  BY DEF EndPush, stateVars, cursorVars
<1>2. /\ locked
      /\ head \in Nat
      /\ gate = w
      /\ head = revision
  BY <1>1 DEF LogInv, GateInv
<1>3. GateInv'
  <2>1. work' \in [Writers -> Work]
    BY <1>1 DEF LogInv, GateInv, Work, Idle
  <2>2. \A v \in Writers : work'[v].at = "idle"
    BY <1>1, <1>2 DEF LogInv, GateInv, Idle
  <2> QED BY <1>1, <1>2, <2>1, <2>2, SizesAssumption DEF LogInv, GateInv
<1>4. /\ Len(entries) \in Nat
      /\ entries = [i \in 1 .. Len(entries) |-> entries[i]]
      /\ Len(entries) <= head
      /\ \A i \in 1 .. Len(entries) : entries[i].revision = head - Len(entries) + i
      /\ first \in Nat
      /\ first \in 1 .. head - Len(entries) + 1
  BY <1>2 DEF LogInv, WindowInv
<1>5. entries = << >> <=> Len(entries) = 0
  BY <1>4, EmptyWindow
<1>6. first' = IF Len(entries) = 0 THEN 0 ELSE head - Len(entries) + 1
  <2>1. entries # << >> => Head(entries) = entries[1]
    OBVIOUS
  <2> QED BY <1>1, <1>4, <1>5, <2>1
<1>7. WindowInv'
  BY <1>1, <1>2, <1>4, <1>6 DEF WindowInv
<1>8. OldestAvailable \in Nat \ {0} /\ OldestAvailable' \in OldestAvailable .. head + 1
  BY <1>1, <1>2, <1>4, <1>6 DEF OldestAvailable
<1>9. CursorInv'
  <2>1. cursor \in [Readers -> Cursor] /\ nextCursorId \in Nat
    BY DEF LogInv, CursorInv
  <2>2. \A r \in Readers : cursor[r].next \in Nat
    BY <2>1 DEF Cursor
  <2>3. ASSUME NEW r \in Readers, cursor[r].at \in {"lagged", "resync"}
        PROVE  cursor[r].next < OldestAvailable'
    <3>1. cursor[r].next < OldestAvailable
      BY <2>3 DEF LogInv, CursorInv
    <3> QED BY <1>2, <1>8, <2>2, <3>1
  <2> QED BY <1>1, <2>1, <2>3 DEF LogInv, CursorInv
<1> QED BY <1>1, <1>3, <1>7, <1>8, <1>9 DEF LogInv

\* A reader's step changes one cursor and nothing a writer has to do with.
LEMMA CursorStepKeeps ==
    ASSUME LogInv, NEW r \in Readers, NEW c \in Cursor,
           c.at = "none" => c.next = 0,
           c.at \in {"lagged", "resync"} => c.next < OldestAvailable,
           cursor' = [cursor EXCEPT ![r] = c],
           nextCursorId' \in Nat,
           UNCHANGED <<stateVars, writerVars, locked, bufferVars>>
    PROVE  LogInv'
<1>1. UNCHANGED <<revision, gate, work, locked, head, first, entries>>
  BY DEF stateVars, writerVars, bufferVars
<1>2. GateInv' /\ WindowInv'
  BY <1>1 DEF LogInv, GateInv, WindowInv
<1>3. OldestAvailable' = OldestAvailable
  BY <1>1 DEF OldestAvailable
<1>4. CursorInv'
  BY <1>3 DEF LogInv, CursorInv
<1> QED BY <1>2, <1>4 DEF LogInv

\* A lookup that finds a revision returns it, and what is found is available;
\* what is reported as lag is not (the log is not locked).
LEMMA LookupFacts ==
    ASSUME LogInv, ~locked, NEW n \in Nat
    PROVE  /\ OldestAvailable \in 1 .. head + 1
           /\ Found(n) => /\ n \in OldestAvailable .. head
                          /\ entries[n - first + 1].revision = n
           /\ n \in OldestAvailable .. head => Found(n)
           /\ Lagged(n) => n < OldestAvailable
           /\ n \in 1 .. head /\ n < OldestAvailable => Lagged(n)
<1>1. /\ head \in Nat
      /\ Len(entries) \in Nat
      /\ entries = [i \in 1 .. Len(entries) |-> entries[i]]
      /\ Len(entries) <= head
      /\ \A i \in 1 .. Len(entries) : entries[i].revision = head - Len(entries) + i
      /\ first = IF Len(entries) = 0 THEN 0 ELSE head - Len(entries) + 1
  BY DEF LogInv, GateInv, WindowInv
<1>2. DOMAIN entries = 1 .. Len(entries)
  BY <1>1, EmptyWindow
<1>3. OldestAvailable = head - Len(entries) + 1
  BY <1>1 DEF OldestAvailable
<1>4. Found(n) <=> n \in OldestAvailable .. head
  BY <1>1, <1>2, <1>3 DEF Found
<1>5. Found(n) => entries[n - first + 1].revision = n
  BY DEF Found
<1> QED BY <1>1, <1>3, <1>4, <1>5 DEF Lagged

LEMMA ReadKeeps ==
    ASSUME LogInv, NEW r \in Readers, Read(r)
    PROVE  LogInv'
<1> DEFINE Calm == UNCHANGED <<stateVars, writerVars, locked, bufferVars>>
<1>0. /\ cursor \in [Readers -> Cursor]
      /\ cursor[r] \in Cursor
      /\ head \in Nat
      /\ head + 1 \in Nat
      /\ nextCursorId \in Nat
      /\ nextCursorId + 1 \in Nat
      /\ cursor[r].fetched + 1 \in Nat
  BY DEF LogInv, GateInv, CursorInv, Cursor
<1>1. CASE Anchor(r)
  <2> DEFINE c == [NoCursor EXCEPT !.at = "anchored", !.next = head + 1]
  <2>1. c \in Cursor /\ c.at = "anchored"
    BY <1>0 DEF Cursor, NoCursor
  <2>2. cursor' = [cursor EXCEPT ![r] = c] /\ Calm /\ nextCursorId' = nextCursorId
    BY <1>1 DEF Anchor
  <2> HIDE DEF c
  <2> QED BY <1>0, <2>1, <2>2, CursorStepKeeps
<1>2. CASE \E n \in 1 .. MaxRevision + 1 : CursorFrom(r, n)
  <2>0. PICK n \in 1 .. MaxRevision + 1 : CursorFrom(r, n)
    BY <1>2
  <2> DEFINE c == [NoCursor EXCEPT !.at = "anchored", !.next = n]
  <2>1. c \in Cursor /\ c.at = "anchored"
    <3>1. n \in Nat
      BY SizesAssumption
    <3> QED BY <3>1 DEF Cursor, NoCursor
  <2>2. cursor' = [cursor EXCEPT ![r] = c] /\ Calm /\ nextCursorId' = nextCursorId
    BY <2>0 DEF CursorFrom
  <2> HIDE DEF c
  <2> QED BY <1>0, <2>1, <2>2, CursorStepKeeps
<1>3. CASE NewCursor(r)
  <2> DEFINE c == [cursor[r] EXCEPT !.at = "ready", !.id = nextCursorId]
  <2>1. c \in Cursor /\ c.at = "ready"
    BY <1>0 DEF Cursor
  <2>2. cursor' = [cursor EXCEPT ![r] = c] /\ Calm /\ nextCursorId' = nextCursorId + 1
    BY <1>3 DEF NewCursor
  <2> HIDE DEF c
  <2> QED BY <1>0, <2>1, <2>2, CursorStepKeeps
<1>4. CASE \E s \in Readers : CloneCursor(r, s)
  <2>0. PICK s \in Readers : CloneCursor(r, s)
    BY <1>4
  <2>1. /\ cursor[r].at = "ready"
        /\ cursor' = [cursor EXCEPT ![s] = cursor[r]]
        /\ Calm
        /\ nextCursorId' = nextCursorId
    BY <2>0 DEF CloneCursor
  <2> QED BY <1>0, <2>1, CursorStepKeeps
<1>5. CASE DropCursor(r)
  <2>1. NoCursor \in Cursor /\ NoCursor.at = "none" /\ NoCursor.next = 0
    BY DEF Cursor, NoCursor
  <2>2. cursor' = [cursor EXCEPT ![r] = NoCursor] /\ Calm /\ nextCursorId' = nextCursorId
    BY <1>5 DEF DropCursor
  <2> HIDE DEF NoCursor
  <2> QED BY <1>0, <2>1, <2>2, CursorStepKeeps
<1>6. CASE Fetch(r)
  <2> DEFINE n == cursor[r].next
             c == [cursor[r] EXCEPT !.at = "fetched",
                                    !.fetched = entries[n - first + 1].revision]
  <2>0. n \in Nat
    BY <1>0 DEF Cursor
  <2>1. entries[n - first + 1].revision = n
    <3>1. ~locked /\ Found(n)
      BY <1>6 DEF Fetch
    <3> QED BY <2>0, <3>1, LookupFacts
  <2>2. c \in Cursor /\ c.at = "fetched"
    BY <1>0, <2>0, <2>1 DEF Cursor
  <2>3. cursor' = [cursor EXCEPT ![r] = c] /\ Calm /\ nextCursorId' = nextCursorId
    BY <1>6 DEF Fetch
  <2> HIDE DEF c
  <2> QED BY <1>0, <2>2, <2>3, CursorStepKeeps
<1>7. CASE ReportLag(r)
  <2> DEFINE c == [cursor[r] EXCEPT !.at = "lagged"]
  <2>0. cursor[r].next < OldestAvailable
    <3>1. ~locked /\ Lagged(cursor[r].next) /\ cursor[r].next \in Nat
      BY <1>0, <1>7 DEF ReportLag, Cursor
    <3> QED BY <3>1, LookupFacts
  <2>1. c \in Cursor /\ c.at = "lagged" /\ c.next = cursor[r].next
    BY <1>0 DEF Cursor
  <2>2. cursor' = [cursor EXCEPT ![r] = c] /\ Calm /\ nextCursorId' = nextCursorId
    BY <1>7 DEF ReportLag
  <2> HIDE DEF c
  <2> QED BY <1>0, <2>0, <2>1, <2>2, CursorStepKeeps
<1>8. CASE FetchCompat(r)
  <2> DEFINE c == [cursor[r] EXCEPT !.at = "resync"]
  <2>0. cursor[r].next < OldestAvailable
    <3>1. ~locked /\ Lagged(cursor[r].next) /\ cursor[r].next \in Nat
      BY <1>0, <1>8 DEF FetchCompat, Cursor
    <3> QED BY <3>1, LookupFacts
  <2>1. c \in Cursor /\ c.at = "resync" /\ c.next = cursor[r].next
    BY <1>0 DEF Cursor
  <2>2. cursor' = [cursor EXCEPT ![r] = c] /\ Calm /\ nextCursorId' = nextCursorId
    BY <1>8 DEF FetchCompat
  <2> HIDE DEF c
  <2> QED BY <1>0, <2>0, <2>1, <2>2, CursorStepKeeps
<1>9. CASE Advance(r)
  <2> DEFINE c == [cursor[r] EXCEPT !.at = "ready", !.next = cursor[r].fetched + 1,
                                    !.fetched = 0]
  <2>1. c \in Cursor /\ c.at = "ready"
    BY <1>0 DEF Cursor
  <2>2. cursor' = [cursor EXCEPT ![r] = c] /\ Calm /\ nextCursorId' = nextCursorId
    BY <1>9 DEF Advance
  <2> HIDE DEF c
  <2> QED BY <1>0, <2>1, <2>2, CursorStepKeeps
<1>10. CASE Resync(r)
  <2> DEFINE c == [cursor[r] EXCEPT !.at = "ready", !.next = head + 1]
  <2>1. c \in Cursor /\ c.at = "ready"
    BY <1>0 DEF Cursor
  <2>2. cursor' = [cursor EXCEPT ![r] = c] /\ Calm /\ nextCursorId' = nextCursorId
    BY <1>10 DEF Resync
  <2> HIDE DEF c
  <2> QED BY <1>0, <2>1, <2>2, CursorStepKeeps
<1> QED BY <1>1, <1>2, <1>3, <1>4, <1>5, <1>6, <1>7, <1>8, <1>9, <1>10 DEF Read

LEMMA InvariantStep == LogInv /\ [Next]_vars => LogInv'
<1> SUFFICES ASSUME LogInv, [Next]_vars PROVE LogInv'
  OBVIOUS
<1>1. ASSUME NEW w \in Writers, Write(w) PROVE LogInv'
  BY <1>1, ApplyKeeps, ApplyWithoutChangeKeeps, PushKeeps, TrimFrontKeeps, EndPushKeeps
     DEF Write
<1>2. ASSUME NEW r \in Readers, Read(r) PROVE LogInv'
  BY <1>2, ReadKeeps
<1>3. CASE UNCHANGED vars
  <2>1. UNCHANGED <<revision, gate, work, locked, head, first, entries, nextCursorId, cursor>>
    BY <1>3 DEF vars, stateVars, writerVars, bufferVars, cursorVars
  <2> QED BY <2>1 DEF LogInv, GateInv, WindowInv, CursorInv, OldestAvailable
<1> QED BY <1>1, <1>2, <1>3 DEF Next

LEMMA LogInvariant == Spec => []LogInv
<1> QED BY InitLogInv, InvariantStep, PTL DEF Spec

-----------------------------------------------------------------------------
(* Theorems *)

\* The log never runs ahead of the state and lags it by at most the commit of
\* the writer inside the gate.
THEOREM StateLeads == Spec => []StateLeadsByOne
<1>1. LogInv => StateLeadsByOne
  <2> SUFFICES ASSUME LogInv PROVE StateLeadsByOne
    OBVIOUS
  <2>1. CASE gate = NoWriter
    BY <2>1, SizesAssumption DEF LogInv, GateInv, StateLeadsByOne
  <2>2. CASE gate \in Writers
    <3>1. work[gate].at \in {"applied", "pushing"}
      BY <2>2 DEF LogInv, GateInv, Work
    <3> QED BY <2>2, <3>1, SizesAssumption DEF LogInv, GateInv, StateLeadsByOne
  <2> QED BY <2>1, <2>2 DEF LogInv, GateInv
<1> QED BY <1>1, LogInvariant, PTL

\* A published revision is found exactly if it is retained and reported as lag
\* exactly if it was trimmed, for every retention limit: the index arithmetic
\* of entry_at is right, also on an empty log.
THEOREM LookupExact == Spec => []LookupIsExact
<1>1. LogInv => LookupIsExact
  <2> SUFFICES ASSUME LogInv, ~locked
               PROVE  /\ \A rev \in 1 .. head :
                            /\ Found(rev) <=> rev >= OldestAvailable
                            /\ Lagged(rev) <=> rev < OldestAvailable
                      /\ OldestAvailable \in 1 .. head + 1
    BY DEF LookupIsExact
  <2>1. head \in Nat
    BY DEF LogInv, GateInv
  <2>2. OldestAvailable \in 1 .. head + 1
    BY LookupFacts
  <2>3. ASSUME NEW rev \in 1 .. head
        PROVE  /\ Found(rev) <=> rev >= OldestAvailable
               /\ Lagged(rev) <=> rev < OldestAvailable
    <3>1. rev \in Nat
      BY <2>1
    <3>2. /\ Found(rev) => rev \in OldestAvailable .. head
          /\ rev \in OldestAvailable .. head => Found(rev)
          /\ Lagged(rev) => rev < OldestAvailable
          /\ rev \in 1 .. head /\ rev < OldestAvailable => Lagged(rev)
      BY <3>1, LookupFacts
    <3> QED BY <2>1, <2>2, <3>2
  <2> QED BY <2>2, <2>3
<1> QED BY <1>1, LogInvariant, PTL

-----------------------------------------------------------------------------
(* Snapshots *)

\* Revision c is the last one up to n that changed p in a history of changes; 0
\* if there is none.
LastUpTo(history, p, n, c) ==
    /\ c \in 0 .. n
    /\ c # 0 => p \in history[c]
    /\ \A k \in 1 .. n : p \in history[k] => k <= c

\* Every root holds the last change up to the revision of the state, or of the
\* snapshot, that it is a part of.
ViewInv ==
    /\ Len(touched) = revision
    /\ touched = [k \in 1 .. Len(touched) |-> touched[k]]
    /\ \A p \in Partitions : LastUpTo(touched, p, revision, roots[p].changed)
    /\ \A i \in 1 .. Len(entries) :
          /\ entries[i].snapshot.revision = entries[i].revision
          /\ \A p \in Partitions :
                LastUpTo(touched, p, entries[i].revision, entries[i].snapshot.roots[p].changed)

\* The definition of LastChange by Max picks that revision.
LEMMA LastChangeFact ==
    ASSUME NEW p, NEW n \in Nat, NEW c, LastUpTo(touched, p, n, c)
    PROVE  LastChange(p, n) = c
<1> DEFINE S == {0} \cup {k \in 1 .. n : p \in touched[k]}
<1>1. c \in S /\ \A y \in S : c >= y
  BY DEF LastUpTo
<1>2. S \subseteq Int
  OBVIOUS
<1> HIDE DEF S
<1>3. \A x \in S : (\A y \in S : x >= y) => x = c
  BY <1>1, <1>2
<1>4. Max(S) = c
  BY <1>1, <1>3 DEF Max
<1> QED BY <1>4 DEF LastChange, S

\* What was the last change up to a published revision stays so.
LEMMA LastUpToKept ==
    ASSUME Len(touched) = revision, revision \in Nat,
           touched = [k \in 1 .. Len(touched) |-> touched[k]],
           NEW ps, touched' = Append(touched, ps),
           NEW p, NEW n \in 0 .. revision, NEW c, LastUpTo(touched, p, n, c)
    PROVE  LastUpTo(touched', p, n, c)
<1>1. \A k \in 1 .. revision : touched'[k] = touched[k]
  BY AppendWindow
<1>2. \A k \in 1 .. n : k \in 1 .. revision
  OBVIOUS
<1>3. c \in 0 .. n /\ (c # 0 => c \in 1 .. n)
  BY DEF LastUpTo
<1> QED BY <1>1, <1>2, <1>3 DEF LastUpTo

\* The revisions of the entries, and of the state, bound what is asked for.
LEMMA EntryRevisions ==
    ASSUME LogInv
    PROVE  /\ revision \in Nat /\ head \in Nat /\ head <= revision /\ Len(entries) \in Nat
           /\ \A i \in 1 .. Len(entries) : entries[i].revision \in 0 .. revision
<1>1. revision \in Nat /\ head \in Nat /\ head <= revision
  <2>1. CASE gate = NoWriter
    BY <2>1 DEF LogInv, GateInv
  <2>2. CASE gate \in Writers
    <3>1. work[gate].at \in {"applied", "pushing"}
      BY <2>2 DEF LogInv, GateInv, Work
    <3> QED BY <2>2, <3>1 DEF LogInv, GateInv
  <2> QED BY <2>1, <2>2 DEF LogInv, GateInv
<1>2. /\ Len(entries) \in Nat /\ Len(entries) <= head
      /\ \A i \in 1 .. Len(entries) : entries[i].revision = head - Len(entries) + i
  BY DEF LogInv, WindowInv
<1>3. \A i \in 1 .. Len(entries) : head - Len(entries) + i \in 0 .. revision
  BY <1>1, <1>2
<1> QED BY <1>1, <1>2, <1>3

LEMMA ApplyViews ==
    ASSUME LogInv, ViewInv, NEW w \in Writers, NEW ps \in SUBSET Partitions, NEW size, NEW bytes,
           Apply(w, ps, size, bytes)
    PROVE  ViewInv'
<1> DEFINE n == revision + 1
<1>1. /\ revision' = n /\ touched' = Append(touched, ps) /\ UNCHANGED entries
      /\ roots' = Rewritten(ps, [p \in ps |-> size], [p \in ps |-> n])
  BY DEF Apply, bufferVars
<1>2. /\ Len(touched) = revision /\ touched = [k \in 1 .. Len(touched) |-> touched[k]]
      /\ revision \in Nat /\ n \in Nat
  BY DEF ViewInv, LogInv, GateInv
<1>3. /\ Len(touched') = n /\ touched' = [k \in 1 .. Len(touched') |-> touched'[k]]
      /\ \A k \in 1 .. revision : touched'[k] = touched[k]
      /\ touched'[n] = ps
  BY <1>1, <1>2, AppendWindow
<1>4. ASSUME NEW p \in Partitions PROVE LastUpTo(touched', p, n, roots'[p].changed)
  <2>1. CASE p \in ps
    <3>1. roots'[p].changed = n
      BY <1>1, <2>1 DEF Rewritten
    <3>2. n \in 0 .. n /\ \A k \in 1 .. n : k <= n
      BY <1>2
    <3> QED BY <1>3, <2>1, <3>1, <3>2 DEF LastUpTo
  <2>2. CASE p \notin ps
    <3> DEFINE c == roots[p].changed
    <3>1. roots'[p].changed = c
      BY <1>1, <2>2 DEF Rewritten
    <3>2. LastUpTo(touched, p, revision, c) /\ revision \in 0 .. revision
      BY <1>2 DEF ViewInv
    <3> HIDE DEF c
    <3>3. LastUpTo(touched', p, revision, c)
      BY <1>1, <1>2, <3>2, LastUpToKept
    <3>4. \A k \in 1 .. n : k \in 1 .. revision \/ k = n
      BY <1>2
    <3>5. c \in 0 .. revision => c \in 0 .. n
      BY <1>2
    <3> HIDE DEF n
    <3>6. LastUpTo(touched', p, n, c)
      BY <1>3, <2>2, <3>3, <3>4, <3>5 DEF LastUpTo
    <3> QED BY <3>1, <3>6
  <2> QED BY <2>1, <2>2
<1>5. ASSUME NEW i \in 1 .. Len(entries), NEW p \in Partitions
      PROVE  LastUpTo(touched', p, entries[i].revision, entries[i].snapshot.roots[p].changed)
  <2>1. /\ LastUpTo(touched, p, entries[i].revision, entries[i].snapshot.roots[p].changed)
        /\ entries[i].revision \in 0 .. revision
    BY EntryRevisions DEF ViewInv
  <2> QED BY <1>1, <1>2, <2>1, LastUpToKept
<1> QED BY <1>1, <1>3, <1>4, <1>5 DEF ViewInv

LEMMA ViewStep == LogInv /\ ViewInv /\ [Next]_vars => ViewInv'
<1> SUFFICES ASSUME LogInv, ViewInv, [Next]_vars PROVE ViewInv'
  OBVIOUS
<1>k. ASSUME UNCHANGED <<revision, touched, entries>>,
             \A p \in Partitions : roots'[p].changed = roots[p].changed
      PROVE  ViewInv'
  BY <1>k DEF ViewInv
<1>1. ASSUME NEW w \in Writers, NEW ps \in SUBSET Partitions \ {{}},
             \E size \in RootSizes, bytes \in CommitSizes : Apply(w, ps, size, bytes)
      PROVE  ViewInv'
  BY <1>1, ApplyViews
<1>2. ASSUME NEW w \in Writers, NEW ps \in SUBSET Partitions, ApplyWithoutChange(w, ps)
      PROVE  ViewInv'
  <2>1. /\ UNCHANGED <<revision, touched, entries>>
        /\ roots' = Rewritten(ps, [p \in ps |-> roots[p].bytes], [p \in ps |-> roots[p].changed])
    BY <1>2 DEF ApplyWithoutChange, bufferVars
  <2>2. \A p \in Partitions : roots'[p].changed = roots[p].changed
    BY <2>1 DEF Rewritten
  <2> QED BY <1>k, <2>1, <2>2
<1>3. ASSUME NEW w \in Writers, Push(w) PROVE ViewInv'
  <2> DEFINE e == [revision |-> work[w].revision, bytes |-> work[w].bytes,
                   snapshot |-> [revision |-> revision, roots |-> roots]]
  <2>1. entries' = Append(entries, e) /\ UNCHANGED <<revision, touched, roots>>
    BY <1>3 DEF Push, stateVars
  <2>2. work[w].revision = revision
    BY <1>3 DEF Push, LogInv, GateInv
  <2>3. e.revision = revision /\ e.snapshot.revision = revision /\ e.snapshot.roots = roots
    BY <2>2
  <2> HIDE DEF e
  <2>4. Len(entries) \in Nat /\ entries = [i \in 1 .. Len(entries) |-> entries[i]]
    BY DEF LogInv, WindowInv
  <2>5. /\ Len(entries') = Len(entries) + 1 /\ entries'[Len(entries) + 1] = e
        /\ \A i \in 1 .. Len(entries) : entries'[i] = entries[i]
    BY <2>1, <2>4, AppendWindow
  <2>6. \A i \in 1 .. Len(entries') : i \in 1 .. Len(entries) \/ i = Len(entries) + 1
    BY <2>4, <2>5
  <2>7. ASSUME NEW i \in 1 .. Len(entries')
        PROVE  /\ entries'[i].snapshot.revision = entries'[i].revision
               /\ \A p \in Partitions :
                     LastUpTo(touched, p, entries'[i].revision, entries'[i].snapshot.roots[p].changed)
    <3>1. CASE i \in 1 .. Len(entries)
      BY <2>5, <3>1 DEF ViewInv
    <3>2. CASE i = Len(entries) + 1
      BY <2>3, <2>5, <3>2 DEF ViewInv
    <3> QED BY <2>6, <3>1, <3>2
  <2> QED BY <2>1, <2>7 DEF ViewInv
<1>4. ASSUME NEW w \in Writers, TrimFront(w) PROVE ViewInv'
  <2>1. entries # << >> /\ entries' = Tail(entries) /\ UNCHANGED <<revision, touched, roots>>
    BY <1>4 DEF TrimFront, stateVars
  <2>2. Len(entries) \in Nat /\ entries = [i \in 1 .. Len(entries) |-> entries[i]]
    BY DEF LogInv, WindowInv
  <2>3. /\ Len(entries') = Len(entries) - 1
        /\ \A i \in 1 .. Len(entries) - 1 : entries'[i] = entries[i + 1]
    BY <2>1, <2>2, TailWindow
  <2>4. \A i \in 1 .. Len(entries) - 1 : i + 1 \in 1 .. Len(entries)
    BY <2>2
  <2>5. \A i \in 1 .. Len(entries') :
           /\ entries'[i].snapshot.revision = entries'[i].revision
           /\ \A p \in Partitions :
                 LastUpTo(touched, p, entries'[i].revision, entries'[i].snapshot.roots[p].changed)
    BY <2>3, <2>4 DEF ViewInv
  <2> QED BY <2>1, <2>5 DEF ViewInv
<1>5. ASSUME NEW w \in Writers, EndPush(w) PROVE ViewInv'
  BY <1>5, <1>k DEF EndPush, stateVars
<1>6. ASSUME NEW r \in Readers, Read(r) PROVE ViewInv'
  BY <1>6, <1>k DEF Read, Anchor, CursorFrom, NewCursor, CloneCursor, DropCursor, Fetch, ReportLag,
                    FetchCompat, Advance, Resync, stateVars, bufferVars
<1>7. CASE UNCHANGED vars
  BY <1>7, <1>k DEF vars, stateVars, bufferVars
<1> QED BY <1>1, <1>2, <1>3, <1>4, <1>5, <1>6, <1>7 DEF Next, Write

\* Every retained commit carries the state of exactly its revision: for each
\* partition the last change up to it, however many commits followed.
THEOREM ViewsAreOfTheirRevision == Spec => []ViewIsOfItsRevision
<1>1. Init => ViewInv
  <2> SUFFICES ASSUME Init PROVE ViewInv
    OBVIOUS
  <2>1. revision = 0 /\ touched = << >> /\ entries = << >>
    BY DEF Init
  <2>2. \A p \in Partitions : roots[p].changed = 0
    BY DEF Init
  <2>3. Len(touched) = 0 /\ Len(entries) = 0 /\ touched = [k \in 1 .. 0 |-> touched[k]]
    BY <2>1
  <2> QED BY <2>1, <2>2, <2>3 DEF ViewInv, LastUpTo
<1>2. LogInv /\ ViewInv => ViewIsOfItsRevision
  <2> SUFFICES ASSUME LogInv, ViewInv, NEW i \in DOMAIN entries
               PROVE  /\ entries[i].snapshot.revision = entries[i].revision
                      /\ \A p \in Partitions : entries[i].snapshot.roots[p].changed
                                                  = LastChange(p, entries[i].revision)
    BY DEF ViewIsOfItsRevision
  <2>1. i \in 1 .. Len(entries)
    BY DEF LogInv, WindowInv
  <2>2. entries[i].revision \in Nat
    BY <2>1, EntryRevisions
  <2> QED BY <2>1, <2>2, LastChangeFact DEF ViewInv
<1> QED BY <1>1, <1>2, LogInvariant, ViewStep, PTL DEF Spec

-----------------------------------------------------------------------------
(* The accounting of bytes *)

\* The retained entries whose snapshot uses the root at an address.
Users(a) == {i \in 1 .. Len(entries) : a \in AddressesOf(entries[i].snapshot)}

\* The roots of the live state have addresses of their own.
RootsApart == \A p, q \in Partitions : p # q => roots[p].address # roots[q].address

\* The root of a snapshot is accounted with its own bytes; so is a live root
\* that a snapshot shares.
WeightsInv ==
    /\ \A p \in Partitions : roots[p].bytes \in Nat
    /\ \A p \in Partitions : roots[p].address \in DOMAIN retainedRoots =>
          retainedRoots[roots[p].address].bytes = roots[p].bytes
    /\ \A i \in 1 .. Len(entries) :
          /\ entries[i].bytes \in Nat
          /\ \A p \in Partitions :
                /\ entries[i].snapshot.roots[p].address \in DOMAIN retainedRoots
                /\ retainedRoots[entries[i].snapshot.roots[p].address].bytes
                      = entries[i].snapshot.roots[p].bytes

\* An accounted root is used, and its references count its users.
ReferencesInv ==
    \A a \in DOMAIN retainedRoots :
       /\ retainedRoots[a] \in [references : Nat, bytes : Nat]
       /\ Users(a) # {}
       /\ retainedRoots[a].references = Cardinality(Users(a))

TotalInv ==
    /\ IsFiniteSet(DOMAIN retainedRoots)
    /\ retainedBytes = SumFunctionOnSet(EntryBytes, 1 .. Len(entries))
                          + SumFunctionOnSet(RootBytes, DOMAIN retainedRoots)

BytesInv == RootsApart /\ WeightsInv /\ ReferencesInv /\ TotalInv

\* The invariant says what BytesAccounted says.
LEMMA BytesInvSuffices ==
    ASSUME LogInv, BytesInv
    PROVE  BytesAccounted
<1>1. DOMAIN entries = 1 .. Len(entries)
  BY EmptyWindow DEF LogInv, WindowInv
<1>2. \A a : {i \in DOMAIN entries : a \in AddressesOf(entries[i].snapshot)} = Users(a)
  BY <1>1 DEF Users
<1>3. DOMAIN retainedRoots = UNION {AddressesOf(entries[i].snapshot) : i \in DOMAIN entries}
  <2>1. ASSUME NEW a \in DOMAIN retainedRoots
        PROVE  \E i \in DOMAIN entries : a \in AddressesOf(entries[i].snapshot)
    BY <1>2 DEF BytesInv, ReferencesInv
  <2>2. ASSUME NEW i \in DOMAIN entries, NEW a \in AddressesOf(entries[i].snapshot)
        PROVE  a \in DOMAIN retainedRoots
    BY <1>1 DEF BytesInv, WeightsInv, AddressesOf
  <2> QED BY <2>1, <2>2
<1>4. ASSUME NEW a \in DOMAIN retainedRoots
      PROVE  /\ retainedRoots[a].references = Cardinality(Users(a))
             /\ \A i \in Users(a), p \in Partitions :
                   entries[i].snapshot.roots[p].address = a =>
                       retainedRoots[a].bytes = entries[i].snapshot.roots[p].bytes
  BY DEF BytesInv, ReferencesInv, WeightsInv, Users
<1>5. /\ SumFunction(EntryBytes) = SumFunctionOnSet(EntryBytes, 1 .. Len(entries))
      /\ SumFunction(RootBytes) = SumFunctionOnSet(RootBytes, DOMAIN retainedRoots)
  BY <1>1 DEF SumFunction, EntryBytes, RootBytes
<1> QED BY <1>2, <1>3, <1>4, <1>5 DEF BytesAccounted, BytesInv, TotalInv

\* A write gives the written partitions roots at addresses that nobody uses.
LEMMA RewrittenKeeps ==
    ASSUME LogInv, BytesInv, NEW ps \in SUBSET Partitions, NEW bytes, NEW changed,
           \A p \in ps : bytes[p] \in Nat, CanAllocate(ps),
           roots' = Rewritten(ps, bytes, changed),
           UNCHANGED <<entries, retainedRoots, retainedBytes>>
    PROVE  BytesInv'
<1> DEFINE f == NewAddresses(ps, FreeAddresses)
<1>1. f \in Injection(ps, FreeAddresses)
  BY DEF CanAllocate, NewAddresses
<1> HIDE DEF f
<1>2. /\ \A p \in ps : f[p] \in FreeAddresses
      /\ \A p, q \in ps : p # q => f[p] # f[q]
  BY <1>1 DEF Injection, IsInjective
<1>3. /\ \A p \in ps : roots'[p].address = f[p] /\ roots'[p].bytes = bytes[p]
      /\ \A p \in Partitions \ ps : roots'[p] = roots[p]
  BY DEF Rewritten, f
<1>4. \A p \in ps : /\ f[p] \notin DOMAIN retainedRoots
                     /\ \A q \in Partitions : f[p] # roots[q].address
  BY <1>2 DEF FreeAddresses
<1>5. RootsApart'
  BY <1>2, <1>3, <1>4 DEF BytesInv, RootsApart
<1>6. WeightsInv'
  BY <1>3, <1>4 DEF BytesInv, WeightsInv
<1>7. ReferencesInv' /\ TotalInv'
  <2>1. EntryBytes' = EntryBytes /\ RootBytes' = RootBytes /\ \A a : Users(a)' = Users(a)
    BY DEF EntryBytes, RootBytes, Users, AddressesOf
  <2> QED BY <2>1 DEF BytesInv, ReferencesInv, TotalInv
<1> QED BY <1>5, <1>6, <1>7 DEF BytesInv

\* An interval that grows by one.
LEMMA IntervalGrows ==
    ASSUME NEW n \in Nat
    PROVE  /\ 1 .. n + 1 = (1 .. n) \cup {n + 1} /\ n + 1 \notin 1 .. n
           /\ IsFiniteSet(1 .. n)
<1>1. IsFiniteSet(1 .. n)
  BY FS_Interval
<1>2. 1 .. n + 1 = (1 .. n) \cup {n + 1} /\ n + 1 \notin 1 .. n
  OBVIOUS
<1> QED BY <1>1, <1>2

\* A pushed snapshot adds a reference to each root it shares, and the bytes of
\* each root that is new.
LEMMA PushAccounts ==
    ASSUME LogInv, BytesInv, NEW w \in Writers, Push(w)
    PROVE  BytesInv'
<1> DEFINE snapshot == [revision |-> revision, roots |-> roots]
           e == [revision |-> work[w].revision, bytes |-> work[w].bytes,
                 snapshot |-> snapshot]
           n == Len(entries)
           D == DOMAIN retainedRoots
           A == AddressesOf(snapshot)
           P == NewRoots(snapshot)
<1>1. /\ entries' = Append(entries, e) /\ roots' = roots
      /\ retainedRoots' = RootsWith(snapshot)
      /\ retainedBytes' = BytesWith(snapshot, work[w].bytes)
  BY DEF Push, stateVars
<1>2. n \in Nat /\ entries = [i \in 1 .. n |-> entries[i]] /\ DOMAIN entries = 1 .. n
  BY EmptyWindow DEF LogInv, WindowInv
<1>3. work[w].bytes \in Nat
  BY DEF LogInv, GateInv, Work
<1>4. e.bytes = work[w].bytes /\ e.snapshot = snapshot /\ snapshot.roots = roots
  OBVIOUS
<1>5. /\ A = {roots[p].address : p \in Partitions}
      /\ P = {p \in Partitions : roots[p].address \notin D}
  BY DEF AddressesOf, NewRoots
<1> HIDE DEF snapshot, e
<1>6. /\ Len(entries') = n + 1 /\ entries'[n + 1] = e
      /\ \A i \in 1 .. n : entries'[i] = entries[i]
      /\ entries' = [i \in 1 .. n + 1 |-> entries'[i]]
  BY <1>1, <1>2, AppendWindow
<1>7. /\ 1 .. n + 1 = (1 .. n) \cup {n + 1} /\ n + 1 \notin 1 .. n
      /\ IsFiniteSet(1 .. n)
  BY <1>2, IntervalGrows
<1>8. /\ DOMAIN retainedRoots' = D \cup A
      /\ \A a \in D : /\ retainedRoots'[a].bytes = retainedRoots[a].bytes
                       /\ retainedRoots'[a].references
                             = retainedRoots[a].references + (IF a \in A THEN 1 ELSE 0)
                       /\ retainedRoots'[a] \in [references : Nat, bytes : Nat]
  BY <1>1 DEF RootsWith, BytesInv, ReferencesInv
<1>9. ASSUME NEW p \in P
      PROVE  /\ retainedRoots'[roots[p].address].bytes = roots[p].bytes
             /\ retainedRoots'[roots[p].address].references = 1
             /\ retainedRoots'[roots[p].address] \in [references : Nat, bytes : Nat]
  <2> DEFINE a == roots[p].address
  <2>1. a \in A /\ a \notin D /\ p \in Partitions
    BY <1>5
  <2>2. \A q \in P : snapshot.roots[q].address = a => q = p
    BY <1>4, <1>5 DEF BytesInv, RootsApart
  <2>3. (CHOOSE q \in P : snapshot.roots[q].address = a) = p
    BY <1>4, <2>2
  <2>4. retainedRoots'[a] = [references |-> 1, bytes |-> snapshot.roots[p].bytes]
    BY <1>1, <2>1, <2>3 DEF RootsWith
  <2>5. roots[p].bytes \in Nat
    BY <2>1 DEF BytesInv, WeightsInv
  <2> QED BY <1>4, <2>4, <2>5
<1>10. ASSUME NEW a PROVE Users(a)' = IF a \in A THEN Users(a) \cup {n + 1} ELSE Users(a)
  <2>1. Users(a)' = {i \in 1 .. n + 1 : a \in AddressesOf(entries'[i].snapshot)}
    BY <1>6 DEF Users, AddressesOf
  <2> QED BY <1>4, <1>6, <1>7, <2>1 DEF Users
<1>11. RootsApart'
  BY <1>1 DEF BytesInv, RootsApart
<1>12. WeightsInv'
  <2>1. ASSUME NEW p \in Partitions
        PROVE  /\ roots[p].address \in DOMAIN retainedRoots'
               /\ retainedRoots'[roots[p].address].bytes = roots[p].bytes
    BY <1>5, <1>8, <1>9 DEF BytesInv, WeightsInv
  <2>2. ASSUME NEW i \in 1 .. n + 1
        PROVE  /\ entries'[i].bytes \in Nat
               /\ \A p \in Partitions :
                     /\ entries'[i].snapshot.roots[p].address \in DOMAIN retainedRoots'
                     /\ retainedRoots'[entries'[i].snapshot.roots[p].address].bytes
                           = entries'[i].snapshot.roots[p].bytes
    <3>1. CASE i = n + 1
      BY <1>3, <1>4, <1>6, <2>1, <3>1
    <3>2. CASE i \in 1 .. n
      BY <1>6, <1>8, <3>2 DEF BytesInv, WeightsInv
    <3> QED BY <1>7, <3>1, <3>2
  <2>3. \A p \in Partitions : roots'[p].bytes \in Nat
    BY <1>1 DEF BytesInv, WeightsInv
  <2>4. \A p \in Partitions : roots'[p].address \in DOMAIN retainedRoots' =>
                                 retainedRoots'[roots'[p].address].bytes = roots'[p].bytes
    BY <1>1, <2>1
  <2> QED BY <1>6, <2>2, <2>3, <2>4 DEF WeightsInv
<1>13. ReferencesInv'
  <2>1. ASSUME NEW a \in D
        PROVE  /\ retainedRoots'[a] \in [references : Nat, bytes : Nat] /\ Users(a)' # {}
               /\ retainedRoots'[a].references = Cardinality(Users(a)')
    <3>1. /\ Users(a) # {}
          /\ retainedRoots[a].references = Cardinality(Users(a))
      BY DEF BytesInv, ReferencesInv
    <3>2. IsFiniteSet(Users(a)) /\ n + 1 \notin Users(a)
      BY <1>7, FS_Subset DEF Users
    <3>3. /\ Cardinality(Users(a) \cup {n + 1}) = Cardinality(Users(a)) + 1
          /\ Cardinality(Users(a)) \in Nat
      BY <3>2, FS_AddElement, FS_CardinalityType
    <3>4. CASE a \in A
      BY <1>8, <1>10, <3>1, <3>3, <3>4
    <3>5. CASE a \notin A
      BY <1>8, <1>10, <3>1, <3>3, <3>5
    <3> QED BY <3>4, <3>5
  <2>2. ASSUME NEW a \in A, a \notin D
        PROVE  /\ retainedRoots'[a] \in [references : Nat, bytes : Nat] /\ Users(a)' # {}
               /\ retainedRoots'[a].references = Cardinality(Users(a)')
    <3>1. PICK p \in P : a = roots[p].address
      BY <1>5, <2>2
    <3>2. /\ retainedRoots'[a] \in [references : Nat, bytes : Nat]
          /\ retainedRoots'[a].references = 1
      BY <1>9, <3>1
    <3>3. Users(a) = {}
      BY <2>2 DEF Users, AddressesOf, BytesInv, WeightsInv
    <3>4. Users(a)' = {n + 1}
      BY <1>10, <3>3
    <3> QED BY <3>2, <3>4, FS_Singleton
  <2> QED BY <1>8, <2>1, <2>2 DEF ReferencesInv
<1>14. TotalInv'
  <2> DEFINE f == EntryBytes
             g == EntryBytes'
             r == RootBytes
             s == RootBytes'
             h == [p \in Partitions |-> roots[p].address]
             b == [p \in Partitions |-> roots[p].bytes]
             N == {h[p] : p \in P}
  <2>1. /\ \A i \in 1 .. n : f[i] = entries[i].bytes /\ g[i] = f[i] /\ g[i] \in Nat
        /\ g[n + 1] = work[w].bytes
    <3>1. DOMAIN entries' = 1 .. n + 1
      BY <1>6
    <3>2. \A i \in 1 .. n + 1 : g[i] = entries'[i].bytes
      BY <3>1 DEF EntryBytes
    <3>3. \A i \in 1 .. n : f[i] = entries[i].bytes /\ entries[i].bytes \in Nat
      BY <1>2 DEF EntryBytes, BytesInv, WeightsInv
    <3> QED BY <1>4, <1>6, <1>7, <3>2, <3>3
  <2>2. /\ \A a \in D : r[a] = retainedRoots[a].bytes /\ s[a] = r[a] /\ s[a] \in Nat
        /\ \A p \in P : s[h[p]] = b[p] /\ b[p] \in Nat
    <3>1. \A a \in D \cup A : s[a] = retainedRoots'[a].bytes
      BY <1>8 DEF RootBytes
    <3>2. \A a \in D : r[a] = retainedRoots[a].bytes /\ retainedRoots[a].bytes \in Nat
      BY DEF RootBytes, BytesInv, ReferencesInv
    <3>3. \A p \in P : h[p] \in A /\ h[p] = roots[p].address /\ b[p] = roots[p].bytes
                        /\ b[p] \in Nat
      BY <1>5 DEF BytesInv, WeightsInv
    <3> HIDE DEF s, r, h, b
    <3> QED BY <1>8, <1>9, <3>1, <3>2, <3>3
  <2>3. IsFiniteSet(D) /\ IsFiniteSet(P)
    BY <1>5, StoreAssumption, FS_Subset DEF BytesInv, TotalInv
  <2>4. \A p, q \in P : h[p] = h[q] => p = q
    BY <1>5 DEF BytesInv, RootsApart
  <2>5. IsFiniteSet(N) /\ D \cap N = {} /\ DOMAIN retainedRoots' = D \cup N
    <3>1. D \cap N = {} /\ D \cup A = D \cup N
      BY <1>5
    <3> HIDE DEF h
    <3> QED BY <1>8, <2>3, <2>4, <3>1, InjectiveImage
  <2>6. /\ retainedBytes = SumFunctionOnSet(f, 1 .. n) + SumFunctionOnSet(r, D)
        /\ retainedBytes' = retainedBytes + work[w].bytes + SumFunctionOnSet(b, P)
    BY <1>1, <1>4 DEF BytesInv, TotalInv, BytesWith
  <2>7. retainedBytes' = SumFunctionOnSet(g, 1 .. n + 1) + SumFunctionOnSet(s, D \cup N)
    <3> HIDE DEF f, g, r, s, h, b, D, P
    <3>1. SumFunctionOnSet(f, 1 .. n) = SumFunctionOnSet(g, 1 .. n)
      BY <1>7, <2>1, SumSame
    <3>2. SumFunctionOnSet(g, 1 .. n + 1) = work[w].bytes + SumFunctionOnSet(g, 1 .. n)
      <4>1. SumFunctionOnSet(g, (1 .. n) \cup {n + 1})
              = g[n + 1] + SumFunctionOnSet(g, 1 .. n)
        <5>1. g[n + 1] \in Nat /\ \A i \in 1 .. n : g[i] \in Nat
          BY <1>3, <2>1
        <5> QED BY <1>7, <5>1, SumAdd
      <4> QED BY <1>7, <2>1, <4>1
    <3>3. SumFunctionOnSet(r, D) = SumFunctionOnSet(s, D)
      BY <2>2, <2>3, SumSame
    <3>4. \A a \in D \cup N : s[a] \in Nat
      BY <2>2
    <3>5. SumFunctionOnSet(b, P) = SumFunctionOnSet(s, N)
      BY <2>2, <2>3, <2>4, SumReindex
    <3> HIDE DEF N
    <3>6. SumFunctionOnSet(s, D \cup N) = SumFunctionOnSet(s, D) + SumFunctionOnSet(s, N)
      BY <2>3, <2>5, <3>4, SumUnion
    <3>7. /\ SumFunctionOnSet(g, 1 .. n) \in Nat /\ SumFunctionOnSet(s, D) \in Nat
          /\ SumFunctionOnSet(s, N) \in Nat
      BY <1>7, <2>1, <2>3, <2>5, <3>4, SumIsNat
    <3> QED BY <1>3, <2>6, <3>1, <3>2, <3>3, <3>5, <3>6, <3>7
  <2>8. IsFiniteSet(DOMAIN retainedRoots')
    <3> HIDE DEF D, N
    <3>1. IsFiniteSet(D \cup N)
      BY <2>3, <2>5, FS_Union
    <3> QED BY <2>5, <3>1
  <2> QED BY <1>6, <2>5, <2>7, <2>8 DEF TotalInv
<1> QED BY <1>11, <1>12, <1>13, <1>14 DEF BytesInv

\* A released entry takes its bytes along, and those of the roots that only it
\* used; the saturating subtraction never saturates.
LEMMA TrimAccounts ==
    ASSUME LogInv, BytesInv, NEW w \in Writers, TrimFront(w)
    PROVE  BytesInv'
<1> DEFINE e == Head(entries)
           n == Len(entries)
           D == DOMAIN retainedRoots
           A == AddressesOf(e.snapshot)
           G == Unreferenced(e)
<1>1. /\ entries # << >> /\ entries' = Tail(entries) /\ roots' = roots
      /\ retainedRoots' = [a \in D \ G |-> IF a \in A
                                 THEN [retainedRoots[a] EXCEPT !.references = @ - 1]
                                 ELSE retainedRoots[a]]
      /\ retainedBytes' = SaturatingSub(retainedBytes,
                              e.bytes + SumFunctionOnSet(RootBytes, G))
  BY DEF TrimFront, stateVars
<1>2. n \in Nat /\ entries = [i \in 1 .. n |-> entries[i]] /\ DOMAIN entries = 1 .. n
  BY EmptyWindow DEF LogInv, WindowInv
<1>3. /\ n > 0 /\ Len(entries') = n - 1
      /\ entries' = [i \in 1 .. n - 1 |-> entries'[i]]
      /\ \A i \in 1 .. n - 1 : entries'[i] = entries[i + 1]
  BY <1>1, <1>2, TailWindow
<1>4. e = entries[1]
  BY <1>1, <1>2
<1>5. /\ \A i \in 1 .. n - 1 : i + 1 \in 1 .. n /\ i + 1 # 1
      /\ \A i \in 1 .. n : i # 1 => i - 1 \in 1 .. n - 1 /\ (i - 1) + 1 = i
      /\ 1 \in 1 .. n /\ n - 1 \in Nat
  BY <1>2, <1>3
<1>6. IsFiniteSet(1 .. n) /\ IsFiniteSet(1 .. n - 1) /\ IsFiniteSet(D) /\ G \subseteq D
  <2>1. IsFiniteSet(1 .. n) /\ IsFiniteSet(1 .. n - 1)
    BY <1>2, <1>5, IntervalGrows
  <2> QED BY <2>1 DEF BytesInv, TotalInv, Unreferenced
<1> HIDE DEF e
<1>7. ASSUME NEW a
      PROVE  /\ IsFiniteSet(Users(a)) /\ IsFiniteSet(Users(a)') /\ Cardinality(Users(a)) \in Nat
             /\ a \in A <=> 1 \in Users(a)
             /\ Cardinality(Users(a)') = Cardinality(Users(a)) - (IF a \in A THEN 1 ELSE 0)
  <2>1. Users(a)' = {i \in 1 .. n - 1 : a \in AddressesOf(entries'[i].snapshot)}
    BY <1>3 DEF Users, AddressesOf
  <2>2. Users(a)' = {i \in 1 .. n - 1 : i + 1 \in Users(a)}
    BY <1>3, <1>5, <2>1 DEF Users
  <2>3. a \in A <=> 1 \in Users(a)
    BY <1>4, <1>5 DEF Users
  <2>4. IsFiniteSet(Users(a)) /\ IsFiniteSet(Users(a)')
    BY <1>6, <2>2, FS_Subset DEF Users
  <2> DEFINE h == [i \in 1 .. n - 1 |-> i + 1]
             V == Users(a)'
  <2>5. V \subseteq 1 .. n - 1 /\ \A i, j \in V : h[i] = h[j] => i = j
    BY <1>2, <2>2
  <2>6. {h[i] : i \in V} = Users(a) \ {1}
    <3>1. \A i \in V : h[i] = i + 1 /\ h[i] \in Users(a) \ {1}
      BY <1>5, <2>2
    <3>2. ASSUME NEW j \in Users(a) \ {1}
          PROVE  \E i \in V : h[i] = j
      <4>1. j - 1 \in 1 .. n - 1 /\ (j - 1) + 1 = j
        BY <1>5 DEF Users
      <4>2. j - 1 \in V /\ h[j - 1] = j
        BY <2>2, <4>1
      <4> QED BY <4>2
    <3> HIDE DEF h, V
    <3> QED BY <3>1, <3>2
  <2>7. Cardinality(Users(a) \ {1}) = Cardinality(V)
    <3> HIDE DEF h, V
    <3>1. IsFiniteSet(V)
      BY <2>4 DEF V
    <3>2. Cardinality({h[i] : i \in V}) = Cardinality(V)
      BY <2>5, <3>1, InjectiveImage
    <3> QED BY <2>6, <3>2
  <2>8. /\ Cardinality(Users(a) \ {1})
             = IF 1 \in Users(a) THEN Cardinality(Users(a)) - 1 ELSE Cardinality(Users(a))
        /\ Cardinality(Users(a)) \in Nat
    BY <2>4, FS_RemoveElement, FS_CardinalityType
  <2> QED BY <2>3, <2>4, <2>7, <2>8
<1>8. \A a \in D : a \in G <=> Users(a)' = {}
  <2> SUFFICES ASSUME NEW a \in D PROVE a \in G <=> Users(a)' = {}
    OBVIOUS
  <2>1. /\ Users(a) # {} /\ retainedRoots[a].references = Cardinality(Users(a))
    BY DEF BytesInv, ReferencesInv
  <2>2. a \in G <=> a \in A /\ Cardinality(Users(a)) = 1
    BY <2>1 DEF Unreferenced
  <2>3. Users(a)' = {} <=> Cardinality(Users(a)') = 0
    BY <1>7, FS_EmptySet
  <2>4. Cardinality(Users(a)) # 0
    BY <1>7, <2>1, FS_EmptySet
  <2> QED BY <1>7, <2>2, <2>3, <2>4
<1>9. /\ DOMAIN retainedRoots' = D \ G
      /\ \A a \in D \ G : retainedRoots'[a].bytes = retainedRoots[a].bytes
  <2>1. ASSUME NEW a \in D \ G PROVE retainedRoots'[a].bytes = retainedRoots[a].bytes
    BY <1>1
  <2> QED BY <1>1, <2>1
<1>10. RootsApart'
  BY <1>1 DEF BytesInv, RootsApart
<1>11. WeightsInv'
  <2>1. ASSUME NEW i \in 1 .. n - 1
        PROVE  /\ entries'[i].bytes \in Nat
               /\ \A p \in Partitions :
                     /\ entries'[i].snapshot.roots[p].address \in DOMAIN retainedRoots'
                     /\ retainedRoots'[entries'[i].snapshot.roots[p].address].bytes
                           = entries'[i].snapshot.roots[p].bytes
    <3>1. /\ entries'[i].bytes \in Nat
          /\ \A p \in Partitions :
                /\ entries'[i].snapshot.roots[p].address \in D
                /\ retainedRoots[entries'[i].snapshot.roots[p].address].bytes
                      = entries'[i].snapshot.roots[p].bytes
      BY <1>3, <1>5 DEF BytesInv, WeightsInv
    <3>2. ASSUME NEW p \in Partitions, NEW a, a = entries'[i].snapshot.roots[p].address
          PROVE  i \in Users(a)'
      BY <1>3, <3>2 DEF Users, AddressesOf
    <3> QED BY <1>8, <1>9, <3>1, <3>2
  <2>2. \A p \in Partitions : roots'[p].bytes \in Nat
    BY <1>1 DEF BytesInv, WeightsInv
  <2>3. \A p \in Partitions : roots'[p].address \in DOMAIN retainedRoots' =>
                                 retainedRoots'[roots'[p].address].bytes = roots'[p].bytes
    BY <1>1, <1>9 DEF BytesInv, WeightsInv
  <2> QED BY <1>3, <2>1, <2>2, <2>3 DEF WeightsInv
<1>12. ReferencesInv'
  <2>1. ASSUME NEW a \in D \ G
        PROVE  /\ retainedRoots'[a] \in [references : Nat, bytes : Nat] /\ Users(a)' # {}
               /\ retainedRoots'[a].references = Cardinality(Users(a)')
    <3>1. /\ retainedRoots[a] \in [references : Nat, bytes : Nat]
          /\ retainedRoots[a].references = Cardinality(Users(a))
          /\ Cardinality(Users(a)') \in Nat
      BY <1>7, FS_CardinalityType DEF BytesInv, ReferencesInv
    <3>2. retainedRoots'[a] = IF a \in A
                              THEN [retainedRoots[a] EXCEPT !.references = @ - 1]
                              ELSE retainedRoots[a]
      BY <1>1
    <3>3. retainedRoots'[a].references = Cardinality(Users(a)')
      BY <1>7, <3>1, <3>2
    <3>4. retainedRoots'[a] \in [references : Nat, bytes : Nat]
      BY <3>1, <3>2, <3>3
    <3> QED BY <1>8, <3>3, <3>4
  <2> QED BY <1>9, <2>1 DEF ReferencesInv
<1>13. TotalInv'
  <2> DEFINE f == EntryBytes
             g == EntryBytes'
             r == RootBytes
             s == RootBytes'
             h == [i \in 1 .. n - 1 |-> i + 1]
             R == 2 .. n
  <2>1. /\ \A i \in 1 .. n : f[i] = entries[i].bytes /\ f[i] \in Nat
        /\ \A i \in 1 .. n - 1 : g[i] = f[h[i]] /\ g[i] \in Nat
    <3>1. \A i \in 1 .. n : f[i] = entries[i].bytes /\ f[i] \in Nat
      BY <1>2 DEF EntryBytes, BytesInv, WeightsInv
    <3>2. DOMAIN entries' = 1 .. n - 1
      BY <1>3
    <3>3. \A i \in 1 .. n - 1 : g[i] = entries'[i].bytes
      BY <3>2 DEF EntryBytes
    <3> QED BY <1>3, <1>5, <3>1, <3>3
  <2>2. /\ {h[i] : i \in 1 .. n - 1} = (1 .. n) \ {1}
        /\ \A i, j \in 1 .. n - 1 : h[i] = h[j] => i = j
    <3>1. \A i \in 1 .. n - 1 : h[i] = i + 1
      OBVIOUS
    <3>2. \A j \in (1 .. n) \ {1} : j - 1 \in 1 .. n - 1 /\ h[j - 1] = j
      BY <1>2
    <3>3. \A i, j \in 1 .. n - 1 : i + 1 = j + 1 => i = j
      BY <1>2
    <3> HIDE DEF h
    <3> QED BY <1>5, <3>1, <3>2, <3>3
  <2>3. /\ \A a \in D : r[a] = retainedRoots[a].bytes /\ r[a] \in Nat
        /\ \A a \in D \ G : s[a] = r[a]
    <3>1. \A a \in D : r[a] = retainedRoots[a].bytes /\ r[a] \in Nat
      BY DEF RootBytes, BytesInv, ReferencesInv
    <3>2. \A a \in D \ G : s[a] = retainedRoots'[a].bytes
      BY <1>9 DEF RootBytes
    <3> QED BY <1>9, <3>1, <3>2
  <2>4. /\ retainedBytes = SumFunctionOnSet(f, 1 .. n) + SumFunctionOnSet(r, D)
        /\ retainedBytes' = SaturatingSub(retainedBytes, e.bytes + SumFunctionOnSet(r, G))
        /\ f[1] = e.bytes /\ e.bytes \in Nat
    BY <1>1, <1>4, <1>5, <2>1 DEF BytesInv, TotalInv
  <2>5. IsFiniteSet(G) /\ IsFiniteSet(D \ G)
    BY <1>6, FS_Subset
  <2>6. retainedBytes' = SumFunctionOnSet(g, 1 .. n - 1) + SumFunctionOnSet(s, D \ G)
    <3> DEFINE I == 1 .. n
               J == 1 .. n - 1
    <3> HIDE DEF f, g, r, s, h, D, G, I, J
    <3>1. SumFunctionOnSet(f, I) = e.bytes + SumFunctionOnSet(f, I \ {1})
      <4>1. IsFiniteSet(I) /\ 1 \in I /\ \A i \in I : f[i] \in Nat
        BY <1>5, <1>6, <2>1 DEF I
      <4> QED BY <2>4, <4>1, SumRemove
    <3>2. SumFunctionOnSet(g, J) = SumFunctionOnSet(f, I \ {1})
      <4>1. /\ IsFiniteSet(J) /\ {h[i] : i \in J} = I \ {1}
            /\ \A i, j \in J : h[i] = h[j] => i = j
        BY <1>6, <2>2 DEF I, J
      <4>2. \A i \in J : g[i] = f[h[i]] /\ g[i] \in Nat
        BY <2>1 DEF J
      <4>3. SumFunctionOnSet(g, J) = SumFunctionOnSet(f, {h[i] : i \in J})
        BY <4>1, <4>2, SumReindex
      <4> QED BY <4>1, <4>3
    <3>3. SumFunctionOnSet(r, D \ G) = SumFunctionOnSet(s, D \ G)
      BY <2>3, <2>5, SumSame
    <3>4. SumFunctionOnSet(r, D) = SumFunctionOnSet(r, G) + SumFunctionOnSet(r, D \ G)
      <4> DEFINE E == D \ G
      <4>1. D = G \cup E /\ G \cap E = {}
        BY <1>6
      <4>2. \A a \in G \cup E : r[a] \in Nat
        BY <2>3, <4>1
      <4> HIDE DEF E
      <4>3. SumFunctionOnSet(r, G \cup E) = SumFunctionOnSet(r, G) + SumFunctionOnSet(r, E)
        BY <2>5, <4>1, <4>2, SumUnion DEF E
      <4> QED BY <4>1, <4>3 DEF E
    <3>5. SumFunctionOnSet(g, J) \in Nat
      BY <1>6, <2>1, SumIsNat DEF J
    <3>6. SumFunctionOnSet(r, G) \in Nat /\ SumFunctionOnSet(r, D \ G) \in Nat
      <4>1. (\A a \in G : r[a] \in Nat) /\ (\A a \in D \ G : r[a] \in Nat)
        BY <1>6, <2>3
      <4> QED BY <2>5, <4>1, SumIsNat
    <3>7. retainedBytes = SumFunctionOnSet(f, I) + SumFunctionOnSet(r, D)
      BY <2>4 DEF I
    <3>8. retainedBytes' = SumFunctionOnSet(g, J) + SumFunctionOnSet(s, D \ G)
      BY <2>4, <3>1, <3>2, <3>3, <3>4, <3>5, <3>6, <3>7 DEF SaturatingSub
    <3> QED BY <3>8 DEF J
  <2> QED BY <1>3, <1>9, <2>5, <2>6 DEF TotalInv
<1> QED BY <1>10, <1>11, <1>12, <1>13 DEF BytesInv

LEMMA BytesStep == LogInv /\ BytesInv /\ [Next]_vars => BytesInv'
<1> SUFFICES ASSUME LogInv, BytesInv, [Next]_vars PROVE BytesInv'
  OBVIOUS
<1>k. ASSUME UNCHANGED <<roots, entries, retainedRoots, retainedBytes>> PROVE BytesInv'
  <2>1. EntryBytes' = EntryBytes /\ RootBytes' = RootBytes /\ \A a : Users(a)' = Users(a)
    BY <1>k DEF EntryBytes, RootBytes, Users, AddressesOf
  <2> QED BY <1>k, <2>1 DEF BytesInv, RootsApart, WeightsInv, ReferencesInv, TotalInv
<1>1. ASSUME NEW w \in Writers, NEW ps \in SUBSET Partitions, NEW size \in RootSizes,
             NEW bytes, Apply(w, ps, size, bytes)
      PROVE  BytesInv'
  <2> DEFINE sizes == [p \in ps |-> size]
             changed == [p \in ps |-> revision + 1]
  <2>1. /\ CanAllocate(ps) /\ roots' = Rewritten(ps, sizes, changed)
        /\ UNCHANGED <<entries, retainedRoots, retainedBytes>>
    BY <1>1 DEF Apply, bufferVars
  <2>2. \A p \in ps : sizes[p] \in Nat
    BY SizesAssumption
  <2> HIDE DEF sizes, changed
  <2> QED BY <2>1, <2>2, RewrittenKeeps
<1>2. ASSUME NEW w \in Writers, NEW ps \in SUBSET Partitions, ApplyWithoutChange(w, ps)
      PROVE  BytesInv'
  <2> DEFINE sizes == [p \in ps |-> roots[p].bytes]
             changed == [p \in ps |-> roots[p].changed]
  <2>1. /\ CanAllocate(ps) /\ roots' = Rewritten(ps, sizes, changed)
        /\ UNCHANGED <<entries, retainedRoots, retainedBytes>>
    BY <1>2 DEF ApplyWithoutChange, bufferVars
  <2>2. \A p \in ps : sizes[p] \in Nat
    BY DEF BytesInv, WeightsInv
  <2> HIDE DEF sizes, changed
  <2> QED BY <2>1, <2>2, RewrittenKeeps
<1>3. ASSUME NEW w \in Writers, EndPush(w) PROVE BytesInv'
  BY <1>3, <1>k DEF EndPush, stateVars
<1>4. ASSUME NEW r \in Readers, Read(r) PROVE BytesInv'
  BY <1>4, <1>k DEF Read, Anchor, CursorFrom, NewCursor, CloneCursor, DropCursor, Fetch, ReportLag,
                    FetchCompat, Advance, Resync, stateVars, bufferVars
<1>5. CASE UNCHANGED vars
  BY <1>5, <1>k DEF vars, stateVars, bufferVars
<1> QED BY <1>1, <1>2, <1>3, <1>4, <1>5, PushAccounts, TrimAccounts DEF Next, Write

\* For any number of partitions and retained snapshots, whichever roots they
\* share and in whatever order entries are pushed and released, the log's
\* references and bytes are exactly those of the retained entries: nothing is
\* counted twice, released too early or kept too long (push, release_entry).
THEOREM BytesAreAccounted == Spec => []BytesAccounted
<1>1. Init => BytesInv
  <2> SUFFICES ASSUME Init PROVE BytesInv
    OBVIOUS
  <2>1. /\ entries = << >> /\ retainedBytes = 0 /\ DOMAIN retainedRoots = {}
        /\ Len(entries) = 0 /\ 1 .. 0 = {}
    BY DEF Init
  <2> DEFINE f == NewAddresses(Partitions, Addresses)
  <2>2. PICK size \in RootSizes : roots = [p \in Partitions |->
                                     [address |-> f[p], bytes |-> size, changed |-> 0]]
    BY DEF Init
  <2>3. f \in Injection(Partitions, Addresses)
    BY StoreAssumption DEF NewAddresses
  <2> HIDE DEF f
  <2>4. \A p, q \in Partitions : p # q => f[p] # f[q]
    BY <2>3 DEF Injection, IsInjective
  <2>5. RootsApart
    BY <2>2, <2>4 DEF RootsApart
  <2>6. WeightsInv /\ ReferencesInv
    BY <2>1, <2>2, SizesAssumption DEF WeightsInv, ReferencesInv
  <2>7. TotalInv
    BY <2>1, SumEmpty, FS_EmptySet DEF TotalInv
  <2> QED BY <2>5, <2>6, <2>7 DEF BytesInv
<1>2. LogInv /\ BytesInv => BytesAccounted
  BY BytesInvSuffices
<1> QED BY <1>1, <1>2, LogInvariant, BytesStep, PTL DEF Spec

-----------------------------------------------------------------------------
(* The log implements the stream *)

\* What the stream sees of a cursor.
Position(c) == IF c.at = "fetched" THEN c.fetched + 1 ELSE c.next
Positions == [r \in Readers |-> Position(cursor[r])]
OpenReaders == {r \in Readers : cursor[r].at # "none"}

\* A step that changes one cursor changes one position.
LEMMA PositionStep ==
    ASSUME LogInv, NEW r \in Readers, NEW c,
           cursor' = [cursor EXCEPT ![r] = c]
    PROVE  /\ Positions' = [Positions EXCEPT ![r] = Position(c)]
           /\ OpenReaders' = IF c.at = "none" THEN OpenReaders \ {r}
                                              ELSE OpenReaders \cup {r}
           /\ Positions[r] = Position(cursor[r])
           /\ Positions'[r] = Position(c)
           /\ r \in OpenReaders <=> cursor[r].at # "none"
<1>1. cursor \in [Readers -> Cursor]
  BY DEF LogInv, CursorInv
<1>2. cursor'[r] = c /\ \A s \in Readers : s # r => cursor'[s] = cursor[s]
  BY <1>1
<1>3. OpenReaders' = IF c.at = "none" THEN OpenReaders \ {r} ELSE OpenReaders \cup {r}
  BY <1>2 DEF OpenReaders
<1>4. \A s \in Readers : Positions'[s] = IF s = r THEN Position(c) ELSE Positions[s]
  BY <1>2 DEF Positions, Position
<1>5. Positions' = [Positions EXCEPT ![r] = Position(c)]
  BY <1>4 DEF Positions
<1> QED BY <1>3, <1>4, <1>5 DEF Positions, OpenReaders

\* A step that changes an open cursor but not where it stands changes nothing
\* the stream sees.
LEMMA PositionKept ==
    ASSUME LogInv, NEW r \in Readers, NEW c,
           cursor' = [cursor EXCEPT ![r] = c],
           Position(c) = Position(cursor[r]), c.at # "none", cursor[r].at # "none"
    PROVE  Positions' = Positions /\ OpenReaders' = OpenReaders
<1>1. Positions' = [Positions EXCEPT ![r] = Positions[r]]
  BY PositionStep
<1>2. Positions = [s \in Readers |-> Positions[s]]
  BY DEF Positions
<1> HIDE DEF Positions
<1>3. OpenReaders' = OpenReaders \cup {r} /\ r \in OpenReaders
  BY PositionStep
<1> QED BY <1>1, <1>2, <1>3

\* A writer publishes, trims, or does nothing the stream sees.
LEMMA WriteIsStreamStep ==
    ASSUME LogInv, NEW w \in Writers, Write(w)
    PROVE  Stream!StreamNext \/ UNCHANGED Stream!streamVars
<1>1. CASE Push(w)
  <2>1. head' = head + 1 /\ OldestAvailable' = OldestAvailable /\ cursor' = cursor
    BY <1>1, PushKeeps DEF Push, cursorVars
  <2> QED BY <2>1 DEF Stream!StreamNext, Stream!Publish
<1>2. CASE EndPush(w)
  <2>1. /\ head' = head /\ head \in Nat
        /\ OldestAvailable \in Nat \ {0}
        /\ OldestAvailable' \in OldestAvailable .. head + 1
    BY <1>2, EndPushKeeps DEF LogInv, GateInv
  <2>2. cursor' = cursor
    BY <1>2 DEF EndPush, cursorVars
  <2>3. OldestAvailable' - 1 \in (OldestAvailable - 1) .. head
    <3>1. ASSUME NEW a \in Nat, NEW h \in Nat, NEW b \in a .. h + 1
          PROVE  b - 1 \in (a - 1) .. h
      OBVIOUS
    <3> QED BY <2>1, <3>1
  <2> QED BY <2>1, <2>2, <2>3 DEF Stream!StreamNext, Stream!Trim
<1>3. CASE \/ TrimFront(w)
           \/ \E ps \in SUBSET Partitions \ {{}} :
                 \/ \E size \in RootSizes, bytes \in CommitSizes : Apply(w, ps, size, bytes)
                 \/ ApplyWithoutChange(w, ps)
  <2>1. UNCHANGED <<head, first, cursor>>
    BY <1>3 DEF TrimFront, Apply, ApplyWithoutChange, bufferVars, cursorVars
  <2>2. OldestAvailable' = OldestAvailable
    BY <2>1 DEF OldestAvailable
  <2> QED BY <2>1, <2>2 DEF Stream!streamVars
<1> QED BY <1>1, <1>2, <1>3 DEF Write

\* A reader opens or closes a cursor, takes the revision it expects, skips to
\* the end because that one is lost, or does nothing the stream sees.
LEMMA ReadIsStreamStep ==
    ASSUME LogInv, NEW r \in Readers, Read(r)
    PROVE  Stream!StreamNext \/ UNCHANGED Stream!streamVars
<1> DEFINE Mapped == UNCHANGED <<head, OldestAvailable>>
<1>0. /\ cursor[r] \in Cursor
      /\ cursor[r].next \in Nat
      /\ head \in Nat
      /\ head + 1 \in Nat
  BY DEF LogInv, GateInv, CursorInv, Cursor
<1>a. Mapped
  BY DEF Read, Anchor, CursorFrom, NewCursor, CloneCursor, DropCursor, Fetch, ReportLag,
         FetchCompat, Advance, Resync, bufferVars, OldestAvailable
<1>b. Positions = [x \in Readers |-> IF cursor[x].at = "fetched"
                                     THEN cursor[x].fetched + 1 ELSE cursor[x].next]
  BY DEF Positions, Position
<1>c. Positions' = [x \in Readers |-> IF cursor'[x].at = "fetched"
                                      THEN cursor'[x].fetched + 1 ELSE cursor'[x].next]
  BY DEF Positions, Position
<1>d. OpenReaders = {x \in Readers : cursor[x].at # "none"}
  BY DEF OpenReaders
<1>e. OpenReaders' = {x \in Readers : cursor'[x].at # "none"}
  BY DEF OpenReaders
<1>opened. ASSUME NEW x \in Readers, x \notin OpenReaders, OpenReaders' = OpenReaders \cup {x},
                  Positions'[x] \in Nat, Positions' = [Positions EXCEPT ![x] = Positions'[x]]
           PROVE  Stream!StreamNext
  BY <1>opened, <1>a, <1>b, <1>c, <1>d, <1>e DEF Stream!StreamNext, Stream!Open
<1>same. ASSUME Positions' = Positions, OpenReaders' = OpenReaders
         PROVE  UNCHANGED Stream!streamVars
  BY <1>same, <1>a, <1>b, <1>c, <1>d, <1>e DEF Stream!streamVars
<1>1. CASE Anchor(r)
  <2> DEFINE c == [NoCursor EXCEPT !.at = "anchored", !.next = head + 1]
  <2>1. cursor' = [cursor EXCEPT ![r] = c] /\ cursor[r].at = "none"
    BY <1>1 DEF Anchor
  <2>2. c.at = "anchored" /\ Position(c) = head + 1
    BY DEF NoCursor, Position
  <2> HIDE DEF c
  <2>3. r \notin OpenReaders
    BY <2>1 DEF OpenReaders
  <2>4. OpenReaders' = OpenReaders \cup {r}
    BY <2>1, <2>2, PositionStep
  <2>5. Positions' = [Positions EXCEPT ![r] = Position(c)] /\ Positions'[r] = Position(c)
    BY <2>1, PositionStep
  <2>6. Positions'[r] \in Nat
    BY <1>0, <2>2, <2>5
  <2>7. Positions' = [Positions EXCEPT ![r] = Positions'[r]]
    BY <2>5
  <2> QED BY <1>opened, <2>3, <2>4, <2>6, <2>7
<1>2. CASE \E n \in 1 .. MaxRevision + 1 : CursorFrom(r, n)
  <2>0. PICK n \in 1 .. MaxRevision + 1 : CursorFrom(r, n)
    BY <1>2
  <2> DEFINE c == [NoCursor EXCEPT !.at = "anchored", !.next = n]
  <2>1. cursor' = [cursor EXCEPT ![r] = c] /\ cursor[r].at = "none"
    BY <2>0 DEF CursorFrom
  <2>2. c.at = "anchored" /\ Position(c) = n /\ n \in Nat
    BY SizesAssumption DEF NoCursor, Position
  <2> HIDE DEF c
  <2> QED BY <1>opened, <2>1, <2>2, PositionStep
<1>3. CASE NewCursor(r)
  <2> DEFINE c == [cursor[r] EXCEPT !.at = "ready", !.id = nextCursorId]
  <2>1. cursor' = [cursor EXCEPT ![r] = c] /\ cursor[r].at = "anchored"
    BY <1>3 DEF NewCursor
  <2>2. c.at = "ready" /\ Position(c) = Position(cursor[r])
    BY <1>0, <2>1 DEF Cursor, Position
  <2> HIDE DEF c
  <2>3. Positions' = Positions /\ OpenReaders' = OpenReaders
    BY <2>1, <2>2, PositionKept
  <2> QED BY <1>same, <2>3
<1>4. CASE \E s \in Readers : CloneCursor(r, s)
  <2>0. PICK s \in Readers : CloneCursor(r, s)
    BY <1>4
  <2>1. /\ cursor[r].at = "ready"
        /\ cursor[s].at = "none"
        /\ cursor' = [cursor EXCEPT ![s] = cursor[r]]
    BY <2>0 DEF CloneCursor
  <2>2. Position(cursor[r]) \in Nat
    BY <1>0, <2>1 DEF Position
  <2> QED BY <1>opened, <2>1, <2>2, PositionStep
<1>5. CASE DropCursor(r)
  <2>1. cursor' = [cursor EXCEPT ![r] = NoCursor] /\ cursor[r].at = "ready"
    BY <1>5 DEF DropCursor
  <2>2. NoCursor.at = "none" /\ Position(NoCursor) = 0
    BY DEF NoCursor, Position
  <2>3. /\ r \in OpenReaders
        /\ OpenReaders' = OpenReaders \ {r}
        /\ Positions' = [Positions EXCEPT ![r] = 0]
    BY <2>1, <2>2, PositionStep
  <2> QED BY <1>a, <1>b, <1>c, <1>d, <1>e, <2>3 DEF Stream!StreamNext, Stream!Close
<1>6. CASE Fetch(r)
  <2> DEFINE n == cursor[r].next
             c == [cursor[r] EXCEPT !.at = "fetched",
                                    !.fetched = entries[n - first + 1].revision]
  <2>1. /\ cursor' = [cursor EXCEPT ![r] = c]
        /\ cursor[r].at \in {"ready", "lagged"}
        /\ ~locked /\ Found(n)
    BY <1>6 DEF Fetch
  <2>2. /\ entries[n - first + 1].revision = n
        /\ n \in OldestAvailable .. head
        /\ OldestAvailable \in 1 .. head + 1
    BY <1>0, <2>1, LookupFacts
  <2>3. c.at = "fetched" /\ Position(c) = n + 1 /\ Position(cursor[r]) = n
    BY <1>0, <2>1, <2>2 DEF Cursor, Position
  <2> HIDE DEF c
  <2>4. /\ r \in OpenReaders
        /\ OpenReaders' = OpenReaders
        /\ Positions[r] = n
        /\ Positions' = [Positions EXCEPT ![r] = n + 1]
    <3>1. r \in OpenReaders
      BY <2>1 DEF OpenReaders
    <3>2. OpenReaders' = OpenReaders
      <4>1. OpenReaders' = OpenReaders \cup {r}
        BY <2>1, <2>3, PositionStep
      <4> QED BY <3>1, <4>1
    <3>3. Positions[r] = n
      BY <2>3 DEF Positions
    <3>4. Positions' = [Positions EXCEPT ![r] = Position(c)]
      BY <2>1, PositionStep
    <3> QED BY <2>3, <3>1, <3>2, <3>3, <3>4
  <2>5. n \in (OldestAvailable - 1) + 1 .. head
    BY <1>0, <2>2
  <2>6. Positions' = [Positions EXCEPT ![r] = Positions[r] + 1]
    BY <2>4
  <2> HIDE DEF n
  <2> QED BY <1>a, <1>b, <1>c, <1>d, <1>e, <2>4, <2>5, <2>6
          DEF Stream!StreamNext, Stream!Deliver
<1>7. CASE ReportLag(r) \/ FetchCompat(r)
  <2>0. PICK a \in {"lagged", "resync"} :
             cursor' = [cursor EXCEPT ![r] = [cursor[r] EXCEPT !.at = a]]
    BY <1>7 DEF ReportLag, FetchCompat
  <2> DEFINE c == [cursor[r] EXCEPT !.at = a]
  <2>1. cursor[r].at = "ready"
    BY <1>7 DEF ReportLag, FetchCompat
  <2>2. c.at # "none" /\ Position(c) = Position(cursor[r])
    BY <1>0, <2>1 DEF Cursor, Position
  <2>3. cursor' = [cursor EXCEPT ![r] = c]
    BY <2>0
  <2> HIDE DEF c
  <2>4. Positions' = Positions /\ OpenReaders' = OpenReaders
    BY <2>1, <2>2, <2>3, PositionKept
  <2> QED BY <1>same, <2>4
<1>8. CASE Advance(r)
  <2> DEFINE c == [cursor[r] EXCEPT !.at = "ready", !.next = cursor[r].fetched + 1,
                                    !.fetched = 0]
  <2>1. cursor' = [cursor EXCEPT ![r] = c] /\ cursor[r].at = "fetched"
    BY <1>8 DEF Advance
  <2>2. c.at = "ready" /\ Position(c) = Position(cursor[r])
    BY <1>0, <2>1 DEF Cursor, Position
  <2> HIDE DEF c
  <2>3. Positions' = Positions /\ OpenReaders' = OpenReaders
    BY <2>1, <2>2, PositionKept
  <2> QED BY <1>same, <2>3
<1>9. CASE Resync(r)
  <2> DEFINE c == [cursor[r] EXCEPT !.at = "ready", !.next = head + 1]
  <2>1. cursor' = [cursor EXCEPT ![r] = c] /\ cursor[r].at \in {"lagged", "resync"} /\ ~locked
    BY <1>9 DEF Resync
  <2>2. c.at = "ready" /\ Position(c) = head + 1 /\ Position(cursor[r]) = cursor[r].next
    BY <1>0, <2>1 DEF Cursor, Position
  <2>3. cursor[r].next <= OldestAvailable - 1
    <3>1. cursor[r].next < OldestAvailable
      BY <2>1 DEF LogInv, CursorInv
    <3>2. OldestAvailable \in 1 .. head + 1
      BY <1>0, <2>1, LookupFacts
    <3> QED BY <1>0, <3>1, <3>2
  <2> HIDE DEF c
  <2>4. /\ r \in OpenReaders
        /\ OpenReaders' = OpenReaders
        /\ Positions[r] = cursor[r].next
        /\ Positions' = [Positions EXCEPT ![r] = head + 1]
    <3>1. r \in OpenReaders
      BY <2>1 DEF OpenReaders
    <3>2. OpenReaders' = OpenReaders
      <4>1. OpenReaders' = OpenReaders \cup {r}
        BY <2>1, <2>2, PositionStep
      <4> QED BY <3>1, <4>1
    <3>3. Positions[r] = cursor[r].next
      BY <2>2 DEF Positions
    <3>4. Positions' = [Positions EXCEPT ![r] = Position(c)]
      BY <2>1, PositionStep
    <3> QED BY <2>2, <3>1, <3>2, <3>3, <3>4
  <2> QED BY <1>a, <1>b, <1>c, <1>d, <1>e, <2>3, <2>4
          DEF Stream!StreamNext, Stream!SkipToEnd
<1> QED BY <1>1, <1>2, <1>3, <1>4, <1>5, <1>6, <1>7, <1>8, <1>9 DEF Read

\* The bounded log with its locks, trimming and two-step cursor operations
\* gives every consumer the stream of CommitStream.
THEOREM LogImplementsStream == Spec => ImplementsStream
<1>1. Init => Stream!StreamInit
  BY DEF Init, Stream!StreamInit, OldestAvailable, NoCursor
<1>2. LogInv /\ [Next]_vars => [Stream!StreamNext]_(Stream!streamVars)
  <2> SUFFICES ASSUME LogInv, [Next]_vars
               PROVE  Stream!StreamNext \/ UNCHANGED Stream!streamVars
    OBVIOUS
  <2>1. CASE UNCHANGED vars
    <3>1. UNCHANGED <<head, first, cursor>>
      BY <2>1 DEF vars, bufferVars, cursorVars
    <3> QED BY <3>1 DEF Stream!streamVars, OldestAvailable
  <2> QED BY <2>1, WriteIsStreamStep, ReadIsStreamStep DEF Next
<1> QED BY <1>1, <1>2, LogInvariant, PTL
        DEF Spec, ImplementsStream, Stream!StreamSpec
=============================================================================
