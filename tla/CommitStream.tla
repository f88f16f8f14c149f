---------------------------- MODULE CommitStream ----------------------------
(***************************************************************************)
(* What the commit log promises each consumer, with no word on retention,  *)
(* locks or snapshots: one stream of revisions, published in order, and    *)
(* cursors that take the next revision of the stream or, when that one is  *)
(* no longer kept, skip to its end.  A cursor never goes back, never       *)
(* repeats a revision and never passes over one in any other way.          *)
(***************************************************************************)
EXTENDS Naturals

CONSTANT Readers

VARIABLES published,   \* the number of revisions published so far
          lost,        \* revisions up to this one are no longer kept
          open,        \* the readers that hold a cursor
          position     \* the next revision of each reader's cursor

streamVars == <<published, lost, open, position>>

StreamInit ==
    /\ published = 0
    /\ lost = 0
    /\ open = {}
    /\ position = [r \in Readers |-> 0]

\* The writer publishes the next revision.
Publish ==
    /\ published' = published + 1
    /\ UNCHANGED <<lost, open, position>>

\* Some of the oldest revisions are given up, whoever has read them.
Trim ==
    /\ lost' \in lost .. published
    /\ UNCHANGED <<published, open, position>>

\* A reader obtains a cursor: at the end of the stream, where another cursor
\* stands, or at any revision it names.
Open(r) ==
    /\ r \notin open
    /\ open' = open \cup {r}
    /\ position'[r] \in Nat
    /\ position' = [position EXCEPT ![r] = position'[r]]
    /\ UNCHANGED <<published, lost>>

\* A reader gives its cursor up.
Close(r) ==
    /\ r \in open
    /\ open' = open \ {r}
    /\ position' = [position EXCEPT ![r] = 0]
    /\ UNCHANGED <<published, lost>>

\* A reader takes the revision it expects.
Deliver(r) ==
    /\ r \in open
    /\ position[r] \in lost + 1 .. published
    /\ position' = [position EXCEPT ![r] = position[r] + 1]
    /\ UNCHANGED <<published, lost, open>>

\* A reader whose revision is lost continues after the end.
SkipToEnd(r) ==
    /\ r \in open
    /\ position[r] <= lost
    /\ position' = [position EXCEPT ![r] = published + 1]
    /\ UNCHANGED <<published, lost, open>>

StreamNext ==
    \/ Publish
    \/ Trim
    \/ \E r \in Readers : Open(r) \/ Close(r) \/ Deliver(r) \/ SkipToEnd(r)

StreamSpec == StreamInit /\ [][StreamNext]_streamVars
=============================================================================
