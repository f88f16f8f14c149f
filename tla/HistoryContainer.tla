-------------------------- MODULE HistoryContainer --------------------------
(***************************************************************************)
(* One partition of the history cache: a file of the common container      *)
(* format (history_container.rs) as the daily Kline cache writes and reads *)
(* it (daily_kline_cache.rs, daily_kline_cache/container.rs), published    *)
(* and detached with the primitives of cache_file.rs.                      *)
(*                                                                         *)
(* A container holds immutable data blocks and indexes, appended one after *)
(* the other, and two commit slots in its header.  A commit appends blocks *)
(* and an index, syncs, and then overwrites the slot of its generation's   *)
(* parity.  A file is modelled by its slots and the sequence of its cells, *)
(* one cell per block or index; an offset is a position in the sequence.   *)
(* A checksum is modelled by the value it was taken of: it matches when    *)
(* the cell still holds that value.                                        *)
(*                                                                         *)
(* Every file has two contents, the one the processes see (the page cache) *)
(* and the one on disk; they differ until the file is synced, and after a  *)
(* machine crash the file holds any mixture of the two.  The directory     *)
(* entry of the partition is treated in the same way.                      *)
(***************************************************************************)
EXTENDS Naturals, SequencesExt

CONSTANTS Ranges,        \* the time ranges of the partition, 1..n in time order
          Inodes,        \* files that can exist at the same time, 1..n
          Readers,
          CompactAt,     \* blocks at which a container is rewritten (64 in the code)
          FsyncCoversName, \* does syncing a file make the entry that names it durable?
          MaxStores,     \* bound: stores attempted
          MaxRepairs,    \* bound: explicit purges, index preparations and hard links
          MaxCrashes,    \* bound: machine crashes
          MaxAborts,     \* bound: writers that fail or are killed
          None

ASSUME BoundsAssumption ==
    /\ Ranges \subseteq Nat \ {0} /\ IsFiniteSet(Ranges)
    /\ Inodes \subseteq Nat \ {0}
    /\ CompactAt \in Nat \ {0} /\ FsyncCoversName \in BOOLEAN
    /\ {MaxStores, MaxRepairs, MaxCrashes, MaxAborts} \subseteq Nat

VARIABLES vol,       \* [Inodes -> file], what the processes see
          dur,       \* [Inodes -> file], what is on disk
          path,      \* the inode the partition's path names
          durPath,   \* the inode it names on disk
          alias,     \* an inode another hard link names as well
          kept,      \* the bytes of alias when the link was made
          writer,    \* the process that holds the partition's exclusive lock
          reader,    \* [Readers -> what the reader has opened]
          commits,   \* the contents committed so far, the newest last
          acked,     \* how many of them a caller was told are stored
          used       \* how much of each bound is spent

vars == <<vol, dur, path, durPath, alias, kept, writer, reader, commits, acked, used>>

-----------------------------------------------------------------------------
(* Contents, cells, slots and files.                                       *)

(* The rows of each time range, as the number of the store that wrote      *)
(* them; 0 where the range is not covered.                                 *)
Content == [Ranges -> 0..MaxStores]
Empty   == [r \in Ranges |-> 0]

Covered(c)   == {r \in Ranges : c[r] # 0}
Overlay(c, d) == [r \in Ranges |-> IF d[r] # 0 THEN d[r] ELSE c[r]]

BlockCell(c)     == [kind |-> "block", rows |-> c]
IndexCell(table) == [kind |-> "index", table |-> table]
Garbage          == [kind |-> "garbage"]

(* A slot that holds no commit: zeroed, or torn so that its checksum fails.*)
NoCommit == [gen |-> 0]
Slot(gen, at, cell) == [gen |-> gen, at |-> at, index |-> cell]

File(cells, even, odd) ==
    [cells |-> cells, slots |-> [parity \in 0..1 |-> IF parity = 0 THEN even ELSE odd]]
Blank == File(<<>>, NoCommit, NoCommit)

-----------------------------------------------------------------------------
(* Reading a container.                                                    *)

(* read_commit: the usable slot of the higher generation.                  *)
ReadCommit(f) ==
    IF f.slots[0].gen > f.slots[1].gen THEN f.slots[0] ELSE f.slots[1]

(* Index::validate: the blocks lie one after the other before the index,   *)
(* and their extents follow each other in time.                            *)
ValidIndex(table, at) ==
    /\ \A i \in DOMAIN table : table[i].at < at /\ Covered(table[i].rows) # {}
    /\ \A i, j \in DOMAIN table : i < j =>
          /\ table[i].at < table[j].at
          /\ \A q \in Covered(table[i].rows), r \in Covered(table[j].rows) : q < r

(* load_any: the commit is inside the file and its index has the checksum  *)
(* the slot recorded; an older slot is not tried when this fails.          *)
Loads(f) ==
    LET commit == ReadCommit(f)
    IN  /\ commit.gen > 0
        /\ commit.at <= Len(f.cells)
        /\ f.cells[commit.at] = commit.index
        /\ ValidIndex(commit.index.table, commit.at)

(* read_block for every block of the index: the recorded checksums match.  *)
BlocksIntact(f, commit) ==
    \A i \in DOMAIN commit.index.table :
        LET block == commit.index.table[i]
        IN  /\ block.at <= Len(f.cells)
            /\ f.cells[block.at] = BlockCell(block.rows)

(* The rows the index of a commit refers to: of each range, those of the   *)
(* block that covers it (a valid index has at most one).                   *)
Indexed(commit) ==
    LET table == commit.index.table
        covering(r) == {i \in DOMAIN table : table[i].rows[r] # 0}
    IN  [r \in Ranges |-> IF covering(r) = {} THEN 0
                          ELSE table[CHOOSE i \in covering(r) : TRUE].rows[r]]

(* What a process that opens the partition now finds; None when the file   *)
(* cannot be loaded or one of its blocks cannot be read.                   *)
Visible ==
    IF path = None THEN Empty
    ELSE IF Loads(vol[path]) /\ BlocksIntact(vol[path], ReadCommit(vol[path]))
         THEN Indexed(ReadCommit(vol[path]))
         ELSE None

-----------------------------------------------------------------------------
(* The container that write_new writes for a content: one extent and one   *)
(* block for every run of adjacent ranges, in time order, the index, and   *)
(* generation 1.                                                           *)
Run(c, first) ==
    [r \in Ranges |-> IF first <= r /\ first..r \subseteq Covered(c) THEN c[r] ELSE 0]
RunStarts(c) ==
    LET firsts == {r \in Covered(c) : r - 1 \notin Covered(c)}
    IN  {starts \in [1..Cardinality(firsts) -> firsts] :
            \A i, j \in DOMAIN starts : i < j => starts[i] < starts[j]}
Container(c, starts) ==
    LET table  == [i \in DOMAIN starts |-> [at |-> i, rows |-> Run(c, starts[i])]]
        blocks == [i \in DOMAIN starts |-> BlockCell(Run(c, starts[i]))]
        at     == Len(starts) + 1
    IN  File(Append(blocks, IndexCell(table)), NoCommit, Slot(1, at, IndexCell(table)))

(* The inodes nothing refers to, and the one the next file gets.           *)
Referenced ==
    {path, durPath, alias} \cup {reader[x].inode : x \in Readers} \cup {writer.inode, writer.candidate}
FreeInode == Inodes \ Referenced
NewInode == CHOOSE i \in FreeInode : TRUE

Idle == [pc |-> "idle", inode |-> None, candidate |-> None, commit |-> NoCommit,
         rows |-> Empty]
Closed == [inode |-> None, commit |-> NoCommit]

Spend(bound) == used' = [used EXCEPT ![bound] = @ + 1]

Init ==
    /\ vol = [i \in Inodes |-> Blank] /\ dur = [i \in Inodes |-> Blank]
    /\ path = None /\ durPath = None
    /\ alias = None /\ kept = Blank
    /\ writer = Idle
    /\ reader = [x \in Readers |-> Closed]
    /\ commits = <<Empty>> /\ acked = 1
    /\ used = [stores |-> 0, repairs |-> 0, crashes |-> 0, aborts |-> 0]

-----------------------------------------------------------------------------
(* store_final_range_at, under the exclusive lock.                         *)

Locked(pc) == writer.pc = pc

(* The range lies after everything covered and the container is not due    *)
(* for compaction: the rows are appended to the file in place.             *)
StoreAppend(r) ==
    /\ Locked("idle") /\ used.stores < MaxStores
    /\ path # None /\ Loads(vol[path])
    /\ LET commit == ReadCommit(vol[path])
       IN  /\ Len(commit.index.table) < CompactAt
           /\ \A q \in Covered(Indexed(commit)) : q < r
           /\ writer' = [Idle EXCEPT !.pc = "recover", !.inode = path, !.commit = commit,
                                     !.rows = [Empty EXCEPT ![r] = used.stores + 1]]
    /\ Spend("stores")
    /\ UNCHANGED <<vol, dur, path, durPath, alias, kept, reader, commits, acked>>

(* Otherwise the whole file is read, the rows are merged into it, and a    *)
(* new container is written to a candidate file, both syncs of             *)
(* write_commit included.                                                  *)
StoreRewrite(r) ==
    /\ Locked("idle") /\ used.stores < MaxStores
    /\ path # None => LET commit == ReadCommit(vol[path])
                      IN  \/ Len(commit.index.table) >= CompactAt
                          \/ \E q \in Covered(Indexed(commit)) : q >= r
    /\ Visible # None
    /\ FreeInode # {}
    /\ LET content == [Visible EXCEPT ![r] = used.stores + 1]
       IN  /\ writer' = [Idle EXCEPT !.pc = "publish", !.candidate = NewInode, !.rows = content]
           /\ \E starts \in RunStarts(content) :
                 /\ vol' = [vol EXCEPT ![NewInode] = Container(content, starts)]
                 /\ dur' = [dur EXCEPT ![NewInode] = Container(content, starts)]
    /\ Spend("stores")
    /\ UNCHANGED <<path, durPath, alias, kept, reader, commits, acked>>

(* prepare_append_index: only the recovery of a store, ahead of a fill.    *)
PrepareAppendIndex ==
    /\ Locked("idle") /\ used.repairs < MaxRepairs
    /\ path # None /\ Loads(vol[path])
    /\ writer' = [Idle EXCEPT !.pc = "recover", !.inode = path,
                              !.commit = ReadCommit(vol[path])]
    /\ Spend("repairs")
    /\ UNCHANGED <<vol, dur, path, durPath, alias, kept, reader, commits, acked>>

(* purge_symbol: the file is removed; the directory is not synced.         *)
Purge ==
    /\ Locked("idle") /\ used.repairs < MaxRepairs
    /\ path # None
    /\ path' = None
    /\ commits' = Append(commits, Empty)
    /\ Spend("repairs")
    /\ UNCHANGED <<vol, dur, durPath, alias, kept, writer, reader, acked>>

-----------------------------------------------------------------------------
(* recover: the commit must still be the one that was loaded.  A file with *)
(* a second hard link is copied to a candidate first (detach).             *)
DetachCopy ==
    /\ Locked("recover")
    /\ ReadCommit(vol[writer.inode]) = writer.commit
    /\ alias = writer.inode
    /\ FreeInode # {}
    /\ vol' = [vol EXCEPT ![NewInode] = vol[writer.inode]]
    /\ dur' = [dur EXCEPT ![NewInode] = Blank]
    /\ writer' = [writer EXCEPT !.pc = "publish", !.candidate = NewInode]
    /\ UNCHANGED <<path, durPath, alias, kept, reader, commits, acked, used>>

(* Mutant: the link count is not looked at.                                *)
NoDetachAtAll ==
    /\ Locked("recover")
    /\ ReadCommit(vol[writer.inode]) = writer.commit
    /\ writer' = [writer EXCEPT !.pc = "truncate"]
    /\ UNCHANGED <<vol, dur, path, durPath, alias, kept, reader, commits, acked, used>>

NoDetach ==
    /\ Locked("recover")
    /\ ReadCommit(vol[writer.inode]) = writer.commit
    /\ alias # writer.inode
    /\ writer' = [writer EXCEPT !.pc = "truncate"]
    /\ UNCHANGED <<vol, dur, path, durPath, alias, kept, reader, commits, acked, used>>

(* Syncing a file; on the common file systems this also commits the        *)
(* directory operation that named it.                                      *)
Sync(inode) ==
    /\ dur' = [dur EXCEPT ![inode] = vol[inode]]
    /\ durPath' = IF FsyncCoversName /\ inode = path THEN path ELSE durPath

(* Candidate::publish: sync, rename over the path, sync the directory.     *)
PublishSync ==
    /\ Locked("publish")
    /\ Sync(writer.candidate)
    /\ writer' = [writer EXCEPT !.pc = "rename"]
    /\ UNCHANGED <<vol, path, alias, kept, reader, commits, acked, used>>

(* Mutant: readers reopen the path instead of keeping the file they opened.*)
PublishRenameReopened ==
    /\ Locked("rename")
    /\ path' = writer.candidate
    /\ commits' = IF writer.inode = None THEN Append(commits, writer.rows) ELSE commits
    /\ writer' = [writer EXCEPT !.pc = "syncparent"]
    /\ reader' = [x \in Readers |-> IF reader[x] = Closed THEN Closed
                                    ELSE [reader[x] EXCEPT !.inode = writer.candidate]]
    /\ UNCHANGED <<vol, dur, durPath, alias, kept, acked, used>>

(* A rewritten file is a new content; a detached one has the content of    *)
(* the file it replaces.                                                   *)
PublishRename ==
    /\ Locked("rename")
    /\ path' = writer.candidate
    /\ commits' = IF writer.inode = None THEN Append(commits, writer.rows) ELSE commits
    /\ writer' = [writer EXCEPT !.pc = "syncparent"]
    /\ UNCHANGED <<vol, dur, durPath, alias, kept, reader, acked, used>>

PublishSyncParent ==
    /\ Locked("syncparent")
    /\ durPath' = path
    /\ IF writer.inode = None
       THEN writer' = Idle /\ acked' = Len(commits)
       ELSE /\ writer' = [writer EXCEPT !.pc = "truncate", !.inode = path, !.candidate = None]
            /\ UNCHANGED acked
    /\ UNCHANGED <<vol, dur, path, alias, kept, reader, commits, used>>

(* Preparation ends with the recovery, a store goes on to write.           *)
Recovered == IF writer.rows = Empty THEN Idle ELSE [writer EXCEPT !.pc = "write"]

CleanTail ==
    /\ Locked("truncate")
    /\ Len(vol[writer.inode].cells) = writer.commit.at
    /\ writer' = Recovered
    /\ UNCHANGED <<vol, dur, path, durPath, alias, kept, reader, commits, acked, used>>

TruncateTail ==
    /\ Locked("truncate")
    /\ Len(vol[writer.inode].cells) > writer.commit.at
    /\ vol' = [vol EXCEPT ![writer.inode].cells = SubSeq(@, 1, writer.commit.at)]
    /\ writer' = [writer EXCEPT !.pc = "synctail"]
    /\ UNCHANGED <<dur, path, durPath, alias, kept, reader, commits, acked, used>>

SyncTail ==
    /\ Locked("synctail")
    /\ Sync(writer.inode)
    /\ writer' = Recovered
    /\ UNCHANGED <<vol, path, alias, kept, reader, commits, acked, used>>

-----------------------------------------------------------------------------
(* write_commit: block and index, sync, slot, sync.                        *)

WriteBlock ==
    /\ Locked("write")
    /\ vol' = [vol EXCEPT ![writer.inode].cells = Append(@, BlockCell(writer.rows))]
    /\ writer' = [writer EXCEPT !.pc = "index"]
    /\ UNCHANGED <<dur, path, durPath, alias, kept, reader, commits, acked, used>>

(* The block table after the append: the old one and the block written.    *)
NextTable ==
    Append(writer.commit.index.table, [at |-> writer.commit.at + 1, rows |-> writer.rows])
NextAt == writer.commit.at + 2

WriteIndex ==
    /\ Locked("index")
    /\ ValidIndex(NextTable, NextAt)
    /\ vol' = [vol EXCEPT ![writer.inode].cells = Append(@, IndexCell(NextTable))]
    /\ writer' = [writer EXCEPT !.pc = "sync"]
    /\ UNCHANGED <<dur, path, durPath, alias, kept, reader, commits, acked, used>>

(* Mutant: block and index are left to the sync after the slot.            *)
SyncSuffixLater ==
    /\ Locked("sync")
    /\ writer' = [writer EXCEPT !.pc = "slot"]
    /\ UNCHANGED <<vol, dur, path, durPath, alias, kept, reader, commits, acked, used>>

SyncSuffix ==
    /\ Locked("sync")
    /\ Sync(writer.inode)
    /\ writer' = [writer EXCEPT !.pc = "slot"]
    /\ UNCHANGED <<vol, path, alias, kept, reader, commits, acked, used>>

(* The commit point for everyone who opens the file.                       *)
NextGeneration == writer.commit.gen + 1
WriteSlot ==
    /\ Locked("slot")
    /\ vol' = [vol EXCEPT ![writer.inode].slots[NextGeneration % 2] =
                  Slot(NextGeneration, NextAt, IndexCell(NextTable))]
    /\ commits' = Append(commits, Overlay(Indexed(writer.commit), writer.rows))
    /\ writer' = [writer EXCEPT !.pc = "syncslot"]
    /\ UNCHANGED <<dur, path, durPath, alias, kept, reader, acked, used>>

SyncSlot ==
    /\ Locked("syncslot")
    /\ Sync(writer.inode)
    /\ acked' = Len(commits)
    /\ writer' = Idle
    /\ UNCHANGED <<vol, path, alias, kept, reader, commits, used>>

-----------------------------------------------------------------------------
(* read_range: the index is loaded under the shared lock; the blocks are   *)
(* read from the opened file after the lock is gone.                       *)
OpenReader(x) ==
    /\ Locked("idle") /\ reader[x] = Closed
    /\ path # None /\ Loads(vol[path])
    /\ reader' = [reader EXCEPT ![x] = [inode |-> path, commit |-> ReadCommit(vol[path])]]
    /\ UNCHANGED <<vol, dur, path, durPath, alias, kept, writer, commits, acked, used>>

CloseReader(x) ==
    /\ reader[x] # Closed
    /\ reader' = [reader EXCEPT ![x] = Closed]
    /\ UNCHANGED <<vol, dur, path, durPath, alias, kept, writer, commits, acked, used>>

(* External: somebody keeps the file by a second, synced hard link, as a   *)
(* backup or an older snapshot does.                                       *)
HardLink ==
    /\ Locked("idle") /\ used.repairs < MaxRepairs
    /\ path # None /\ alias = None
    /\ alias' = path /\ kept' = vol[path]
    /\ Sync(path)
    /\ Spend("repairs")
    /\ UNCHANGED <<vol, path, writer, reader, commits, acked>>

-----------------------------------------------------------------------------
(* A writer fails or its process is killed: the lock is released and what  *)
(* was written stays, the cell or slot it was writing perhaps in part.     *)
(* A candidate that was not renamed is lost.                               *)
Abort ==
    /\ ~ Locked("idle") /\ used.aborts < MaxAborts
    /\ \/ UNCHANGED vol
       \/ /\ writer.pc \in {"write", "index"}
          /\ vol' = [vol EXCEPT ![writer.inode].cells = Append(@, Garbage)]
       \/ /\ Locked("slot")
          /\ vol' = [vol EXCEPT ![writer.inode].slots[NextGeneration % 2] = NoCommit]
    /\ writer' = Idle
    /\ Spend("aborts")
    /\ UNCHANGED <<dur, path, durPath, alias, kept, reader, commits, acked>>

(* What can be found on disk after a crash: a part that was not synced is  *)
(* the old one, the new one or neither, and the length of the file is      *)
(* anything between the two.                                               *)
CellImages(old, new) ==
    LET same(j) == j \in DOMAIN old \cap DOMAIN new /\ old[j] = new[j]
        lengths == Min({Len(old), Len(new)})..Max({Len(old), Len(new)})
        cell(j, from) == IF j \in DOMAIN from THEN from[j] ELSE Garbage
    IN  UNION {LET unsynced == {j \in 1..n : ~ same(j)}
               IN  {[j \in 1..n |-> IF same(j) THEN new[j] ELSE cell(j, from[j])] :
                       from \in [unsynced -> {old, new, <<>>}]} : n \in lengths}
SlotImages(old, new) == IF old = new THEN {new} ELSE {old, new, NoCommit}

FileImages(old, new) ==
    {File(cells, even, odd) : cells \in CellImages(old.cells, new.cells),
                              even \in SlotImages(old.slots[0], new.slots[0]),
                              odd \in SlotImages(old.slots[1], new.slots[1])}

(* The machine stops.  Only the files that are still named afterwards      *)
(* matter; the commits that survive are those up to what is then found.    *)
Crash ==
    /\ used.crashes < MaxCrashes
    /\ path' \in {path, durPath} /\ durPath' = path'
    /\ \E image \in IF path' = None THEN {Blank} ELSE FileImages(dur[path'], vol[path']) :
          vol' = [i \in Inodes |-> IF i = path' THEN image
                                   ELSE IF i = alias THEN dur[i] ELSE Blank]
    /\ dur' = vol'
    /\ writer' = Idle
    /\ reader' = [x \in Readers |-> Closed]
    /\ commits' = LET found == {n \in acked..Len(commits) : commits[n] = Visible'}
                  IN  IF found = {} THEN commits ELSE SubSeq(commits, 1, Max(found))
    /\ Spend("crashes")
    /\ UNCHANGED <<alias, kept, acked>>

-----------------------------------------------------------------------------
Commit ==
    \/ WriteBlock \/ WriteIndex \/ SyncSuffix \/ WriteSlot \/ SyncSlot

Recovery ==
    \/ DetachCopy \/ NoDetach \/ PublishSync \/ PublishRename \/ PublishSyncParent
    \/ CleanTail \/ TruncateTail \/ SyncTail

Next ==
    \/ \E r \in Ranges : StoreAppend(r) \/ StoreRewrite(r)
    \/ PrepareAppendIndex \/ Purge \/ HardLink
    \/ Recovery \/ Commit
    \/ \E x \in Readers : OpenReader(x) \/ CloseReader(x)
    \/ Abort \/ Crash

Spec == Init /\ [][Next]_vars

-----------------------------------------------------------------------------
(* A reader that loaded its index and released the lock can read every     *)
(* block of it from the file it has open, whatever writers append,         *)
(* truncate, detach, compact or purge meanwhile (read_range: "No path      *)
(* reopen or header reread after releasing the shared lock").              *)
PinnedPrefixIsIntact ==
    \A x \in Readers : reader[x] # Closed => BlocksIntact(vol[reader[x].inode], reader[x].commit)

(* The bytes a second hard link keeps are never written to: recover        *)
(* detaches the partition before it truncates or appends.                  *)
LinkedFileIsUntouched == alias # None => vol[alias] = kept

(* The container implements a store whose acknowledged contents survive    *)
(* every crash and which is never unreadable: a crash takes the partition  *)
(* back to a content that was committed, at least as new as the last one a *)
(* caller was told is stored.                                              *)
Store == INSTANCE DurableStore WITH
    Contents <- Content, Empty <- Empty, log <- commits, acked <- acked, visible <- Visible
AcknowledgedSurvives == Store!Spec
=============================================================================
