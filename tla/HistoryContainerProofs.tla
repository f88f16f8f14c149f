----------------------- MODULE HistoryContainerProofs -----------------------
(***************************************************************************)
(* Theorems about HistoryContainer for any number of ranges, files and     *)
(* readers and any number of stores, aborts and machine crashes.           *)
(*                                                                         *)
(* The argument is about the two contents of a file, the one processes see *)
(* and the one on disk: every commit slot of either refers to blocks that  *)
(* both hold, and the slots are in the order of their generations          *)
(* (Recoverable).  So every mixture of the two that a crash leaves has     *)
(* again only slots whose blocks are there, and a writer that truncates to *)
(* the newest commit cuts off nothing an older commit refers to.           *)
(*                                                                         *)
(* That acknowledged contents survive is an argument about the slots: the  *)
(* commits a crash may leave the newest of a file (Outcomes) are contents  *)
(* committed no earlier than the last acknowledged one.  A slot is written *)
(* while all else of the file is on disk, so the old commit and the new    *)
(* one are the only outcomes, and a store is acknowledged when one outcome *)
(* is left.                                                                *)
(***************************************************************************)
EXTENDS HistoryContainer, FiniteSums, SequenceTheorems

-----------------------------------------------------------------------------
(* Files.                                                                  *)

IsList(s) == Len(s) \in Nat /\ s = [i \in 1 .. Len(s) |-> s[i]]

(* A slot holds no commit, or one with a valid index whose blocks lie      *)
(* before it.                                                              *)
GoodSlot(s) ==
    /\ s.gen \in Nat
    /\ s.gen # 0 =>
          /\ s.at \in Nat \ {0}
          /\ IsList(s.index.table)
          /\ \A i \in DOMAIN s.index.table : s.index.table[i].at \in 1 .. s.at - 1
          /\ ValidIndex(s.index.table, s.at)

GoodFile(f) ==
    /\ f = [cells |-> f.cells, slots |-> f.slots]
    /\ IsList(f.cells)
    /\ f.slots = [parity \in 0 .. 1 |-> f.slots[parity]]
    /\ \A parity \in 0 .. 1 :
          /\ GoodSlot(f.slots[parity])
          /\ f.slots[parity].gen # 0 => f.slots[parity].gen % 2 = parity

(* The blocks a slot refers to are in the file, and so is its index.       *)
Holds(f, s) ==
    s.gen # 0 => BlocksIntact(f, s) /\ s.at <= Len(f.cells) /\ f.cells[s.at] = s.index

SlotsOf(f) == {f.slots[0], f.slots[1]}

(* What processes see as v and the disk holds as d can be read after any   *)
(* crash: the slots of both refer to blocks in both, a higher generation   *)
(* has its index further on, and none is newer than the one v shows.       *)
Recoverable(v, d) ==
    /\ \A s \in SlotsOf(v) \cup SlotsOf(d) :
          /\ Holds(v, s) /\ Holds(d, s)
          /\ s.gen <= ReadCommit(v).gen
    /\ \A s, t \in SlotsOf(v) \cup SlotsOf(d) :
          s.gen # 0 /\ s.gen <= t.gen => s.at <= t.at

-----------------------------------------------------------------------------
(* The inductive invariant.                                                *)

FileInv ==
    /\ vol = [i \in Inodes |-> vol[i]] /\ dur = [i \in Inodes |-> dur[i]]
    /\ \A i \in Inodes : GoodFile(vol[i]) /\ GoodFile(dur[i])
    /\ {path, durPath, alias} \subseteq Inodes \cup {None}
    /\ \A i \in {path, durPath} \ {None} : Recoverable(vol[i], dur[i])

Publishing == {"publish", "rename", "syncparent"}
Writing    == {"truncate", "synctail", "write", "index", "sync", "slot", "syncslot"}

WriterType ==
    /\ DOMAIN writer = {"pc", "inode", "candidate", "commit", "rows"}
    /\ writer.pc \in {"idle", "recover"} \cup Publishing \cup Writing
    /\ writer.pc = "idle" => writer = Idle

(* A candidate is a readable file of its own that nobody else refers to;   *)
(* once synced it can be read after a crash.                               *)
CandidateInv ==
    LET c == writer.candidate
    IN  writer.pc \in Publishing =>
          /\ c \in Inodes /\ c # None /\ c # alias
          /\ Recoverable(vol[c], vol[c])
          /\ writer.pc # "publish" => Recoverable(vol[c], dur[c])
          /\ writer.pc = "syncparent" => path = c
          /\ writer.inode # None =>
                writer.commit = ReadCommit(vol[c]) /\ writer.commit.gen # 0

(* The file written to is the partition's, under no second name, and its   *)
(* newest commit is the one the writer loaded; the cells after it are the  *)
(* writer's own, and on disk before the slot that refers to them.          *)
WritingInv ==
    LET i == writer.inode
        at == writer.commit.at
        cells == vol[i].cells
    IN  /\ writer.pc = "recover" \/ writer.pc \in Writing =>
              i \in Inodes /\ i # None /\ i = path
        /\ writer.pc = "recover" => writer.candidate = None
        /\ writer.pc = "recover" \/ writer.pc \in Writing \ {"syncslot"} =>
              writer.commit = ReadCommit(vol[i]) /\ writer.commit.gen # 0
        /\ writer.pc \in Writing => i # alias
        /\ writer.pc \in {"synctail", "write"} => Len(cells) = at
        /\ writer.pc = "index" => Len(cells) = at + 1
        /\ writer.pc \in {"sync", "slot"} => Len(cells) = at + 2
        /\ writer.pc \in {"index", "sync", "slot"} => cells[at + 1] = BlockCell(writer.rows)
        /\ writer.pc \in {"sync", "slot"} =>
              ValidIndex(NextTable, NextAt) /\ cells[at + 2] = IndexCell(NextTable)
        /\ writer.pc = "slot" => dur[i] = vol[i]

(* What a reader has loaded is not newer than the file's newest commit.    *)
ReaderInv ==
    /\ reader = [x \in Readers |-> reader[x]]
    /\ \A x \in Readers :
          LET i == reader[x].inode
              c == reader[x].commit
          IN  reader[x] # Closed =>
                /\ i \in Inodes /\ GoodSlot(c) /\ c.gen # 0
                /\ Holds(vol[i], c)
                /\ ReadCommit(vol[i]).gen # 0 /\ c.at <= ReadCommit(vol[i]).at

AliasInv == alias # None => vol[alias] = kept /\ dur[alias] = kept

Files     == FileInv /\ ReaderInv /\ AliasInv
WriterInv == WriterType /\ CandidateInv /\ WritingInv

ContainerInv == Files /\ WriterInv

-----------------------------------------------------------------------------
(* The contents that are committed, and those a crash may leave.           *)

Newest(even, odd) == IF even.gen > odd.gen THEN even ELSE odd

(* The commits a crash may leave the newest of a file that processes see   *)
(* as v and the disk holds as d.                                           *)
Outcomes(d, v) ==
    {Newest(even, odd) : even \in SlotImages(d.slots[0], v.slots[0]),
                         odd \in SlotImages(d.slots[1], v.slots[1])}

(* A content that was not superseded when a caller was last told of one.   *)
Retained(c) == \E n \in acked .. Len(commits) : commits[n] = c

Survives(i) ==
    IF i = None THEN Retained(Empty)
    ELSE \A s \in Outcomes(dur[i], vol[i]) : s.gen # 0 /\ Retained(Indexed(s))

(* The content of the newest commit of a file.                             *)
Shown(i) == IF i = None THEN Empty ELSE Indexed(ReadCommit(vol[i]))

LogInv ==
    /\ commits \in Seq(Content) /\ acked \in 1 .. Len(commits)
    /\ path # None => ReadCommit(vol[path]).gen # 0
    /\ Shown(path) = commits[Len(commits)]
    /\ Survives(path) /\ Survives(durPath)

(* What the writer is about to commit: the content of the candidate, or    *)
(* rows to add to the commit it loaded.                                    *)
PendingInv ==
    LET c == writer.candidate
    IN  /\ used.stores \in Nat /\ "stores" \in DOMAIN used
        /\ writer.rows \in Content
        /\ writer.pc \in Publishing /\ writer.inode = None =>
              ReadCommit(vol[c]).gen # 0 /\ Indexed(ReadCommit(vol[c])) = writer.rows
        /\ writer.pc \in {"publish", "rename"} /\ writer.inode # None =>
              path # None /\ writer.commit = ReadCommit(vol[path])
        /\ writer.pc \in {"rename", "syncparent"} => dur[c] = vol[c]

StoreInv == ContainerInv /\ LogInv /\ PendingInv

-----------------------------------------------------------------------------
(* Lists of cells and tables.                                              *)

LEMMA ListAppend ==
    ASSUME NEW s, NEW e, IsList(s)
    PROVE  /\ IsList(Append(s, e)) /\ Len(Append(s, e)) = Len(s) + 1
           /\ \A i \in 1 .. Len(s) : Append(s, e)[i] = s[i]
           /\ Append(s, e)[Len(s) + 1] = e
           /\ DOMAIN s = 1 .. Len(s) /\ DOMAIN Append(s, e) = 1 .. Len(s) + 1
<1> DEFINE S == {s[i] : i \in 1 .. Len(s)} \cup {e}
           t == Append(s, e)
<1>1. Len(s) \in Nat /\ s = [i \in 1 .. Len(s) |-> s[i]]
  BY DEF IsList
<1>2. s \in Seq(S) /\ e \in S
  <2>1. [i \in 1 .. Len(s) |-> s[i]] \in [1 .. Len(s) -> S]
    OBVIOUS
  <2> QED BY <1>1, <2>1
<1> HIDE DEF S
<1>3. t \in Seq(S) /\ Len(t) = Len(s) + 1 /\ t[Len(s) + 1] = e
      /\ \A i \in 1 .. Len(s) : t[i] = s[i]
  BY <1>2, AppendProperties
<1> HIDE DEF t
<1>4. t = [i \in 1 .. Len(t) |-> t[i]] /\ DOMAIN t = 1 .. Len(t)
  BY <1>3, LenProperties
<1> QED BY <1>1, <1>3, <1>4 DEF IsList, t

LEMMA ListPrefix ==
    ASSUME NEW s, IsList(s), NEW n \in 0 .. Len(s)
    PROVE  /\ IsList(SubSeq(s, 1, n)) /\ Len(SubSeq(s, 1, n)) = n
           /\ \A i \in 1 .. n : SubSeq(s, 1, n)[i] = s[i]
<1> DEFINE S == {s[i] : i \in 1 .. Len(s)}
           t == SubSeq(s, 1, n)
<1>1. Len(s) \in Nat /\ n \in Nat /\ \A i \in 1 .. n : s[i] \in S
  BY DEF IsList
<1> HIDE DEF S
<1>2. /\ t \in Seq(S)
      /\ Len(t) = IF 1 <= n THEN n - 1 + 1 ELSE 0
      /\ \A i \in 1 .. n - 1 + 1 : t[i] = s[1 + i - 1]
  BY <1>1, SubSeqProperties
<1> HIDE DEF t
<1>3. Len(t) = n
  BY <1>1, <1>2
<1>4. \A i \in 1 .. n : t[i] = s[i]
  <2>1. \A i \in 1 .. n : i \in 1 .. n - 1 + 1 /\ 1 + i - 1 = i
    BY <1>1
  <2> QED BY <1>2, <2>1
<1>5. t = [i \in 1 .. Len(t) |-> t[i]]
  BY <1>2
<1> QED BY <1>1, <1>3, <1>4, <1>5 DEF IsList, t

LEMMA ListDomain ==
    ASSUME NEW s, IsList(s)
    PROVE  DOMAIN s = 1 .. Len(s) /\ Len(s) \in Nat
BY DEF IsList

-----------------------------------------------------------------------------
(* Slots and what they refer to.                                           *)

LEMMA NoCommitIsGood == NoCommit.gen = 0 /\ GoodSlot(NoCommit) /\ \A f : Holds(f, NoCommit)
BY DEF NoCommit, GoodSlot, Holds

LEMMA ReadCommitFacts ==
    ASSUME NEW f, GoodFile(f)
    PROVE  LET c == ReadCommit(f)
           IN  /\ c \in SlotsOf(f) /\ GoodSlot(c)
               /\ c.gen # 0 => c = f.slots[c.gen % 2]
               /\ \A s \in SlotsOf(f) : s.gen <= c.gen /\ s.gen \in Nat
<1> DEFINE c == ReadCommit(f)
<1>1. 0 \in 0 .. 1 /\ 1 \in 0 .. 1
  OBVIOUS
<1>2. /\ GoodSlot(f.slots[0]) /\ (f.slots[0].gen # 0 => f.slots[0].gen % 2 = 0)
      /\ GoodSlot(f.slots[1]) /\ (f.slots[1].gen # 0 => f.slots[1].gen % 2 = 1)
  BY <1>1 DEF GoodFile
<1>3. f.slots[0].gen \in Nat /\ f.slots[1].gen \in Nat
  BY <1>2 DEF GoodSlot
<1>4. CASE f.slots[0].gen > f.slots[1].gen
  <2>1. c = f.slots[0]
    BY <1>4 DEF ReadCommit
  <2> HIDE DEF c
  <2> QED BY <1>2, <1>3, <1>4, <2>1 DEF SlotsOf, c
<1>5. CASE ~(f.slots[0].gen > f.slots[1].gen)
  <2>1. c = f.slots[1]
    BY <1>5 DEF ReadCommit
  <2> HIDE DEF c
  <2> QED BY <1>2, <1>3, <1>5, <2>1 DEF SlotsOf, c
<1> QED BY <1>4, <1>5

(* A file that keeps the cells before a slot's index keeps its blocks.     *)
LEMMA HoldsKept ==
    ASSUME NEW f, NEW g, NEW s, GoodSlot(s), Holds(f, s),
           \A j \in 1 .. s.at : j <= Len(f.cells) => j <= Len(g.cells) /\ g.cells[j] = f.cells[j]
    PROVE  Holds(g, s)
<1> SUFFICES ASSUME s.gen # 0
             PROVE  BlocksIntact(g, s) /\ s.at <= Len(g.cells) /\ g.cells[s.at] = s.index
  BY DEF Holds
<1>1. /\ s.at \in Nat \ {0} /\ s.at <= Len(f.cells) /\ f.cells[s.at] = s.index
      /\ BlocksIntact(f, s)
      /\ \A i \in DOMAIN s.index.table : s.index.table[i].at \in 1 .. s.at - 1
  BY DEF GoodSlot, Holds
<1>2. ASSUME NEW i \in DOMAIN s.index.table
      PROVE  LET block == s.index.table[i]
             IN  block.at <= Len(g.cells) /\ g.cells[block.at] = BlockCell(block.rows)
  <2>1. s.index.table[i].at \in 1 .. s.at
    BY <1>1
  <2>2. /\ s.index.table[i].at <= Len(f.cells)
        /\ f.cells[s.index.table[i].at] = BlockCell(s.index.table[i].rows)
    BY <1>1 DEF BlocksIntact
  <2> QED BY <2>1, <2>2
<1>3. s.at \in 1 .. s.at
  BY <1>1
<1> QED BY <1>1, <1>2, <1>3 DEF BlocksIntact

LEMMA SlotsAreGood ==
    ASSUME NEW f, GoodFile(f)
    PROVE  \A s \in SlotsOf(f) : GoodSlot(s) /\ s.gen \in Nat
<1>1. 0 \in 0 .. 1 /\ 1 \in 0 .. 1
  OBVIOUS
<1>2. GoodSlot(f.slots[0]) /\ GoodSlot(f.slots[1])
  BY <1>1 DEF GoodFile
<1> QED BY <1>2 DEF SlotsOf, GoodSlot

LEMMA RecoverableSelf ==
    ASSUME NEW v, NEW d, Recoverable(v, d)
    PROVE  Recoverable(v, v)
BY DEF Recoverable

(* A file can be read: what it shows refers to blocks it has.              *)
LEMMA RecoverableReads ==
    ASSUME NEW v, NEW d, GoodFile(v), Recoverable(v, d), ReadCommit(v).gen # 0
    PROVE  Holds(v, ReadCommit(v)) /\ GoodSlot(ReadCommit(v))
BY ReadCommitFacts DEF Recoverable

(* g has what f had before its newest index, and a commit at least as far. *)
Grows(f, g) ==
    ReadCommit(f).gen # 0 =>
        /\ \A j \in 1 .. ReadCommit(f).at :
              j <= Len(f.cells) => j <= Len(g.cells) /\ g.cells[j] = f.cells[j]
        /\ ReadCommit(g).gen # 0 /\ ReadCommit(f).at <= ReadCommit(g).at

(* The cells change after the newest index only.                           *)
LEMMA CellsChanged ==
    ASSUME NEW f, NEW d, NEW cells, GoodFile(f), GoodFile(d), Recoverable(f, d), IsList(cells),
           ReadCommit(f).gen # 0 => \A j \in 1 .. ReadCommit(f).at :
              j <= Len(f.cells) => j <= Len(cells) /\ cells[j] = f.cells[j]
    PROVE  LET g == [f EXCEPT !.cells = cells]
           IN  /\ GoodFile(g) /\ g.cells = cells /\ ReadCommit(g) = ReadCommit(f)
               /\ Recoverable(g, d) /\ Grows(f, g)
<1> DEFINE g == [f EXCEPT !.cells = cells]
           c == ReadCommit(f)
<1>1. f = [cells |-> f.cells, slots |-> f.slots]
  BY DEF GoodFile
<1>2. g = [cells |-> cells, slots |-> f.slots] /\ g.cells = cells /\ g.slots = f.slots
  BY <1>1
<1>3. SlotsOf(g) = SlotsOf(f) /\ ReadCommit(g) = c
  BY <1>2 DEF SlotsOf, ReadCommit
<1> HIDE DEF g
<1>4. GoodFile(g)
  BY <1>2 DEF GoodFile
<1>5. ASSUME NEW s \in SlotsOf(f) \cup SlotsOf(d) PROVE Holds(g, s)
  <2>1. CASE s.gen = 0
    BY <2>1 DEF Holds
  <2>2. CASE s.gen # 0
    <3>0. GoodSlot(s) /\ s.gen \in Nat
      BY SlotsAreGood
    <3>1. GoodSlot(c) /\ c \in SlotsOf(f) /\ s.gen <= c.gen /\ Holds(f, s)
      BY ReadCommitFacts DEF Recoverable
    <3>2. s.at <= c.at
      BY <2>2, <3>1 DEF Recoverable
    <3>3. ASSUME c.gen # 0, GoodSlot(s) PROVE Holds(g, s)
      <4>1. c.at \in Nat /\ s.at \in Nat
        BY <2>2, <3>1, <3>3 DEF GoodSlot
      <4>2. \A j \in 1 .. s.at : j \in 1 .. c.at
        BY <3>2, <4>1
      <4> QED BY <1>2, <3>1, <3>3, <4>2, HoldsKept
    <3>4. c.gen # 0 /\ GoodSlot(s)
      <4>1. c.gen \in Nat
        BY <3>1 DEF GoodSlot
      <4> QED BY <2>2, <3>0, <3>1, <4>1
    <3> QED BY <3>3, <3>4
  <2> QED BY <2>1, <2>2
<1>6. Recoverable(g, d)
  BY <1>3, <1>5 DEF Recoverable
<1>7. Grows(f, g)
  <2>1. c.gen # 0 => c.at \in Nat
    BY ReadCommitFacts DEF GoodSlot
  <2> QED BY <1>2, <1>3, <2>1 DEF Grows
<1> QED BY <1>2, <1>3, <1>4, <1>6, <1>7 DEF g

(* A slot of the other parity is overwritten: with the next commit, or     *)
(* with a torn one that holds nothing.                                     *)
LEMMA SlotChanged ==
    ASSUME NEW f, NEW s, NEW gen, GoodFile(f), Recoverable(f, f),
           gen = ReadCommit(f).gen, gen # 0, GoodSlot(s), Holds(f, s),
           s.gen # 0 => s.gen = gen + 1 /\ ReadCommit(f).at <= s.at
    PROVE  LET g == [f EXCEPT !.slots[(gen + 1) % 2] = s]
           IN  /\ GoodFile(g) /\ g.cells = f.cells
               /\ ReadCommit(g) = IF s.gen = 0 THEN ReadCommit(f) ELSE s
               /\ Recoverable(g, f) /\ Grows(f, g)
               /\ \A t \in Outcomes(f, g) : t = ReadCommit(f) \/ (t = s /\ s.gen # 0)
<1> DEFINE p == (gen + 1) % 2
           g == [f EXCEPT !.slots[(gen + 1) % 2] = s]
           c == ReadCommit(f)
<1>1. /\ f = [cells |-> f.cells, slots |-> f.slots]
      /\ f.slots = [parity \in 0 .. 1 |-> f.slots[parity]]
      /\ \A parity \in 0 .. 1 :
            /\ GoodSlot(f.slots[parity])
            /\ f.slots[parity].gen # 0 => f.slots[parity].gen % 2 = parity
  BY DEF GoodFile
<1>2. /\ c \in SlotsOf(f) /\ GoodSlot(c) /\ c = f.slots[gen % 2] /\ gen \in Nat
      /\ \A t \in SlotsOf(f) : t.gen <= gen /\ t.gen \in Nat
  BY ReadCommitFacts, SlotsAreGood
<1>3. p \in 0 .. 1 /\ gen % 2 \in 0 .. 1 /\ p # gen % 2
  <2>1. ASSUME NEW n \in Nat PROVE (n + 1) % 2 \in 0 .. 1 /\ n % 2 \in 0 .. 1
    OBVIOUS
  <2>2. ASSUME NEW n \in Nat PROVE (n + 1) % 2 # n % 2
    OBVIOUS
  <2> QED BY <1>2, <2>1, <2>2
<1>4. /\ g = [cells |-> f.cells, slots |-> [f.slots EXCEPT ![p] = s]]
      /\ g.cells = f.cells /\ g.slots = [f.slots EXCEPT ![p] = s]
  BY <1>1
<1>5. /\ g.slots = [parity \in 0 .. 1 |-> IF parity = p THEN s ELSE f.slots[parity]]
      /\ g.slots[p] = s /\ g.slots[gen % 2] = c
  BY <1>1, <1>2, <1>3, <1>4
<1>6. s.gen \in Nat /\ (s.gen # 0 => s.gen % 2 = p)
  BY DEF GoodSlot
<1> HIDE DEF p, g, c
<1>7. GoodFile(g)
  <2>1. g = [cells |-> g.cells, slots |-> g.slots] /\ IsList(g.cells)
    BY <1>4 DEF GoodFile
  <2>2. g.slots = [parity \in 0 .. 1 |-> g.slots[parity]]
    BY <1>5
  <2>3. ASSUME NEW parity \in 0 .. 1
        PROVE  /\ GoodSlot(g.slots[parity])
               /\ g.slots[parity].gen # 0 => g.slots[parity].gen % 2 = parity
    BY <1>1, <1>5, <1>6
  <2> QED BY <2>1, <2>2, <2>3 DEF GoodFile
<1>8. SlotsOf(g) = {s, c}
  BY <1>3, <1>5 DEF SlotsOf
<1>9. ReadCommit(g) = IF s.gen = 0 THEN c ELSE s
  <2>1. ReadCommit(g) \in {s, c} /\ \A t \in {s, c} : t.gen <= ReadCommit(g).gen
    BY <1>7, <1>8, ReadCommitFacts
  <2>2. c.gen = gen
    BY DEF c
  <2>3. CASE s.gen = 0
    <3>1. ReadCommit(g) # s
      BY <1>2, <2>1, <2>2, <2>3
    <3> QED BY <2>1, <2>3, <3>1
  <2>4. CASE s.gen # 0
    <3>1. ReadCommit(g) # c
      BY <1>2, <2>1, <2>2, <2>4
    <3> QED BY <2>1, <2>4, <3>1
  <2> QED BY <2>3, <2>4
<1>10. /\ \A t \in SlotsOf(f) : Holds(f, t)
       /\ \A t, u \in SlotsOf(f) : t.gen # 0 /\ t.gen <= u.gen => t.at <= u.at
  BY DEF Recoverable
<1>11. c.gen = gen /\ c.at \in Nat
  BY <1>2 DEF c, GoodSlot
<1>12. Recoverable(g, f)
  <2>1. SlotsOf(g) \cup SlotsOf(f) = SlotsOf(f) \cup {s}
    BY <1>2, <1>8
  <2>2. ASSUME NEW t \in SlotsOf(f) \cup {s}
        PROVE  Holds(g, t) /\ Holds(f, t) /\ t.gen <= ReadCommit(g).gen
    <3>1. Holds(f, t)
      BY <1>10
    <3>2. Holds(g, t)
      BY <3>1, <1>4 DEF Holds, BlocksIntact
    <3>3. t.gen <= ReadCommit(g).gen
      <4>1. ReadCommit(g).gen = IF s.gen = 0 THEN gen ELSE gen + 1
        BY <1>9, <1>11
      <4>2. t.gen \in Nat /\ (t.gen <= gen \/ t = s)
        BY <1>2, <1>6
      <4> QED BY <1>2, <1>6, <4>1, <4>2
    <3> QED BY <3>1, <3>2, <3>3
  <2>3. ASSUME NEW t \in SlotsOf(f) \cup {s}, NEW u \in SlotsOf(f) \cup {s},
               t.gen # 0, t.gen <= u.gen
        PROVE  t.at <= u.at
    <3>1. CASE t \in SlotsOf(f) /\ u \in SlotsOf(f)
      BY <1>10, <2>3, <3>1
    <3>2. CASE t = s /\ u = s
      <4>1. s.at \in Nat
        BY <2>3, <3>2 DEF GoodSlot
      <4> QED BY <3>2, <4>1
    <3>3. CASE t = s /\ u \in SlotsOf(f)
      BY <1>2, <1>6, <2>3, <3>3
    <3>4. CASE t \in SlotsOf(f) /\ u = s
      <4>1. s.gen # 0
        BY <1>2, <1>6, <2>3, <3>4
      <4>2. t.at <= c.at /\ c.at <= s.at
        BY <1>2, <1>10, <1>11, <2>3, <3>4, <4>1 DEF c
      <4>3. t.at \in Nat /\ s.at \in Nat
        BY <2>3, <3>4, <4>1, SlotsAreGood DEF GoodSlot
      <4> QED BY <3>4, <4>2, <4>3, <1>11
    <3> QED BY <3>1, <3>2, <3>3, <3>4
  <2> QED BY <2>1, <2>2, <2>3 DEF Recoverable
<1>13. Grows(f, g)
  <2>1. ReadCommit(g).gen # 0 /\ c.at <= ReadCommit(g).at
    BY <1>9, <1>11 DEF c
  <2> QED BY <1>4, <2>1 DEF Grows, c
<1>14. ASSUME NEW t \in Outcomes(f, g) PROVE t = c \/ (t = s /\ s.gen # 0)
  <2>1. PICK even \in SlotImages(f.slots[0], g.slots[0]),
             odd \in SlotImages(f.slots[1], g.slots[1]) : t = Newest(even, odd)
    BY <1>14 DEF Outcomes
  <2>2. c.gen = gen /\ c.gen # 0 /\ gen \in Nat /\ NoCommit.gen = 0
    BY <1>2, <1>11, NoCommitIsGood
  <2>3. CASE p = 0 /\ gen % 2 = 1
    <3>1. f.slots[1] = c /\ g.slots[1] = c /\ g.slots[0] = s
      BY <1>2, <1>5, <2>3
    <3>2. odd = c /\ (even = f.slots[0] \/ even = s \/ even = NoCommit)
      BY <2>1, <3>1 DEF SlotImages
    <3>3. f.slots[0].gen \in Nat /\ f.slots[0].gen <= gen
      BY <1>2 DEF SlotsOf
    <3>4. CASE even = f.slots[0] \/ even = NoCommit
      BY <2>1, <2>2, <3>2, <3>3, <3>4 DEF Newest
    <3>5. CASE even = s
      BY <1>6, <2>1, <2>2, <3>2, <3>5 DEF Newest
    <3> QED BY <3>2, <3>4, <3>5
  <2>4. CASE p = 1 /\ gen % 2 = 0
    <3>1. f.slots[0] = c /\ g.slots[0] = c /\ g.slots[1] = s
      BY <1>2, <1>5, <2>4
    <3>2. even = c /\ (odd = f.slots[1] \/ odd = s \/ odd = NoCommit)
      BY <2>1, <3>1 DEF SlotImages
    <3>3. f.slots[1].gen \in Nat /\ f.slots[1].gen <= gen
      BY <1>2 DEF SlotsOf
    <3>4. f.slots[1].gen # gen
      <4>1. 1 \in 0 .. 1
        OBVIOUS
      <4>2. f.slots[1].gen # 0 => f.slots[1].gen % 2 = 1
        BY <1>1, <4>1
      <4> QED BY <2>2, <2>4, <4>2
    <3>5. CASE odd = f.slots[1] \/ odd = NoCommit
      BY <2>1, <2>2, <3>2, <3>3, <3>4, <3>5 DEF Newest
    <3>6. CASE odd = s
      BY <1>6, <2>1, <2>2, <3>2, <3>6 DEF Newest
    <3> QED BY <3>2, <3>5, <3>6
  <2> QED BY <1>3, <2>3, <2>4
<1> QED BY <1>4, <1>7, <1>9, <1>12, <1>13, <1>14 DEF g, c, p

-----------------------------------------------------------------------------
(* What a crash leaves, and new files.                                     *)

LEMMA TwoBounds ==
    ASSUME NEW a \in Nat, NEW b \in Nat, NEW n \in Min({a, b}) .. Max({a, b})
    PROVE  /\ n \in Nat
           /\ \A j \in Nat : j <= a /\ j <= b => j <= n
           /\ a = b => n = a
<1>1. Min({a, b}) \in {a, b} /\ \A y \in {a, b} : Min({a, b}) <= y
  <2>1. \E x \in {a, b} : \A y \in {a, b} : x <= y
    OBVIOUS
  <2> QED BY <2>1 DEF Min
<1>2. Max({a, b}) \in {a, b} /\ \A y \in {a, b} : Max({a, b}) >= y
  <2>1. \E x \in {a, b} : \A y \in {a, b} : x >= y
    OBVIOUS
  <2> QED BY <2>1 DEF Max
<1> QED BY <1>1, <1>2

(* The cells that were the same before and after the last sync are there.  *)
LEMMA CellsAfterCrash ==
    ASSUME NEW old, NEW new, IsList(old), IsList(new), NEW cells \in CellImages(old, new)
    PROVE  /\ IsList(cells)
           /\ \A j \in Nat \ {0} : j <= Len(old) /\ j <= Len(new) /\ old[j] = new[j] =>
                 j <= Len(cells) /\ cells[j] = new[j]
           /\ old = new => cells = new
<1> DEFINE same(j) == j \in DOMAIN old \cap DOMAIN new /\ old[j] = new[j]
           cell(j, from) == IF j \in DOMAIN from THEN from[j] ELSE Garbage
           unsynced(n) == {j \in 1 .. n : ~ same(j)}
           image(n, from) == [j \in 1 .. n |-> IF same(j) THEN new[j] ELSE cell(j, from[j])]
           lengths == Min({Len(old), Len(new)}) .. Max({Len(old), Len(new)})
<1>0. PICK n \in lengths : \E from \in [unsynced(n) -> {old, new, <<>>}] : cells = image(n, from)
  <2> DEFINE images(n) == {image(n, from) : from \in [unsynced(n) -> {old, new, <<>>}]}
  <2>1. cells \in UNION {images(n) : n \in lengths}
    BY DEF CellImages
  <2> HIDE DEF lengths
  <2>2. PICK n \in lengths : cells \in images(n)
    BY <2>1
  <2> QED BY <2>2
<1>1. PICK from \in [unsynced(n) -> {old, new, <<>>}] : cells = image(n, from)
  BY <1>0
<1>2. /\ DOMAIN old = 1 .. Len(old) /\ Len(old) \in Nat
      /\ DOMAIN new = 1 .. Len(new) /\ Len(new) \in Nat
  BY ListDomain
<1>3. /\ n \in Nat /\ (Len(old) = Len(new) => n = Len(new))
      /\ \A j \in Nat : j <= Len(old) /\ j <= Len(new) => j <= n
  BY <1>2, TwoBounds
<1>4. Len(cells) = n /\ cells = [j \in 1 .. n |-> cells[j]]
  <2>1. DOMAIN cells = 1 .. n /\ cells = [j \in 1 .. n |-> cells[j]]
    BY <1>1
  <2>2. cells \in Seq({cells[j] : j \in 1 .. n})
    BY <1>3, <2>1
  <2>3. Len(cells) \in Nat /\ DOMAIN cells = 1 .. Len(cells)
    BY <2>2, LenProperties
  <2> QED BY <1>3, <2>1, <2>3
<1>5. \A j \in 1 .. n : same(j) => cells[j] = new[j]
  BY <1>1
<1> HIDE DEF lengths, image, unsynced, cell
<1>6. ASSUME NEW j \in Nat \ {0}, j <= Len(old), j <= Len(new), old[j] = new[j]
      PROVE  j <= Len(cells) /\ cells[j] = new[j]
  <2>0. j <= n
    BY <1>3, <1>6
  <2>1. j \in 1 .. n /\ j \in 1 .. Len(old) /\ j \in 1 .. Len(new)
    <3>1. j \in 1 .. n
      BY <1>3, <2>0
    <3>2. j \in 1 .. Len(old)
      BY <1>2, <1>6
    <3>3. j \in 1 .. Len(new)
      BY <1>2, <1>6
    <3> QED BY <3>1, <3>2, <3>3
  <2>2. same(j)
    BY <1>2, <1>6, <2>1
  <2> QED BY <1>3, <1>4, <1>5, <2>1, <2>2
<1>7. ASSUME old = new PROVE cells = new
  <2>1. n = Len(new) /\ \A j \in 1 .. n : cells[j] = new[j]
    BY <1>2, <1>3, <1>5, <1>7
  <2>2. new = [j \in 1 .. Len(new) |-> new[j]]
    BY DEF IsList
  <2> QED BY <1>4, <2>1, <2>2
<1> QED BY <1>3, <1>4, <1>6, <1>7 DEF IsList

LEMMA FileFacts ==
    ASSUME NEW cells, NEW even, NEW odd
    PROVE  LET f == File(cells, even, odd)
           IN  /\ f = [cells |-> f.cells, slots |-> f.slots] /\ f.cells = cells
               /\ f.slots = [parity \in 0 .. 1 |-> f.slots[parity]]
               /\ f.slots[0] = even /\ f.slots[1] = odd /\ SlotsOf(f) = {even, odd}
BY DEF File, SlotsOf

LEMMA FileIsGood ==
    ASSUME NEW cells, NEW even, NEW odd, IsList(cells), GoodSlot(even), GoodSlot(odd),
           even.gen # 0 => even.gen % 2 = 0, odd.gen # 0 => odd.gen % 2 = 1
    PROVE  GoodFile(File(cells, even, odd))
<1> DEFINE f == File(cells, even, odd)
<1>1. /\ f = [cells |-> f.cells, slots |-> f.slots] /\ f.cells = cells
      /\ f.slots = [parity \in 0 .. 1 |-> f.slots[parity]]
      /\ f.slots[0] = even /\ f.slots[1] = odd
  BY FileFacts
<1> HIDE DEF f
<1>2. \A parity \in 0 .. 1 : parity = 0 \/ parity = 1
  OBVIOUS
<1> QED BY <1>1, <1>2 DEF GoodFile, f

(* Every mixture of the two contents of a file that can be recovered can   *)
(* be read; a file that was synced is as it was.                           *)
LEMMA FileAfterCrash ==
    ASSUME NEW v, NEW d, GoodFile(v), GoodFile(d), NEW image \in FileImages(d, v)
    PROVE  /\ GoodFile(image)
           /\ Recoverable(v, d) => Recoverable(image, image)
           /\ d = v => image = v
<1>1. PICK cells \in CellImages(d.cells, v.cells),
           even \in SlotImages(d.slots[0], v.slots[0]),
           odd \in SlotImages(d.slots[1], v.slots[1]) : image = File(cells, even, odd)
  BY DEF FileImages
<1>2. IsList(v.cells) /\ IsList(d.cells)
  BY DEF GoodFile
<1>3. /\ IsList(cells)
      /\ \A j \in Nat \ {0} :
            j <= Len(d.cells) /\ j <= Len(v.cells) /\ d.cells[j] = v.cells[j] =>
               j <= Len(cells) /\ cells[j] = v.cells[j]
      /\ d.cells = v.cells => cells = v.cells
  BY <1>2, CellsAfterCrash
<1>4. even \in {d.slots[0], v.slots[0], NoCommit} /\ odd \in {d.slots[1], v.slots[1], NoCommit}
  BY <1>1 DEF SlotImages
<1>5. 0 \in 0 .. 1 /\ 1 \in 0 .. 1
  OBVIOUS
<1>6. /\ GoodSlot(d.slots[0]) /\ (d.slots[0].gen # 0 => d.slots[0].gen % 2 = 0)
      /\ GoodSlot(d.slots[1]) /\ (d.slots[1].gen # 0 => d.slots[1].gen % 2 = 1)
      /\ GoodSlot(v.slots[0]) /\ (v.slots[0].gen # 0 => v.slots[0].gen % 2 = 0)
      /\ GoodSlot(v.slots[1]) /\ (v.slots[1].gen # 0 => v.slots[1].gen % 2 = 1)
  BY <1>5 DEF GoodFile
<1>7. /\ GoodSlot(even) /\ (even.gen # 0 => even.gen % 2 = 0)
      /\ GoodSlot(odd) /\ (odd.gen # 0 => odd.gen % 2 = 1)
  BY <1>4, <1>6, NoCommitIsGood
<1>8. GoodFile(image)
  BY <1>1, <1>3, <1>7, FileIsGood
<1>9. image.cells = cells /\ SlotsOf(image) = {even, odd}
  <2>1. LET f == File(cells, even, odd) IN f.cells = cells /\ SlotsOf(f) = {even, odd}
    BY DEF File, SlotsOf
  <2> QED BY <1>1, <2>1
<1>10. ASSUME Recoverable(v, d) PROVE Recoverable(image, image)
  <2> DEFINE all == SlotsOf(v) \cup SlotsOf(d)
  <2>1. \A s \in SlotsOf(image) : s \in all \/ s = NoCommit
    BY <1>4, <1>9 DEF SlotsOf
  <2>2. /\ \A s \in all : Holds(v, s) /\ Holds(d, s) /\ GoodSlot(s)
        /\ \A s, t \in all : s.gen # 0 /\ s.gen <= t.gen => s.at <= t.at
    BY <1>10, SlotsAreGood DEF Recoverable
  <2> HIDE DEF all
  <2>3. ASSUME NEW s \in SlotsOf(image)
        PROVE  Holds(image, s) /\ s.gen <= ReadCommit(image).gen
    <3>1. s.gen <= ReadCommit(image).gen
      BY <1>8, ReadCommitFacts
    <3>2. CASE s = NoCommit
      BY <3>1, <3>2, NoCommitIsGood
    <3>3. CASE s \in all
      <4>1. SUFFICES ASSUME s.gen # 0
                     PROVE  /\ BlocksIntact(image, s)
                            /\ s.at <= Len(image.cells) /\ image.cells[s.at] = s.index
        BY <3>1 DEF Holds
      <4>2. /\ BlocksIntact(v, s) /\ s.at <= Len(v.cells) /\ v.cells[s.at] = s.index
            /\ BlocksIntact(d, s) /\ s.at <= Len(d.cells) /\ d.cells[s.at] = s.index
            /\ s.at \in Nat \ {0}
            /\ \A i \in DOMAIN s.index.table : s.index.table[i].at \in 1 .. s.at - 1
        BY <2>2, <3>3, <4>1 DEF Holds, GoodSlot
      <4>3. ASSUME NEW i \in DOMAIN s.index.table
            PROVE  LET block == s.index.table[i]
                   IN  /\ block.at <= Len(image.cells)
                       /\ image.cells[block.at] = BlockCell(block.rows)
        <5> DEFINE block == s.index.table[i]
        <5>1. /\ block.at <= Len(v.cells) /\ v.cells[block.at] = BlockCell(block.rows)
              /\ block.at <= Len(d.cells) /\ d.cells[block.at] = BlockCell(block.rows)
          BY <4>2 DEF BlocksIntact
        <5>2. block.at \in Nat \ {0}
          BY <4>2
        <5> QED BY <1>3, <1>9, <5>1, <5>2
      <4>4. s.at <= Len(image.cells) /\ image.cells[s.at] = s.index
        BY <1>3, <1>9, <4>2
      <4> QED BY <4>3, <4>4 DEF BlocksIntact
    <3> QED BY <2>1, <3>2, <3>3
  <2>4. ASSUME NEW s \in SlotsOf(image), NEW t \in SlotsOf(image), s.gen # 0, s.gen <= t.gen
        PROVE  s.at <= t.at
    <3>1. s.gen \in Nat /\ t.gen \in Nat
      BY <1>8, SlotsAreGood
    <3>2. s # NoCommit /\ t # NoCommit
      BY <2>4, <3>1, NoCommitIsGood
    <3> QED BY <2>1, <2>2, <2>4, <3>2
  <2> QED BY <2>3, <2>4 DEF Recoverable
<1>11. ASSUME d = v PROVE image = v
  <2>1. even = v.slots[0] /\ odd = v.slots[1] /\ cells = v.cells
    BY <1>1, <1>3, <1>11 DEF SlotImages
  <2>2. /\ v = [cells |-> v.cells, slots |-> v.slots]
        /\ v.slots = [parity \in 0 .. 1 |-> v.slots[parity]]
    BY DEF GoodFile
  <2>3. v.slots = [parity \in 0 .. 1 |-> IF parity = 0 THEN v.slots[0] ELSE v.slots[1]]
    BY <2>2
  <2> QED BY <1>1, <2>1, <2>2, <2>3 DEF File
<1> QED BY <1>8, <1>10, <1>11

LEMMA BlankIsGood == GoodFile(Blank)
<1>1. IsList(<<>>)
  <2>1. Len(<<>>) = 0 /\ DOMAIN <<>> = {} /\ 1 .. 0 = {}
    OBVIOUS
  <2>2. <<>> = [i \in 1 .. 0 |-> <<>>[i]]
    OBVIOUS
  <2> QED BY <2>1, <2>2 DEF IsList
<1> QED BY <1>1, NoCommitIsGood, FileIsGood DEF Blank

LEMMA TableIsList ==
    ASSUME NEW n \in Nat, NEW t, t = [i \in 1 .. n |-> t[i]]
    PROVE  IsList(t) /\ Len(t) = n /\ DOMAIN t = 1 .. n
<1>1. t \in [1 .. n -> {t[i] : i \in 1 .. n}] /\ DOMAIN t = 1 .. n
  OBVIOUS
<1>2. t \in Seq({t[i] : i \in 1 .. n})
  BY <1>1
<1>3. Len(t) \in Nat /\ DOMAIN t = 1 .. Len(t) /\ t = [i \in 1 .. Len(t) |-> t[i]]
  BY <1>2, LenProperties
<1>4. Len(t) = n
  BY <1>1, <1>3
<1> QED BY <1>1, <1>3, <1>4 DEF IsList

(* The runs of a content, in time order, are all its runs.                 *)
LEMMA RunStartsFacts ==
    ASSUME NEW c, NEW starts \in RunStarts(c)
    PROVE  /\ Len(starts) \in Nat /\ DOMAIN starts = 1 .. Len(starts)
           /\ \A i \in 1 .. Len(starts) : starts[i] \in Covered(c) /\ starts[i] - 1 \notin Covered(c)
           /\ \A i, j \in 1 .. Len(starts) : i < j => starts[i] < starts[j]
           /\ \A r \in Covered(c) : r - 1 \notin Covered(c) =>
                 \E i \in 1 .. Len(starts) : starts[i] = r
<1> DEFINE firsts == {r \in Covered(c) : r - 1 \notin Covered(c)}
           n      == Cardinality(firsts)
<1>1. firsts \subseteq Ranges /\ firsts \subseteq Nat
  BY BoundsAssumption DEF Covered
<1>2. starts \in [1 .. n -> firsts] /\ \A i, j \in DOMAIN starts : i < j => starts[i] < starts[j]
  BY DEF RunStarts
<1>3. \A r \in firsts : r \in Covered(c) /\ r - 1 \notin Covered(c)
  OBVIOUS
<1>4. \A r \in Covered(c) : r - 1 \notin Covered(c) => r \in firsts
  OBVIOUS
<1> HIDE DEF firsts
<1>5. IsFiniteSet(firsts) /\ n \in Nat
  BY <1>1, BoundsAssumption, FS_Subset, FS_CardinalityType
<1> HIDE DEF n
<1>6. DOMAIN starts = 1 .. n /\ Len(starts) = n
  <2>1. starts \in Seq(firsts)
    BY <1>2, <1>5
  <2>2. Len(starts) \in Nat /\ DOMAIN starts = 1 .. Len(starts)
    BY <2>1, LenProperties
  <2> QED BY <1>2, <1>5, <2>2
<1>7. ASSUME NEW r \in firsts PROVE \E i \in 1 .. n : starts[i] = r
  <2>1. starts \in Injection(1 .. n, firsts)
    <3>1. ASSUME NEW i \in 1 .. n, NEW j \in 1 .. n, starts[i] = starts[j] PROVE i = j
      <4>0. starts[i] \in firsts /\ starts[j] \in firsts
        BY <1>2
      <4>1. starts[i] \in Nat /\ starts[j] \in Nat /\ i \in Nat /\ j \in Nat
        <5>1. starts[i] \in Nat /\ starts[j] \in Nat
          BY <1>1, <4>0, Zenon
        <5>2. i \in Nat /\ j \in Nat
          BY <1>5
        <5> QED BY <5>1, <5>2
      <4>2. ~(i < j) /\ ~(j < i)
        BY <1>2, <1>6, <3>1, <4>1
      <4> QED BY <4>1, <4>2
    <3> QED BY <1>2, <3>1 DEF Injection, IsInjective
  <2>2. Cardinality(1 .. n) = n
    BY <1>5, FS_Interval
  <2>3. starts \in Surjection(1 .. n, firsts)
    BY <1>5, <2>1, <2>2, FS_Injection DEF n
  <2> QED BY <2>3 DEF Surjection
<1> QED BY <1>2, <1>3, <1>4, <1>5, <1>6, <1>7

(* A range that is covered belongs to a run.                               *)
LEMMA FirstOfRun ==
    ASSUME NEW c, NEW r \in Covered(c)
    PROVE  \E m \in Covered(c) : m - 1 \notin Covered(c) /\ m <= r /\ m .. r \subseteq Covered(c)
<1> DEFINE Down == {k \in Covered(c) : k <= r /\ k .. r \subseteq Covered(c)}
<1>1. Covered(c) \subseteq Nat \ {0}
  BY BoundsAssumption DEF Covered
<1>2. r \in Down
  <2>1. r .. r = {r} /\ r <= r
    BY <1>1
  <2> QED BY <2>1
<1>3. PICK m \in Down : \A k \in Down : m <= k
  <2>1. Down \subseteq Nat
    BY <1>1
  <2> HIDE DEF Down
  <2> QED BY <1>2, <2>1, LeastNat
<1>4. ASSUME m - 1 \in Covered(c) PROVE FALSE
  <2>1. m \in Nat /\ r \in Nat /\ m - 1 \in Nat /\ m <= r /\ m .. r \subseteq Covered(c)
    BY <1>1, <1>3, <1>4
  <2>2. ASSUME NEW k \in m - 1 .. r PROVE k \in Covered(c)
    <3>1. k = m - 1 \/ k \in m .. r
      BY <2>1
    <3> QED BY <1>4, <2>1, <3>1
  <2>3. m - 1 <= r /\ ~ (m <= m - 1)
    BY <2>1
  <2>4. m - 1 \in Down
    BY <1>4, <2>2, <2>3
  <2> QED BY <1>3, <2>3, <2>4
<1> QED BY <1>3, <1>4

LEMMA RunFacts ==
    ASSUME NEW c, NEW first, NEW r \in Ranges
    PROVE  /\ Run(c, first)[r] # 0 => first <= r /\ first .. r \subseteq Covered(c)
           /\ first <= r /\ first .. r \subseteq Covered(c) => Run(c, first)[r] = c[r]
           /\ Run(c, first)[r] # 0 => Run(c, first)[r] = c[r]
BY DEF Run

(* The blocks of a new container follow each other in time, and together   *)
(* are the content it was written for.                                     *)
LEMMA RunsAreValid ==
    ASSUME NEW c, NEW starts \in RunStarts(c), NEW table,
           table = [i \in 1 .. Len(starts) |-> [at |-> i, rows |-> Run(c, starts[i])]]
    PROVE  /\ ValidIndex(table, Len(starts) + 1)
           /\ \A s : s.index.table = table /\ c \in Content => Indexed(s) = c
<1> DEFINE n == Len(starts)
<1>1. /\ n \in Nat
      /\ \A i \in 1 .. n : starts[i] \in Covered(c) /\ starts[i] - 1 \notin Covered(c)
      /\ \A i, j \in 1 .. n : i < j => starts[i] < starts[j]
      /\ \A r \in Covered(c) : r - 1 \notin Covered(c) => \E i \in 1 .. n : starts[i] = r
  BY RunStartsFacts
<1>2. DOMAIN table = 1 .. n /\ \A i \in 1 .. n : table[i].at = i /\ table[i].rows = Run(c, starts[i])
  OBVIOUS
<1>3. Covered(c) \subseteq Nat \ {0} /\ Covered(c) \subseteq Ranges /\ Ranges \subseteq Nat
  BY BoundsAssumption DEF Covered
<1> HIDE DEF n
<1>4. ASSUME NEW i \in 1 .. n
      PROVE  table[i].at < n + 1 /\ Covered(table[i].rows) # {}
  <2>1. starts[i] \in Ranges /\ starts[i] \in Nat /\ starts[i] \in Covered(c)
    BY <1>1, <1>3
  <2>2. starts[i] <= starts[i] /\ starts[i] .. starts[i] \subseteq Covered(c)
    BY <2>1
  <2>3. table[i].rows[starts[i]] = c[starts[i]] /\ c[starts[i]] # 0
    BY <1>2, <2>1, <2>2, RunFacts DEF Covered
  <2>4. table[i].at < n + 1
    BY <1>1, <1>2
  <2> QED BY <2>1, <2>3, <2>4 DEF Covered
<1>5. ASSUME NEW i \in 1 .. n, NEW j \in 1 .. n, i < j
      PROVE  /\ table[i].at < table[j].at
             /\ \A q \in Covered(table[i].rows), r \in Covered(table[j].rows) : q < r
  <2>1. table[i].at < table[j].at
    BY <1>2, <1>5
  <2>2. ASSUME NEW q \in Covered(table[i].rows), NEW r \in Covered(table[j].rows) PROVE q < r
    <3>1. q \in Ranges /\ r \in Ranges /\ Run(c, starts[i])[q] # 0 /\ Run(c, starts[j])[r] # 0
      BY <1>2, <2>2 DEF Covered
    <3>2. starts[i] <= q /\ starts[i] .. q \subseteq Covered(c) /\ starts[j] <= r
      BY <3>1, RunFacts
    <3>3. /\ starts[i] < starts[j] /\ starts[j] - 1 \notin Covered(c)
          /\ starts[i] \in Nat /\ starts[j] \in Nat /\ q \in Nat /\ r \in Nat
      BY <1>1, <1>3, <1>5, <3>1
    <3>4. starts[j] - 1 \notin starts[i] .. q
      BY <3>2, <3>3
    <3>5. q < starts[j]
      BY <3>3, <3>4
    <3> QED BY <3>2, <3>3, <3>5
  <2> QED BY <2>1, <2>2
<1>6. ValidIndex(table, n + 1)
  <2>1. \A i \in DOMAIN table : table[i].at < n + 1 /\ Covered(table[i].rows) # {}
    BY <1>2, <1>4, Zenon
  <2>2. \A i, j \in DOMAIN table : i < j =>
           /\ table[i].at < table[j].at
           /\ \A q \in Covered(table[i].rows), r \in Covered(table[j].rows) : q < r
    <3> SUFFICES ASSUME NEW i \in DOMAIN table, NEW j \in DOMAIN table, i < j
                 PROVE  /\ table[i].at < table[j].at
                        /\ \A q \in Covered(table[i].rows), r \in Covered(table[j].rows) : q < r
      OBVIOUS
    <3>1. i \in 1 .. n /\ j \in 1 .. n
      BY <1>2
    <3> QED BY <1>5, <3>1, Zenon
  <2> QED BY <2>1, <2>2, Zenon DEF ValidIndex
<1>7. ASSUME NEW s, s.index.table = table, c \in Content PROVE Indexed(s) = c
  <2> DEFINE covering(r) == {i \in DOMAIN table : table[i].rows[r] # 0}
             value(r) == IF covering(r) = {} THEN 0
                         ELSE table[CHOOSE i \in covering(r) : TRUE].rows[r]
  <2>1. Indexed(s) = [r \in Ranges |-> value(r)]
    BY <1>7 DEF Indexed
  <2>2. ASSUME NEW r \in Ranges PROVE value(r) = c[r]
    <3>1. ASSUME NEW i \in covering(r) PROVE table[i].rows[r] = c[r]
      BY <1>2, <3>1, RunFacts
    <3>2. CASE covering(r) = {}
      <4>1. ASSUME c[r] # 0 PROVE FALSE
        <5>1. r \in Covered(c)
          BY <4>1 DEF Covered
        <5>2. PICK m \in Covered(c) : m - 1 \notin Covered(c) /\ m <= r /\ m .. r \subseteq Covered(c)
          BY <5>1, FirstOfRun
        <5>3. PICK i \in 1 .. n : starts[i] = m
          BY <1>1, <5>2
        <5>4. table[i].rows[r] = c[r]
          BY <1>2, <5>2, <5>3, RunFacts
        <5>5. i \in covering(r)
          BY <1>2, <4>1, <5>4
        <5> QED BY <3>2, <5>5
      <4> QED BY <3>2, <4>1
    <3>3. CASE covering(r) # {}
      <4>1. (CHOOSE i \in covering(r) : TRUE) \in covering(r)
        BY <3>3
      <4> QED BY <3>1, <3>3, <4>1
    <3> QED BY <3>2, <3>3
  <2>3. c = [r \in Ranges |-> c[r]]
    BY <1>7 DEF Content
  <2> HIDE DEF value
  <2> QED BY <2>1, <2>2, <2>3
<1> QED BY <1>6, <1>7 DEF n

(* The container that write_new writes holds its blocks.                   *)
LEMMA ContainerIsGood ==
    ASSUME NEW c, NEW starts \in RunStarts(c)
    PROVE  LET f == Container(c, starts)
           IN  /\ GoodFile(f) /\ Recoverable(f, f) /\ ReadCommit(f).gen # 0
               /\ c \in Content => Indexed(ReadCommit(f)) = c
<1> DEFINE n      == Len(starts)
           table  == [i \in 1 .. n |-> [at |-> i, rows |-> Run(c, starts[i])]]
           blocks == [i \in 1 .. n |-> BlockCell(Run(c, starts[i]))]
           index  == IndexCell(table)
           cells  == Append(blocks, index)
           slot   == Slot(1, n + 1, index)
           f      == File(cells, NoCommit, slot)
<1>1. n \in Nat /\ DOMAIN starts = 1 .. n
  BY RunStartsFacts
<1>2. /\ ValidIndex(table, n + 1)
      /\ \A s : s.index.table = table /\ c \in Content => Indexed(s) = c
  BY RunsAreValid
<1>4. Container(c, starts) = f
  BY <1>1 DEF Container
<1> HIDE DEF n
<1>5. /\ IsList(table) /\ Len(table) = n /\ DOMAIN table = 1 .. n
      /\ \A i \in 1 .. n : table[i] = [at |-> i, rows |-> Run(c, starts[i])]
  <2>1. /\ table = [i \in 1 .. n |-> table[i]]
        /\ \A i \in 1 .. n : table[i] = [at |-> i, rows |-> Run(c, starts[i])]
    OBVIOUS
  <2> HIDE DEF table
  <2> QED BY <1>1, <2>1, TableIsList
<1>6. /\ IsList(blocks) /\ Len(blocks) = n
      /\ \A i \in 1 .. n : blocks[i] = BlockCell(Run(c, starts[i]))
  <2>1. /\ blocks = [i \in 1 .. n |-> blocks[i]]
        /\ \A i \in 1 .. n : blocks[i] = BlockCell(Run(c, starts[i]))
    OBVIOUS
  <2> HIDE DEF blocks
  <2> QED BY <1>1, <2>1, TableIsList
<1>7. index.table = table
  BY DEF IndexCell
<1> HIDE DEF table, blocks, index
<1>8. /\ IsList(cells) /\ Len(cells) = n + 1 /\ cells[n + 1] = index
      /\ \A i \in 1 .. n : cells[i] = blocks[i]
  BY <1>6, ListAppend
<1>9. slot.gen = 1 /\ slot.at = n + 1 /\ slot.index = index
  BY DEF Slot
<1> HIDE DEF cells, slot
<1>10. GoodSlot(slot)
  <2>1. \A i \in 1 .. n : table[i].at \in 1 .. slot.at - 1
    BY <1>1, <1>5, <1>9
  <2>2. ValidIndex(slot.index.table, slot.at)
    BY <1>2, <1>7, <1>9
  <2> QED BY <1>1, <1>5, <1>7, <1>9, <2>1, <2>2 DEF GoodSlot
<1>11. GoodFile(f)
  <2>1. slot.gen # 0 => slot.gen % 2 = 1
    BY <1>9
  <2> QED BY <1>8, <1>10, <2>1, NoCommitIsGood, FileIsGood
<1>12. /\ f.cells = cells /\ SlotsOf(f) = {NoCommit, slot}
       /\ f.slots[0] = NoCommit /\ f.slots[1] = slot
  BY DEF File, SlotsOf
<1> HIDE DEF f
<1>13. Holds(f, slot)
  <2>1. ASSUME NEW i \in 1 .. n
        PROVE  table[i].at <= Len(f.cells) /\ f.cells[table[i].at] = BlockCell(table[i].rows)
    <3>1. table[i].at = i /\ table[i].rows = Run(c, starts[i])
      BY <1>5
    <3>2. i <= n + 1
      BY <1>1
    <3> QED BY <1>6, <1>8, <1>12, <3>1, <3>2
  <2>2. BlocksIntact(f, slot)
    BY <1>5, <1>7, <1>9, <2>1 DEF BlocksIntact
  <2>3. slot.at <= Len(f.cells) /\ f.cells[slot.at] = slot.index
    BY <1>1, <1>8, <1>9, <1>12
  <2> QED BY <2>2, <2>3 DEF Holds
<1>14. Recoverable(f, f)
  <2>1. \A s \in SlotsOf(f) : Holds(f, s) /\ s.gen <= ReadCommit(f).gen
    BY <1>11, <1>12, <1>13, ReadCommitFacts, NoCommitIsGood
  <2>2. ASSUME NEW s \in SlotsOf(f), NEW t \in SlotsOf(f), s.gen # 0, s.gen <= t.gen
        PROVE  s.at <= t.at
    <3>1. s = slot /\ t = slot
      BY <1>9, <1>12, <2>2, NoCommitIsGood
    <3> QED BY <1>1, <1>9, <3>1
  <2> QED BY <2>1, <2>2 DEF Recoverable
<1>15. ReadCommit(f) = slot
  BY <1>9, <1>12, NoCommitIsGood DEF ReadCommit
<1>16. ReadCommit(f).gen # 0 /\ (c \in Content => Indexed(ReadCommit(f)) = c)
  BY <1>2, <1>7, <1>9, <1>15
<1> QED BY <1>4, <1>11, <1>14, <1>16

-----------------------------------------------------------------------------
(* What a step does to the files.                                          *)

LEMMA ReaderGrows ==
    ASSUME NEW f, NEW g, NEW c, GoodFile(f), GoodSlot(c), c.gen # 0, Holds(f, c),
           ReadCommit(f).gen # 0, c.at <= ReadCommit(f).at, GoodFile(g), Grows(f, g)
    PROVE  Holds(g, c) /\ ReadCommit(g).gen # 0 /\ c.at <= ReadCommit(g).at
<1>1. GoodSlot(ReadCommit(f)) /\ GoodSlot(ReadCommit(g))
  BY ReadCommitFacts
<1>2. /\ \A j \in 1 .. ReadCommit(f).at :
            j <= Len(f.cells) => j <= Len(g.cells) /\ g.cells[j] = f.cells[j]
      /\ ReadCommit(g).gen # 0 /\ ReadCommit(f).at <= ReadCommit(g).at
  BY DEF Grows
<1>3. c.at \in Nat /\ ReadCommit(f).at \in Nat /\ ReadCommit(g).at \in Nat
  BY <1>1, <1>2 DEF GoodSlot
<1>4. \A j \in 1 .. c.at : j <= Len(f.cells) => j <= Len(g.cells) /\ g.cells[j] = f.cells[j]
  <2>1. \A j \in 1 .. c.at : j \in 1 .. ReadCommit(f).at
    BY <1>3
  <2> QED BY <1>2, <2>1
<1>5. Holds(g, c)
  BY <1>4, HoldsKept
<1> QED BY <1>2, <1>3, <1>5

LEMMA FilesUntouched ==
    ASSUME Files, UNCHANGED <<vol, dur, path, durPath, alias, kept, reader>>
    PROVE  Files'
BY DEF Files, FileInv, ReaderInv, AliasInv

(* The partition's file is written to.                                     *)
LEMMA FileWritten ==
    ASSUME Files, NEW g, path \in Inodes, path # None, path # alias, GoodFile(g),
           Recoverable(g, dur[path]), Grows(vol[path], g), vol' = [vol EXCEPT ![path] = g],
           UNCHANGED <<dur, path, durPath, alias, kept, reader>>
    PROVE  Files' /\ vol'[path] = g
<1>1. /\ vol = [i \in Inodes |-> vol[i]] /\ dur = [i \in Inodes |-> dur[i]]
      /\ \A i \in Inodes : GoodFile(vol[i]) /\ GoodFile(dur[i])
      /\ {path, durPath, alias} \subseteq Inodes \cup {None}
      /\ \A i \in {path, durPath} \ {None} : Recoverable(vol[i], dur[i])
  BY DEF Files, FileInv
<1>2. /\ vol' = [i \in Inodes |-> IF i = path THEN g ELSE vol[i]]
      /\ vol'[path] = g /\ \A i \in Inodes : i # path => vol'[i] = vol[i]
  BY <1>1
<1>3. FileInv'
  BY <1>1, <1>2 DEF FileInv
<1>4. ReaderInv'
  <2>1. reader' = [x \in Readers |-> reader'[x]]
    BY DEF Files, ReaderInv
  <2>2. ASSUME NEW x \in Readers, reader[x] # Closed
        PROVE  LET i == reader[x].inode
                   c == reader[x].commit
               IN  /\ i \in Inodes /\ GoodSlot(c) /\ c.gen # 0
                   /\ Holds(vol'[i], c)
                   /\ ReadCommit(vol'[i]).gen # 0 /\ c.at <= ReadCommit(vol'[i]).at
    <3> DEFINE i == reader[x].inode
               c == reader[x].commit
    <3>1. /\ i \in Inodes /\ GoodSlot(c) /\ c.gen # 0
          /\ Holds(vol[i], c)
          /\ ReadCommit(vol[i]).gen # 0 /\ c.at <= ReadCommit(vol[i]).at
      BY <2>2 DEF Files, ReaderInv
    <3> HIDE DEF i, c
    <3>2. CASE i = path
      <4>1. GoodFile(vol[i]) /\ Grows(vol[i], g) /\ vol'[i] = g
        BY <1>1, <1>2, <3>1, <3>2
      <4>2. Holds(g, c) /\ ReadCommit(g).gen # 0 /\ c.at <= ReadCommit(g).at
        BY <3>1, <4>1, ReaderGrows
      <4> QED BY <3>1, <4>1, <4>2 DEF i, c
    <3>3. CASE i # path
      BY <1>2, <3>1, <3>3 DEF i, c
    <3> QED BY <3>2, <3>3
  <2> QED BY <2>1, <2>2 DEF ReaderInv
<1>5. AliasInv'
  BY <1>1, <1>2 DEF Files, AliasInv
<1> QED BY <1>2, <1>3, <1>4, <1>5 DEF Files

(* A readable file is synced.                                              *)
LEMMA FileSynced ==
    ASSUME Files, NEW i \in Inodes, Recoverable(vol[i], vol[i]), Sync(i),
           UNCHANGED <<vol, path, alias, kept, reader>>
    PROVE  Files' /\ dur'[i] = vol[i]
<1>1. /\ vol = [j \in Inodes |-> vol[j]] /\ dur = [j \in Inodes |-> dur[j]]
      /\ \A j \in Inodes : GoodFile(vol[j]) /\ GoodFile(dur[j])
      /\ {path, durPath, alias} \subseteq Inodes \cup {None}
      /\ \A j \in {path, durPath} \ {None} : Recoverable(vol[j], dur[j])
  BY DEF Files, FileInv
<1>2. /\ dur' = [j \in Inodes |-> IF j = i THEN vol[i] ELSE dur[j]]
      /\ dur'[i] = vol[i] /\ \A j \in Inodes : j # i => dur'[j] = dur[j]
      /\ durPath' \in {path, durPath}
  BY <1>1 DEF Sync
<1>3. FileInv'
  <2>1. ASSUME NEW j \in {path, durPath} \ {None} PROVE Recoverable(vol[j], dur'[j])
    BY <1>1, <1>2
  <2> QED BY <1>1, <1>2, <2>1 DEF FileInv
<1>4. ReaderInv'
  BY DEF Files, ReaderInv
<1>5. AliasInv'
  BY <1>1, <1>2 DEF Files, AliasInv
<1> QED BY <1>2, <1>3, <1>4, <1>5 DEF Files

(* A file that nobody refers to is written.                                *)
LEMMA FileCreated ==
    ASSUME Files, NEW g, NEW h, GoodFile(g), GoodFile(h), FreeInode # {},
           writer.candidate = None,
           vol' = [vol EXCEPT ![NewInode] = g], dur' = [dur EXCEPT ![NewInode] = h],
           UNCHANGED <<path, durPath, alias, kept, reader>>
    PROVE  /\ Files' /\ vol'[NewInode] = g /\ dur'[NewInode] = h
           /\ NewInode \in Inodes \ {None, path, durPath, alias, writer.inode}
<1>1. /\ vol = [j \in Inodes |-> vol[j]] /\ dur = [j \in Inodes |-> dur[j]]
      /\ \A j \in Inodes : GoodFile(vol[j]) /\ GoodFile(dur[j])
      /\ {path, durPath, alias} \subseteq Inodes \cup {None}
      /\ \A j \in {path, durPath} \ {None} : Recoverable(vol[j], dur[j])
  BY DEF Files, FileInv
<1> DEFINE n == NewInode
<1>2. n \in FreeInode
  BY DEF NewInode
<1>3. n \in Inodes \ {None, path, durPath, alias, writer.inode}
  BY <1>2 DEF FreeInode, Referenced
<1>4. \A x \in Readers : reader[x].inode # n
  BY <1>2 DEF FreeInode, Referenced
<1> HIDE DEF n
<1>5. /\ vol' = [j \in Inodes |-> IF j = n THEN g ELSE vol[j]]
      /\ dur' = [j \in Inodes |-> IF j = n THEN h ELSE dur[j]]
  BY <1>1 DEF n
<1>6. /\ vol'[n] = g /\ \A j \in Inodes : j # n => vol'[j] = vol[j]
      /\ dur'[n] = h /\ \A j \in Inodes : j # n => dur'[j] = dur[j]
  BY <1>3, <1>5
<1>7. FileInv'
  <2>1. vol' = [j \in Inodes |-> vol'[j]] /\ dur' = [j \in Inodes |-> dur'[j]]
    BY <1>5
  <2>2. \A j \in Inodes : GoodFile(vol'[j]) /\ GoodFile(dur'[j])
    BY <1>1, <1>6
  <2>3. \A j \in {path, durPath} \ {None} : Recoverable(vol'[j], dur'[j])
    BY <1>1, <1>3, <1>6
  <2> QED BY <1>1, <2>1, <2>2, <2>3 DEF FileInv
<1>8. ReaderInv'
  <2>1. \A x \in Readers : reader[x] # Closed =>
           reader[x].inode \in Inodes /\ vol'[reader[x].inode] = vol[reader[x].inode]
    BY <1>4, <1>6 DEF Files, ReaderInv
  <2> QED BY <2>1 DEF Files, ReaderInv
<1>9. AliasInv'
  BY <1>1, <1>3, <1>6 DEF Files, AliasInv
<1> QED BY <1>3, <1>6, <1>7, <1>8, <1>9 DEF Files, n

-----------------------------------------------------------------------------
(* The steps that leave the files alone, sync them, or create one.         *)

LEMMA WriterIdle ==
    ASSUME writer' = Idle
    PROVE  WriterInv'
BY DEF Idle, WriterInv, WriterType, CandidateInv, WritingInv, Publishing, Writing

LEMMA WriterMoves ==
    ASSUME WriterInv, NEW q, writer' = [writer EXCEPT !.pc = q],
           q \in {"recover"} \cup Publishing \cup Writing
    PROVE  /\ WriterType' /\ writer'.pc = q /\ writer'.inode = writer.inode
           /\ writer'.candidate = writer.candidate /\ writer'.commit = writer.commit
           /\ writer'.rows = writer.rows
BY DEF WriterInv, WriterType, Publishing, Writing

LEMMA PathFacts ==
    ASSUME Files, path # None
    PROVE  /\ path \in Inodes /\ GoodFile(vol[path]) /\ GoodFile(dur[path])
           /\ Recoverable(vol[path], dur[path]) /\ Recoverable(vol[path], vol[path])
           /\ Loads(vol[path]) => ReadCommit(vol[path]).gen # 0
<1>1. path \in Inodes /\ GoodFile(vol[path]) /\ GoodFile(dur[path]) /\ Recoverable(vol[path], dur[path])
  BY DEF Files, FileInv
<1>2. Loads(vol[path]) => ReadCommit(vol[path]).gen # 0
  BY DEF Loads
<1> QED BY <1>1, <1>2, RecoverableSelf

LEMMA StartStep ==
    ASSUME ContainerInv, (\E r \in Ranges : StoreAppend(r)) \/ PrepareAppendIndex
    PROVE  ContainerInv'
<1>1. PICK rows : /\ writer' = [pc |-> "recover", inode |-> path, candidate |-> None,
                                commit |-> ReadCommit(vol[path]), rows |-> rows]
                  /\ path # None /\ Loads(vol[path])
                  /\ UNCHANGED <<vol, dur, path, durPath, alias, kept, reader>>
  <2>1. CASE \E r \in Ranges : StoreAppend(r)
    <3>1. PICK r \in Ranges : StoreAppend(r)
      BY <2>1
    <3> DEFINE rows == [Empty EXCEPT ![r] = used.stores + 1]
    <3>2. writer' = [Idle EXCEPT !.pc = "recover", !.inode = path,
                                 !.commit = ReadCommit(vol[path]), !.rows = rows]
      BY <3>1 DEF StoreAppend
    <3> HIDE DEF rows
    <3>3. writer' = [pc |-> "recover", inode |-> path, candidate |-> None,
                     commit |-> ReadCommit(vol[path]), rows |-> rows]
      BY <3>2 DEF Idle
    <3> QED BY <3>1, <3>3 DEF StoreAppend
  <2>2. CASE PrepareAppendIndex
    <3>1. writer' = [Idle EXCEPT !.pc = "recover", !.inode = path,
                                 !.commit = ReadCommit(vol[path])]
      BY <2>2 DEF PrepareAppendIndex
    <3>2. writer' = [pc |-> "recover", inode |-> path, candidate |-> None,
                     commit |-> ReadCommit(vol[path]), rows |-> Empty]
      BY <3>1 DEF Idle
    <3> QED BY <2>2, <3>2 DEF PrepareAppendIndex
  <2> QED BY <2>1, <2>2
<1>2. /\ DOMAIN writer' = {"pc", "inode", "candidate", "commit", "rows"}
      /\ writer'.pc = "recover" /\ writer'.inode = path /\ writer'.candidate = None
      /\ writer'.commit = ReadCommit(vol[path])
  BY <1>1
<1>3. Files'
  BY <1>1, FilesUntouched DEF ContainerInv
<1>4. path \in Inodes /\ ReadCommit(vol[path]).gen # 0
  BY <1>1, PathFacts DEF ContainerInv
<1>5. WriterInv'
  <2>1. WriterType' /\ CandidateInv'
    BY <1>2 DEF WriterType, CandidateInv, Publishing
  <2>2. WritingInv'
    BY <1>1, <1>2, <1>4 DEF WritingInv, Writing
  <2> QED BY <2>1, <2>2 DEF WriterInv
<1> QED BY <1>3, <1>5 DEF ContainerInv

LEMMA RewriteStep ==
    ASSUME ContainerInv, NEW r \in Ranges, StoreRewrite(r)
    PROVE  ContainerInv'
<1> DEFINE content == [Visible EXCEPT ![r] = used.stores + 1]
<1>1. PICK starts \in RunStarts(content) :
         /\ vol' = [vol EXCEPT ![NewInode] = Container(content, starts)]
         /\ dur' = [dur EXCEPT ![NewInode] = Container(content, starts)]
  BY DEF StoreRewrite
<1>2. /\ writer.pc = "idle" /\ FreeInode # {}
      /\ writer' = [Idle EXCEPT !.pc = "publish", !.candidate = NewInode, !.rows = content]
      /\ UNCHANGED <<path, durPath, alias, kept, reader>>
  BY DEF StoreRewrite, Locked
<1>3. writer' = [pc |-> "publish", inode |-> None, candidate |-> NewInode,
                 commit |-> NoCommit, rows |-> content]
  BY <1>2 DEF Idle
<1>4. writer.candidate = None
  BY <1>2 DEF ContainerInv, WriterInv, WriterType, Idle
<1>5. GoodFile(Container(content, starts)) /\ Recoverable(Container(content, starts), Container(content, starts))
  BY ContainerIsGood
<1> HIDE DEF content
<1>6. /\ Files' /\ vol'[NewInode] = Container(content, starts)
      /\ NewInode \in Inodes \ {None, path, durPath, alias, writer.inode}
  BY <1>1, <1>2, <1>4, <1>5, FileCreated DEF ContainerInv
<1>7. WriterInv'
  <2>1. /\ DOMAIN writer' = {"pc", "inode", "candidate", "commit", "rows"}
        /\ writer'.pc = "publish" /\ writer'.inode = None /\ writer'.candidate = NewInode
    BY <1>3
  <2>2. WriterType' /\ WritingInv'
    BY <2>1 DEF WriterType, WritingInv, Publishing, Writing
  <2>3. CandidateInv'
    BY <1>2, <1>5, <1>6, <2>1 DEF CandidateInv
  <2> QED BY <2>2, <2>3 DEF WriterInv
<1> QED BY <1>6, <1>7 DEF ContainerInv

LEMMA PurgeStep ==
    ASSUME ContainerInv, Purge
    PROVE  ContainerInv'
<1>1. /\ writer = Idle /\ writer' = Idle /\ path' = None
      /\ UNCHANGED <<vol, dur, durPath, alias, kept, reader>>
  BY DEF Purge, Locked, ContainerInv, WriterInv, WriterType
<1>2. FileInv' /\ ReaderInv' /\ AliasInv'
  BY <1>1 DEF ContainerInv, Files, FileInv, ReaderInv, AliasInv
<1> QED BY <1>1, <1>2, WriterIdle DEF ContainerInv, Files

LEMMA HardLinkStep ==
    ASSUME ContainerInv, HardLink
    PROVE  ContainerInv'
<1>1. /\ writer = Idle /\ writer' = Idle /\ path # None /\ alias = None
      /\ alias' = path /\ kept' = vol[path] /\ Sync(path)
      /\ UNCHANGED <<vol, path, reader>>
  BY DEF HardLink, Locked, ContainerInv, WriterInv, WriterType
<1>2. /\ path \in Inodes /\ Recoverable(vol[path], vol[path])
      /\ vol = [j \in Inodes |-> vol[j]] /\ dur = [j \in Inodes |-> dur[j]]
      /\ \A j \in Inodes : GoodFile(vol[j]) /\ GoodFile(dur[j])
      /\ {path, durPath, alias} \subseteq Inodes \cup {None}
      /\ \A j \in {path, durPath} \ {None} : Recoverable(vol[j], dur[j])
  BY <1>1, PathFacts DEF ContainerInv, Files, FileInv
<1>3. /\ dur' = [j \in Inodes |-> IF j = path THEN vol[path] ELSE dur[j]]
      /\ durPath' \in {path, durPath}
  BY <1>1, <1>2 DEF Sync
<1>4. FileInv'
  <2>1. ASSUME NEW j \in {path, durPath} \ {None} PROVE Recoverable(vol[j], dur'[j])
    BY <1>2, <1>3
  <2>2. \A j \in Inodes : GoodFile(dur'[j])
    BY <1>2, <1>3
  <2> QED BY <1>1, <1>2, <1>3, <2>1, <2>2 DEF FileInv
<1>5. ReaderInv' /\ AliasInv'
  BY <1>1, <1>2, <1>3 DEF ContainerInv, Files, ReaderInv, AliasInv
<1> QED BY <1>1, <1>4, <1>5, WriterIdle DEF ContainerInv, Files

LEMMA ReaderStep ==
    ASSUME ContainerInv, NEW x \in Readers, OpenReader(x) \/ CloseReader(x)
    PROVE  ContainerInv'
<1>1. UNCHANGED <<vol, dur, path, durPath, alias, kept, writer>>
  BY DEF OpenReader, CloseReader
<1>2. reader = [y \in Readers |-> reader[y]]
  BY DEF ContainerInv, Files, ReaderInv
<1>3. FileInv' /\ AliasInv' /\ WriterInv'
  <2>1. FileInv' /\ AliasInv'
    BY <1>1 DEF ContainerInv, Files, FileInv, AliasInv
  <2>2. WriterType' /\ CandidateInv'
    BY <1>1 DEF ContainerInv, WriterInv, WriterType, CandidateInv
  <2>3. WritingInv'
    BY <1>1 DEF ContainerInv, WriterInv, WritingInv, NextTable, NextAt
  <2> QED BY <2>1, <2>2, <2>3 DEF WriterInv
<1>4. CASE OpenReader(x)
  <2>1. /\ path # None /\ Loads(vol[path])
        /\ reader' = [reader EXCEPT ![x] = [inode |-> path, commit |-> ReadCommit(vol[path])]]
    BY <1>4 DEF OpenReader
  <2>2. /\ path \in Inodes /\ GoodFile(vol[path]) /\ Recoverable(vol[path], vol[path])
        /\ ReadCommit(vol[path]).gen # 0
    BY <2>1, PathFacts DEF ContainerInv
  <2>3. Holds(vol[path], ReadCommit(vol[path])) /\ GoodSlot(ReadCommit(vol[path]))
    BY <2>2, RecoverableReads
  <2>4. ReadCommit(vol[path]).at <= ReadCommit(vol[path]).at
    BY <2>2, <2>3 DEF GoodSlot
  <2>5. /\ reader'[x].inode = path /\ reader'[x].commit = ReadCommit(vol[path])
        /\ \A y \in Readers : y # x => reader'[y] = reader[y]
        /\ reader' = [y \in Readers |-> reader'[y]]
    BY <1>2, <2>1
  <2>6. ReaderInv'
    BY <1>1, <2>2, <2>3, <2>4, <2>5 DEF ContainerInv, Files, ReaderInv
  <2> QED BY <1>3, <2>6 DEF ContainerInv, Files
<1>5. CASE CloseReader(x)
  <2>1. /\ reader'[x] = Closed /\ \A y \in Readers : y # x => reader'[y] = reader[y]
        /\ reader' = [y \in Readers |-> reader'[y]]
    BY <1>2, <1>5 DEF CloseReader
  <2>2. ReaderInv'
    BY <1>1, <2>1 DEF ContainerInv, Files, ReaderInv
  <2> QED BY <1>3, <2>2 DEF ContainerInv, Files
<1> QED BY <1>4, <1>5

-----------------------------------------------------------------------------
(* The steps of recovery.                                                  *)

LEMMA WritingFacts ==
    ASSUME ContainerInv, writer.pc = "recover" \/ writer.pc \in Writing
    PROVE  /\ writer.inode = path /\ path # None
           /\ path \in Inodes /\ GoodFile(vol[path]) /\ GoodFile(dur[path])
           /\ Recoverable(vol[path], dur[path]) /\ Recoverable(vol[path], vol[path])
           /\ writer.pc \in Writing => path # alias
           /\ writer.pc # "syncslot" =>
                 writer.commit = ReadCommit(vol[path]) /\ writer.commit.gen # 0
           /\ writer.pc # "syncslot" => writer.commit.at \in Nat
<1>1. writer.inode = path /\ path # None
  BY DEF ContainerInv, WriterInv, WritingInv
<1>2. /\ writer.pc \in Writing => path # alias
      /\ writer.pc # "syncslot" => writer.commit = ReadCommit(vol[path]) /\ writer.commit.gen # 0
  BY <1>1 DEF ContainerInv, WriterInv, WritingInv, Writing
<1>3. /\ path \in Inodes /\ GoodFile(vol[path]) /\ GoodFile(dur[path])
      /\ Recoverable(vol[path], dur[path]) /\ Recoverable(vol[path], vol[path])
  BY <1>1, PathFacts DEF ContainerInv
<1>4. GoodSlot(ReadCommit(vol[path]))
  BY <1>3, ReadCommitFacts
<1> QED BY <1>1, <1>2, <1>3, <1>4 DEF GoodSlot

LEMMA DetachStep ==
    ASSUME ContainerInv, DetachCopy
    PROVE  ContainerInv'
<1>1. /\ writer.pc = "recover" /\ FreeInode # {}
      /\ vol' = [vol EXCEPT ![NewInode] = vol[writer.inode]]
      /\ dur' = [dur EXCEPT ![NewInode] = Blank]
      /\ writer' = [writer EXCEPT !.pc = "publish", !.candidate = NewInode]
      /\ UNCHANGED <<path, durPath, alias, kept, reader>>
  BY DEF DetachCopy, Locked
<1>2. /\ writer.inode = path /\ GoodFile(vol[path]) /\ Recoverable(vol[path], vol[path])
      /\ writer.commit = ReadCommit(vol[path]) /\ writer.commit.gen # 0
  BY <1>1, WritingFacts
<1>3. writer.candidate = None
  BY <1>1 DEF ContainerInv, WriterInv, WritingInv
<1>4. /\ Files' /\ vol'[NewInode] = vol[path]
      /\ NewInode \in Inodes \ {None, path, durPath, alias, writer.inode}
  BY <1>1, <1>2, <1>3, BlankIsGood, FileCreated DEF ContainerInv
<1>5. /\ DOMAIN writer' = {"pc", "inode", "candidate", "commit", "rows"}
      /\ writer'.pc = "publish" /\ writer'.candidate = NewInode
      /\ writer'.commit = writer.commit
  BY <1>1 DEF ContainerInv, WriterInv, WriterType
<1>6. WriterType' /\ WritingInv'
  BY <1>5 DEF WriterType, WritingInv, Publishing, Writing
<1>7. CandidateInv'
  BY <1>1, <1>2, <1>4, <1>5 DEF CandidateInv
<1> QED BY <1>4, <1>6, <1>7 DEF ContainerInv, WriterInv

LEMMA NoDetachStep ==
    ASSUME ContainerInv, NoDetach
    PROVE  ContainerInv'
<1>1. /\ writer.pc = "recover" /\ alias # writer.inode
      /\ writer' = [writer EXCEPT !.pc = "truncate"]
      /\ UNCHANGED <<vol, dur, path, durPath, alias, kept, reader>>
  BY DEF NoDetach, Locked
<1>2. Files'
  BY <1>1, FilesUntouched DEF ContainerInv
<1>3. /\ WriterType' /\ writer'.pc = "truncate" /\ writer'.inode = writer.inode
      /\ writer'.commit = writer.commit
  BY <1>1, WriterMoves DEF ContainerInv, Writing
<1>4. CandidateInv'
  BY <1>3 DEF CandidateInv, Publishing
<1>5. WritingInv'
  BY <1>1, <1>3 DEF ContainerInv, WriterInv, WritingInv, Writing
<1> QED BY <1>2, <1>3, <1>4, <1>5 DEF ContainerInv, WriterInv

LEMMA PublishStep ==
    ASSUME ContainerInv, PublishSync \/ PublishRename \/ PublishSyncParent
    PROVE  ContainerInv'
<1> DEFINE c == writer.candidate
<1>1. UNCHANGED <<vol, alias, kept, reader>>
  BY DEF PublishSync, PublishRename, PublishSyncParent
<1>2. writer.pc \in Publishing
  BY DEF PublishSync, PublishRename, PublishSyncParent, Locked, Publishing
<1>3. /\ c \in Inodes /\ c # None /\ c # alias /\ Recoverable(vol[c], vol[c])
      /\ writer.pc # "publish" => Recoverable(vol[c], dur[c])
      /\ writer.pc = "syncparent" => path = c
      /\ writer.inode # None => writer.commit = ReadCommit(vol[c]) /\ writer.commit.gen # 0
  BY <1>2 DEF ContainerInv, WriterInv, CandidateInv
<1>4. /\ vol = [i \in Inodes |-> vol[i]] /\ dur = [i \in Inodes |-> dur[i]]
      /\ \A i \in Inodes : GoodFile(vol[i]) /\ GoodFile(dur[i])
      /\ {path, durPath, alias} \subseteq Inodes \cup {None}
      /\ \A i \in {path, durPath} \ {None} : Recoverable(vol[i], dur[i])
  BY DEF ContainerInv, Files, FileInv
<1>5. CASE PublishSync
  <2>1. /\ Sync(c) /\ writer' = [writer EXCEPT !.pc = "rename"] /\ UNCHANGED path
    BY <1>5 DEF PublishSync
  <2>2. Files' /\ dur'[c] = vol[c]
    BY <1>1, <1>3, <2>1, FileSynced DEF ContainerInv
  <2>3. /\ WriterType' /\ writer'.pc = "rename" /\ writer'.inode = writer.inode
        /\ writer'.candidate = c /\ writer'.commit = writer.commit
    BY <2>1, WriterMoves DEF ContainerInv, Publishing
  <2>4. WritingInv'
    BY <2>3 DEF WritingInv, Writing
  <2>5. CandidateInv'
    BY <1>1, <1>3, <2>2, <2>3 DEF CandidateInv
  <2> QED BY <2>2, <2>3, <2>4, <2>5 DEF ContainerInv, WriterInv
<1>6. CASE PublishRename
  <2>1. /\ writer.pc = "rename" /\ path' = c /\ writer' = [writer EXCEPT !.pc = "syncparent"]
        /\ UNCHANGED <<dur, durPath>>
    BY <1>6 DEF PublishRename, Locked
  <2>2. FileInv'
    BY <1>1, <1>3, <1>4, <2>1 DEF FileInv
  <2>3. ReaderInv' /\ AliasInv'
    BY <1>1, <2>1 DEF ContainerInv, Files, ReaderInv, AliasInv
  <2>4. /\ WriterType' /\ writer'.pc = "syncparent" /\ writer'.inode = writer.inode
        /\ writer'.candidate = c /\ writer'.commit = writer.commit
    BY <2>1, WriterMoves DEF ContainerInv, Publishing
  <2>5. WritingInv'
    BY <2>4 DEF WritingInv, Writing
  <2>6. CandidateInv'
    BY <1>1, <1>3, <2>1, <2>4 DEF CandidateInv
  <2> QED BY <2>2, <2>3, <2>4, <2>5, <2>6 DEF ContainerInv, WriterInv, Files
<1>7. CASE PublishSyncParent
  <2>1. /\ writer.pc = "syncparent" /\ durPath' = path /\ UNCHANGED <<dur, path>>
        /\ IF writer.inode = None THEN writer' = Idle
           ELSE writer' = [writer EXCEPT !.pc = "truncate", !.inode = path, !.candidate = None]
    BY <1>7 DEF PublishSyncParent, Locked
  <2>2. FileInv'
    BY <1>1, <1>4, <2>1 DEF FileInv
  <2>3. ReaderInv' /\ AliasInv'
    BY <1>1, <2>1 DEF ContainerInv, Files, ReaderInv, AliasInv
  <2>4. CASE writer.inode = None
    BY <2>1, <2>2, <2>3, <2>4, WriterIdle DEF ContainerInv, Files
  <2>5. CASE writer.inode # None
    <3>1. /\ DOMAIN writer' = {"pc", "inode", "candidate", "commit", "rows"}
          /\ writer'.pc = "truncate" /\ writer'.inode = path /\ writer'.commit = writer.commit
      BY <2>1, <2>5 DEF ContainerInv, WriterInv, WriterType
    <3>2. WriterType' /\ CandidateInv'
      BY <3>1 DEF WriterType, CandidateInv, Publishing, Writing
    <3>3. WritingInv'
      BY <1>1, <1>3, <2>1, <2>5, <3>1 DEF WritingInv, Writing
    <3> QED BY <2>2, <2>3, <3>2, <3>3 DEF ContainerInv, Files, WriterInv
  <2> QED BY <2>4, <2>5
<1> QED BY <1>5, <1>6, <1>7

(* The cells of the partition's file change after the newest index.        *)
LEMMA CellsWritten ==
    ASSUME ContainerInv, writer.pc \in Writing \ {"syncslot"}, NEW cells, IsList(cells),
           \A j \in 1 .. writer.commit.at :
              j <= Len(vol[path].cells) => j <= Len(cells) /\ cells[j] = vol[path].cells[j],
           vol' = [vol EXCEPT ![path].cells = cells],
           UNCHANGED <<dur, path, durPath, alias, kept, reader>>
    PROVE  /\ Files' /\ vol'[path].cells = cells
           /\ ReadCommit(vol'[path]) = ReadCommit(vol[path])
<1> DEFINE f == vol[path]
           g == [f EXCEPT !.cells = cells]
<1>1. /\ path # None /\ path \in Inodes /\ GoodFile(f) /\ GoodFile(dur[path])
      /\ Recoverable(f, dur[path]) /\ path # alias /\ writer.commit = ReadCommit(f)
  BY WritingFacts
<1>2. vol' = [vol EXCEPT ![path] = g]
  OBVIOUS
<1> HIDE DEF f
<1>3. /\ GoodFile(g) /\ g.cells = cells /\ ReadCommit(g) = ReadCommit(f)
      /\ Recoverable(g, dur[path]) /\ Grows(f, g)
  <2>1. \A j \in 1 .. ReadCommit(f).at :
           j <= Len(f.cells) => j <= Len(cells) /\ cells[j] = f.cells[j]
    BY <1>1 DEF f
  <2> QED BY <1>1, <2>1, CellsChanged
<1> HIDE DEF g
<1>4. Files' /\ vol'[path] = g
  BY <1>1, <1>2, <1>3, FileWritten DEF ContainerInv, f
<1> QED BY <1>3, <1>4 DEF f

(* Recovery ends, or the store goes on with a file that ends at its index. *)
LEMMA RecoveredStep ==
    ASSUME ContainerInv, writer.pc \in {"truncate", "synctail"}, writer' = Recovered,
           Len(vol[path].cells) = writer.commit.at, UNCHANGED <<vol, path, alias>>
    PROVE  WriterInv'
<1>1. CASE writer' = Idle
  BY <1>1, WriterIdle
<1>2. CASE writer' = [writer EXCEPT !.pc = "write"]
  <2>1. /\ WriterType' /\ writer'.pc = "write" /\ writer'.inode = writer.inode
        /\ writer'.commit = writer.commit
    BY <1>2, WriterMoves DEF ContainerInv, Writing
  <2>2. CandidateInv'
    BY <2>1 DEF CandidateInv, Publishing
  <2>3. WritingInv'
    BY <2>1, WritingFacts DEF WritingInv, Writing
  <2> QED BY <2>1, <2>2, <2>3 DEF WriterInv
<1> QED BY <1>1, <1>2 DEF Recovered

LEMMA TailStep ==
    ASSUME ContainerInv, CleanTail \/ TruncateTail \/ SyncTail
    PROVE  ContainerInv'
<1>1. writer.pc \in {"truncate", "synctail"}
  BY DEF CleanTail, TruncateTail, SyncTail, Locked
<1>2. /\ writer.inode = path /\ path \in Inodes /\ GoodFile(vol[path])
      /\ Recoverable(vol[path], vol[path]) /\ path # alias /\ path # None
      /\ writer.commit = ReadCommit(vol[path]) /\ writer.commit.gen # 0
      /\ writer.commit.at \in Nat
  BY <1>1, WritingFacts DEF Writing
<1>3. CASE CleanTail
  <2>1. /\ Len(vol[path].cells) = writer.commit.at /\ writer' = Recovered
        /\ UNCHANGED <<vol, dur, path, durPath, alias, kept, reader>>
    BY <1>2, <1>3 DEF CleanTail
  <2> QED BY <1>1, <2>1, FilesUntouched, RecoveredStep DEF ContainerInv
<1>4. CASE SyncTail
  <2>1. /\ writer.pc = "synctail" /\ Sync(path) /\ writer' = Recovered
        /\ UNCHANGED <<vol, path, alias, kept, reader>>
    BY <1>2, <1>4 DEF SyncTail, Locked
  <2>2. Len(vol[path].cells) = writer.commit.at
    BY <1>2, <2>1 DEF ContainerInv, WriterInv, WritingInv
  <2>3. WriterInv'
    BY <1>1, <2>1, <2>2, RecoveredStep
  <2>4. Files'
    BY <1>2, <2>1, FileSynced DEF ContainerInv
  <2> QED BY <2>3, <2>4 DEF ContainerInv
<1>5. CASE TruncateTail
  <2> DEFINE cells == SubSeq(vol[path].cells, 1, writer.commit.at)
  <2>1. /\ writer.pc = "truncate" /\ Len(vol[path].cells) > writer.commit.at
        /\ vol' = [vol EXCEPT ![path].cells = cells]
        /\ writer' = [writer EXCEPT !.pc = "synctail"]
        /\ UNCHANGED <<dur, path, durPath, alias, kept, reader>>
    BY <1>2, <1>5 DEF TruncateTail, Locked
  <2>2. IsList(vol[path].cells) /\ Len(vol[path].cells) \in Nat
    BY <1>2 DEF GoodFile, IsList
  <2>3. writer.commit.at \in 0 .. Len(vol[path].cells)
    BY <1>2, <2>1, <2>2
  <2>4. /\ IsList(cells) /\ Len(cells) = writer.commit.at
        /\ \A j \in 1 .. writer.commit.at : cells[j] = vol[path].cells[j]
    BY <2>2, <2>3, ListPrefix
  <2> HIDE DEF cells
  <2>5. \A j \in 1 .. writer.commit.at :
           j <= Len(vol[path].cells) => j <= Len(cells) /\ cells[j] = vol[path].cells[j]
    BY <1>2, <2>4
  <2>6. Files' /\ vol'[path].cells = cells /\ ReadCommit(vol'[path]) = ReadCommit(vol[path])
    BY <2>1, <2>4, <2>5, CellsWritten DEF Writing
  <2>7. /\ WriterType' /\ writer'.pc = "synctail" /\ writer'.inode = path
        /\ writer'.commit = writer.commit
    BY <1>2, <2>1, WriterMoves DEF ContainerInv, Writing
  <2>8. CandidateInv'
    BY <2>7 DEF CandidateInv, Publishing
  <2>9. WritingInv'
    BY <1>2, <2>1, <2>4, <2>6, <2>7 DEF WritingInv, Writing
  <2> QED BY <2>6, <2>7, <2>8, <2>9 DEF ContainerInv, WriterInv
<1> QED BY <1>3, <1>4, <1>5

-----------------------------------------------------------------------------
(* The steps of a commit.                                                  *)

(* A cell is appended to the partition's file.                             *)
LEMMA CellAppended ==
    ASSUME ContainerInv, writer.pc \in {"write", "index"}, NEW e,
           vol' = [vol EXCEPT ![writer.inode].cells = Append(@, e)],
           UNCHANGED <<dur, path, durPath, alias, kept, reader>>
    PROVE  /\ Files' /\ ReadCommit(vol'[path]) = ReadCommit(vol[path])
           /\ Len(vol[path].cells) \in Nat /\ Len(vol'[path].cells) = Len(vol[path].cells) + 1
           /\ vol'[path].cells[Len(vol[path].cells) + 1] = e
           /\ \A j \in 1 .. Len(vol[path].cells) : vol'[path].cells[j] = vol[path].cells[j]
<1> DEFINE old   == vol[path].cells
           cells == Append(vol[path].cells, e)
<1>1. writer.inode = path /\ GoodFile(vol[path]) /\ writer.commit.at \in Nat
  BY WritingFacts DEF Writing
<1>2. vol' = [vol EXCEPT ![path].cells = cells]
  BY <1>1
<1>3. IsList(old) /\ Len(old) \in Nat
  BY <1>1 DEF GoodFile, IsList
<1>4. /\ IsList(cells) /\ Len(cells) = Len(old) + 1 /\ cells[Len(old) + 1] = e
      /\ \A j \in 1 .. Len(old) : cells[j] = old[j]
  BY <1>3, ListAppend
<1> HIDE DEF cells
<1>5. \A j \in 1 .. writer.commit.at :
         j <= Len(old) => j <= Len(cells) /\ cells[j] = old[j]
  <2> SUFFICES ASSUME NEW j \in 1 .. writer.commit.at, j <= Len(old)
               PROVE  j <= Len(cells) /\ cells[j] = old[j]
    OBVIOUS
  <2>1. j \in 1 .. Len(old)
    BY <1>1, <1>3
  <2> QED BY <1>3, <1>4, <2>1
<1>6. Files' /\ vol'[path].cells = cells /\ ReadCommit(vol'[path]) = ReadCommit(vol[path])
  BY <1>2, <1>4, <1>5, CellsWritten DEF Writing
<1> QED BY <1>3, <1>4, <1>6

LEMMA SuffixStep ==
    ASSUME ContainerInv, WriteBlock \/ WriteIndex
    PROVE  ContainerInv'
<1> DEFINE at == writer.commit.at
<1>1. writer.pc \in {"write", "index"}
  BY DEF WriteBlock, WriteIndex, Locked
<1>2. /\ writer.inode = path /\ path \in Inodes /\ path # alias /\ path # None
      /\ writer.commit = ReadCommit(vol[path]) /\ writer.commit.gen # 0 /\ at \in Nat
  BY <1>1, WritingFacts DEF Writing
<1>3. UNCHANGED <<dur, path, durPath, alias, kept, reader>>
  BY DEF WriteBlock, WriteIndex
<1>4. CASE WriteBlock
  <2>1. /\ writer.pc = "write" /\ writer' = [writer EXCEPT !.pc = "index"]
        /\ vol' = [vol EXCEPT ![writer.inode].cells = Append(@, BlockCell(writer.rows))]
    BY <1>4 DEF WriteBlock, Locked
  <2>2. /\ Files' /\ ReadCommit(vol'[path]) = ReadCommit(vol[path])
        /\ Len(vol'[path].cells) = Len(vol[path].cells) + 1
        /\ vol'[path].cells[Len(vol[path].cells) + 1] = BlockCell(writer.rows)
    BY <1>1, <1>3, <2>1, CellAppended
  <2>3. Len(vol[path].cells) = at
    BY <1>2, <2>1 DEF ContainerInv, WriterInv, WritingInv
  <2>4. /\ WriterType' /\ writer'.pc = "index" /\ writer'.inode = path
        /\ writer'.commit = writer.commit /\ writer'.rows = writer.rows
    BY <1>2, <2>1, WriterMoves DEF ContainerInv, Writing
  <2>5. CandidateInv'
    BY <2>4 DEF CandidateInv, Publishing
  <2>6. WritingInv'
    BY <1>2, <1>3, <2>2, <2>3, <2>4 DEF WritingInv, Writing
  <2> QED BY <2>2, <2>4, <2>5, <2>6 DEF ContainerInv, WriterInv
<1>5. CASE WriteIndex
  <2>1. /\ writer.pc = "index" /\ writer' = [writer EXCEPT !.pc = "sync"]
        /\ ValidIndex(NextTable, NextAt)
        /\ vol' = [vol EXCEPT ![writer.inode].cells = Append(@, IndexCell(NextTable))]
    BY <1>5 DEF WriteIndex, Locked
  <2>2. /\ Files' /\ ReadCommit(vol'[path]) = ReadCommit(vol[path])
        /\ Len(vol'[path].cells) = Len(vol[path].cells) + 1
        /\ vol'[path].cells[Len(vol[path].cells) + 1] = IndexCell(NextTable)
        /\ \A j \in 1 .. Len(vol[path].cells) : vol'[path].cells[j] = vol[path].cells[j]
    BY <1>1, <1>3, <2>1, CellAppended
  <2>3. Len(vol[path].cells) = at + 1 /\ vol[path].cells[at + 1] = BlockCell(writer.rows)
    BY <1>2, <2>1 DEF ContainerInv, WriterInv, WritingInv
  <2>4. /\ WriterType' /\ writer'.pc = "sync" /\ writer'.inode = path
        /\ writer'.commit = writer.commit /\ writer'.rows = writer.rows
    BY <1>2, <2>1, WriterMoves DEF ContainerInv, Writing
  <2>5. CandidateInv'
    BY <2>4 DEF CandidateInv, Publishing
  <2>6. /\ Len(vol'[path].cells) = at + 2 /\ vol'[path].cells[at + 1] = BlockCell(writer.rows)
        /\ vol'[path].cells[at + 2] = IndexCell(NextTable)
    <3>1. at + 1 + 1 = at + 2 /\ at + 1 \in 1 .. at + 1
      BY <1>2
    <3> QED BY <2>2, <2>3, <3>1
  <2>7. NextTable' = NextTable /\ NextAt' = NextAt
    BY <2>4 DEF NextTable, NextAt
  <2>8. WritingInv'
    BY <1>2, <1>3, <2>1, <2>2, <2>4, <2>6, <2>7 DEF WritingInv, Writing
  <2> QED BY <2>2, <2>4, <2>5, <2>8 DEF ContainerInv, WriterInv
<1> QED BY <1>4, <1>5

LEMMA SyncStep ==
    ASSUME ContainerInv, SyncSuffix \/ SyncSlot
    PROVE  ContainerInv'
<1>1. writer.pc \in {"sync", "syncslot"} /\ Sync(writer.inode) /\ UNCHANGED <<vol, path, alias, kept, reader>>
  BY DEF SyncSuffix, SyncSlot, Locked
<1>2. /\ writer.inode = path /\ path \in Inodes /\ path # alias /\ path # None
      /\ Recoverable(vol[path], vol[path])
  BY <1>1, WritingFacts DEF Writing
<1>3. Files' /\ dur'[path] = vol[path]
  BY <1>1, <1>2, FileSynced DEF ContainerInv
<1>4. CASE SyncSlot
  BY <1>3, <1>4, WriterIdle DEF SyncSlot, ContainerInv
<1>5. CASE SyncSuffix
  <2>1. writer.pc = "sync" /\ writer' = [writer EXCEPT !.pc = "slot"]
    BY <1>5 DEF SyncSuffix, Locked
  <2>2. /\ WriterType' /\ writer'.pc = "slot" /\ writer'.inode = writer.inode
        /\ writer'.commit = writer.commit /\ writer'.rows = writer.rows
    BY <2>1, WriterMoves DEF ContainerInv, Writing
  <2>3. CandidateInv'
    BY <2>2 DEF CandidateInv, Publishing
  <2>4. WritingInv'
    <3>1. NextTable' = NextTable /\ NextAt' = NextAt
      BY <2>2 DEF NextTable, NextAt
    <3> QED BY <1>1, <1>2, <1>3, <2>1, <2>2, <3>1 DEF ContainerInv, WriterInv, WritingInv, Writing
  <2> QED BY <1>3, <2>2, <2>3, <2>4 DEF ContainerInv, WriterInv
<1> QED BY <1>4, <1>5

(* The slot of the next generation's parity is overwritten, with a commit  *)
(* whose blocks are on disk or with nothing.                               *)
LEMMA SlotWritten ==
    ASSUME ContainerInv, writer.pc = "slot", NEW s, GoodSlot(s), Holds(vol[path], s),
           s.gen # 0 => s.gen = NextGeneration /\ writer.commit.at <= s.at,
           vol' = [vol EXCEPT ![writer.inode].slots[NextGeneration % 2] = s],
           UNCHANGED <<dur, path, durPath, alias, kept, reader>>
    PROVE  /\ Files' /\ \A i \in Inodes : i # path => vol'[i] = vol[i]
           /\ ReadCommit(vol'[path]) = IF s.gen = 0 THEN ReadCommit(vol[path]) ELSE s
           /\ \A t \in Outcomes(dur[path], vol'[path]) :
                 t = ReadCommit(vol[path]) \/ (t = s /\ s.gen # 0)
<1> DEFINE f == vol[path]
           gen == writer.commit.gen
           g == [f EXCEPT !.slots[(gen + 1) % 2] = s]
<1>1. /\ writer.inode = path /\ path \in Inodes /\ path # alias /\ path # None
      /\ GoodFile(f) /\ Recoverable(f, f)
      /\ writer.commit = ReadCommit(f) /\ gen # 0
  BY WritingFacts DEF Writing
<1>2. dur[path] = f
  BY <1>1 DEF ContainerInv, WriterInv, WritingInv
<1>3. vol' = [vol EXCEPT ![path] = g]
  BY <1>1 DEF NextGeneration
<1>4. /\ GoodFile(g) /\ Recoverable(g, f) /\ Grows(f, g)
      /\ ReadCommit(g) = IF s.gen = 0 THEN ReadCommit(f) ELSE s
      /\ \A t \in Outcomes(f, g) : t = ReadCommit(f) \/ (t = s /\ s.gen # 0)
  <2>1. gen = ReadCommit(f).gen
    BY <1>1
  <2>2. s.gen # 0 => s.gen = gen + 1 /\ ReadCommit(f).at <= s.at
    BY <1>1 DEF NextGeneration
  <2> HIDE DEF f, gen
  <2>3. Holds(f, s)
    BY DEF f
  <2> QED BY <1>1, <2>1, <2>2, <2>3, SlotChanged
<1> HIDE DEF g
<1>5. Files' /\ vol'[path] = g
  BY <1>1, <1>2, <1>3, <1>4, FileWritten DEF ContainerInv
<1>6. \A i \in Inodes : i # path => vol'[i] = vol[i]
  BY <1>3 DEF ContainerInv, Files, FileInv
<1> QED BY <1>2, <1>4, <1>5, <1>6

(* The index of the next commit refers to blocks in the file.              *)
LEMMA NextSlotHolds ==
    ASSUME ContainerInv, writer.pc = "slot"
    PROVE  LET s == Slot(NextGeneration, NextAt, IndexCell(NextTable))
           IN  /\ GoodSlot(s) /\ Holds(vol[path], s)
               /\ s.gen = NextGeneration /\ writer.commit.at <= s.at
<1> DEFINE f     == vol[path]
           c     == writer.commit
           at    == writer.commit.at
           old   == writer.commit.index.table
           block == [at |-> writer.commit.at + 1, rows |-> writer.rows]
           table == Append(old, block)
           s     == Slot(NextGeneration, NextAt, IndexCell(NextTable))
<1>1. /\ writer.inode = path /\ GoodFile(f) /\ Recoverable(f, f)
      /\ c = ReadCommit(f) /\ c.gen # 0 /\ at \in Nat
  BY WritingFacts DEF Writing
<1>2. /\ Len(f.cells) = at + 2 /\ f.cells[at + 1] = BlockCell(writer.rows)
      /\ ValidIndex(NextTable, NextAt) /\ f.cells[at + 2] = IndexCell(NextTable)
  BY <1>1 DEF ContainerInv, WriterInv, WritingInv
<1>3. GoodSlot(c) /\ BlocksIntact(f, c)
  BY <1>1, RecoverableReads DEF Holds
<1>4. /\ c.gen \in Nat /\ IsList(old) /\ DOMAIN old = 1 .. Len(old) /\ Len(old) \in Nat
      /\ \A i \in 1 .. Len(old) : /\ old[i].at \in 1 .. at - 1
                                  /\ old[i].at <= Len(f.cells)
                                  /\ f.cells[old[i].at] = BlockCell(old[i].rows)
  <2>1. c.gen \in Nat /\ IsList(old) /\ \A i \in DOMAIN old : old[i].at \in 1 .. at - 1
    BY <1>1, <1>3 DEF GoodSlot
  <2>2. DOMAIN old = 1 .. Len(old) /\ Len(old) \in Nat
    BY <2>1, ListDomain
  <2>3. \A i \in DOMAIN old : /\ old[i].at <= Len(f.cells)
                              /\ f.cells[old[i].at] = BlockCell(old[i].rows)
    BY <1>3 DEF BlocksIntact
  <2> QED BY <2>1, <2>2, <2>3
<1>5. /\ s.gen = c.gen + 1 /\ s.at = at + 2 /\ s.index.table = table
      /\ s.index = IndexCell(NextTable) /\ NextTable = table /\ NextAt = at + 2
      /\ block.at = at + 1 /\ block.rows = writer.rows
  BY DEF Slot, NextGeneration, NextAt, NextTable, IndexCell
<1> HIDE DEF f, c, at, old, block, s
<1>6. /\ IsList(table) /\ DOMAIN table = 1 .. Len(old) + 1
      /\ \A i \in 1 .. Len(old) : table[i] = old[i]
      /\ table[Len(old) + 1] = block
  BY <1>4, ListAppend
<1> HIDE DEF table
<1>7. ASSUME NEW i \in DOMAIN table
      PROVE  /\ table[i].at \in 1 .. s.at - 1
             /\ table[i].at <= Len(f.cells) /\ f.cells[table[i].at] = BlockCell(table[i].rows)
  <2>1. CASE i \in 1 .. Len(old)
    <3>1. table[i] = old[i] /\ old[i].at \in 1 .. at - 1
      BY <1>4, <1>6, <2>1
    <3>2. old[i].at \in 1 .. s.at - 1
      BY <1>1, <1>5, <3>1
    <3> QED BY <1>4, <2>1, <3>1, <3>2
  <2>2. CASE i = Len(old) + 1
    <3>1. table[i].at = at + 1 /\ table[i].rows = writer.rows
      BY <1>5, <1>6, <2>2
    <3> QED BY <1>1, <1>2, <1>5, <3>1
  <2> QED BY <1>4, <1>6, <2>1, <2>2
<1>8. GoodSlot(s)
  <2>1. ValidIndex(s.index.table, s.at)
    BY <1>2, <1>5
  <2> QED BY <1>1, <1>4, <1>5, <1>6, <1>7, <2>1 DEF GoodSlot
<1>9. Holds(f, s)
  <2>1. BlocksIntact(f, s)
    BY <1>5, <1>7 DEF BlocksIntact
  <2>2. s.at <= Len(f.cells) /\ f.cells[s.at] = s.index
    BY <1>1, <1>2, <1>5
  <2> QED BY <2>1, <2>2 DEF Holds
<1>10. at <= s.at
  BY <1>1, <1>5
<1> QED BY <1>5, <1>8, <1>9, <1>10 DEF s, f, at, c, NextGeneration

LEMMA SlotStep ==
    ASSUME ContainerInv, WriteSlot
    PROVE  ContainerInv'
<1> DEFINE s == Slot(NextGeneration, NextAt, IndexCell(NextTable))
<1>1. /\ writer.pc = "slot" /\ writer' = [writer EXCEPT !.pc = "syncslot"]
      /\ vol' = [vol EXCEPT ![writer.inode].slots[NextGeneration % 2] = s]
      /\ UNCHANGED <<dur, path, durPath, alias, kept, reader>>
  BY DEF WriteSlot, Locked
<1>2. /\ GoodSlot(s) /\ Holds(vol[path], s)
      /\ s.gen = NextGeneration /\ writer.commit.at <= s.at
  BY <1>1, NextSlotHolds
<1> HIDE DEF s
<1>3. Files'
  BY <1>1, <1>2, SlotWritten
<1>4. writer.inode = path /\ path \in Inodes /\ path # alias /\ path # None
  BY <1>1, WritingFacts DEF Writing
<1>5. WriterType' /\ writer'.pc = "syncslot" /\ writer'.inode = writer.inode
  BY <1>1, WriterMoves DEF ContainerInv, Writing
<1>6. CandidateInv' /\ WritingInv'
  BY <1>1, <1>4, <1>5 DEF CandidateInv, WritingInv, Publishing, Writing
<1> QED BY <1>3, <1>5, <1>6 DEF ContainerInv, WriterInv

-----------------------------------------------------------------------------
(* Failures.                                                               *)

LEMMA AbortStep ==
    ASSUME ContainerInv, Abort
    PROVE  ContainerInv'
<1>1. writer' = Idle /\ UNCHANGED <<dur, path, durPath, alias, kept, reader>>
  BY DEF Abort
<1>2. CASE UNCHANGED vol
  BY <1>1, <1>2, FilesUntouched, WriterIdle DEF ContainerInv
<1>3. CASE /\ writer.pc \in {"write", "index"}
           /\ vol' = [vol EXCEPT ![writer.inode].cells = Append(@, Garbage)]
  BY <1>1, <1>3, CellAppended, WriterIdle DEF ContainerInv
<1>4. CASE /\ writer.pc = "slot"
           /\ vol' = [vol EXCEPT ![writer.inode].slots[NextGeneration % 2] = NoCommit]
  <2>1. Files'
    BY <1>1, <1>4, NoCommitIsGood, SlotWritten
  <2> QED BY <1>1, <2>1, WriterIdle DEF ContainerInv
<1> QED BY <1>2, <1>3, <1>4 DEF Abort, Locked

LEMMA CrashStep ==
    ASSUME ContainerInv, Crash
    PROVE  ContainerInv'
<1>1. /\ vol = [i \in Inodes |-> vol[i]] /\ dur = [i \in Inodes |-> dur[i]]
      /\ \A i \in Inodes : GoodFile(vol[i]) /\ GoodFile(dur[i])
      /\ {path, durPath, alias} \subseteq Inodes \cup {None}
      /\ \A i \in {path, durPath} \ {None} : Recoverable(vol[i], dur[i])
  BY DEF ContainerInv, Files, FileInv
<1>2. /\ path' \in {path, durPath} /\ durPath' = path' /\ dur' = vol' /\ writer' = Idle
      /\ reader' = [x \in Readers |-> Closed] /\ UNCHANGED <<alias, kept>>
  BY DEF Crash
<1>3. PICK image \in IF path' = None THEN {Blank} ELSE FileImages(dur[path'], vol[path']) :
         vol' = [i \in Inodes |-> IF i = path' THEN image
                                  ELSE IF i = alias THEN dur[i] ELSE Blank]
  BY DEF Crash
<1>4. /\ GoodFile(image)
      /\ path' # None => /\ path' \in Inodes /\ Recoverable(image, image)
                         /\ dur[path'] = vol[path'] => image = vol[path']
  <2>1. CASE path' = None
    BY <1>3, <2>1, BlankIsGood
  <2>2. CASE path' # None
    <3>1. /\ path' \in Inodes /\ GoodFile(vol[path']) /\ GoodFile(dur[path'])
          /\ Recoverable(vol[path'], dur[path'])
      BY <1>1, <1>2, <2>2
    <3>2. image \in FileImages(dur[path'], vol[path'])
      BY <1>3, <2>2
    <3> QED BY <3>1, <3>2, FileAfterCrash
  <2> QED BY <2>1, <2>2
<1>5. \A i \in Inodes : vol'[i] = IF i = path' THEN image
                                  ELSE IF i = alias THEN dur[i] ELSE Blank
  BY <1>3
<1>6. FileInv'
  <2>1. vol' = [i \in Inodes |-> vol'[i]] /\ dur' = [i \in Inodes |-> dur'[i]]
    BY <1>2, <1>3
  <2>2. \A i \in Inodes : GoodFile(vol'[i])
    BY <1>1, <1>4, <1>5, BlankIsGood
  <2>3. path' # None => Recoverable(vol'[path'], vol'[path'])
    BY <1>4, <1>5
  <2> QED BY <1>1, <1>2, <2>1, <2>2, <2>3 DEF FileInv
<1>7. ReaderInv'
  BY <1>2 DEF ReaderInv
<1>8. AliasInv'
  <2> SUFFICES ASSUME alias # None PROVE vol'[alias] = kept
    BY <1>2 DEF AliasInv
  <2>1. vol[alias] = kept /\ dur[alias] = kept /\ alias \in Inodes
    BY <1>1 DEF ContainerInv, Files, AliasInv
  <2> QED BY <1>4, <1>5, <2>1
<1> QED BY <1>2, <1>6, <1>7, <1>8, WriterIdle DEF ContainerInv, Files

-----------------------------------------------------------------------------
(* What the files contain.                                                 *)

(* A readable file can be loaded, and its blocks can be read.              *)
LEMMA FileLoads ==
    ASSUME NEW f, NEW d, GoodFile(f), Recoverable(f, d), ReadCommit(f).gen # 0
    PROVE  Loads(f) /\ BlocksIntact(f, ReadCommit(f))
<1>1. Holds(f, ReadCommit(f)) /\ GoodSlot(ReadCommit(f))
  BY RecoverableReads
<1> DEFINE c == ReadCommit(f)
<1>2. /\ c.gen \in Nat /\ c.gen # 0 /\ ValidIndex(c.index.table, c.at)
      /\ BlocksIntact(f, c) /\ c.at <= Len(f.cells) /\ f.cells[c.at] = c.index
  BY <1>1 DEF Holds, GoodSlot
<1>3. c.gen > 0
  BY <1>2
<1> QED BY <1>2, <1>3, Zenon DEF Loads

LEMMA OutcomeOfSynced ==
    ASSUME NEW f, NEW s \in Outcomes(f, f)
    PROVE  s = ReadCommit(f)
BY DEF Outcomes, SlotImages, Newest, ReadCommit

LEMMA ReadIsOutcome ==
    ASSUME NEW d, NEW v
    PROVE  ReadCommit(v) \in Outcomes(d, v)
<1>1. v.slots[0] \in SlotImages(d.slots[0], v.slots[0]) /\ v.slots[1] \in SlotImages(d.slots[1], v.slots[1])
  BY DEF SlotImages
<1>2. ReadCommit(v) = Newest(v.slots[0], v.slots[1])
  BY DEF ReadCommit, Newest
<1> QED BY <1>1, <1>2 DEF Outcomes

LEMMA ImageIsOutcome ==
    ASSUME NEW d, NEW v, NEW image \in FileImages(d, v)
    PROVE  ReadCommit(image) \in Outcomes(d, v)
<1>1. PICK cells \in CellImages(d.cells, v.cells),
           even \in SlotImages(d.slots[0], v.slots[0]),
           odd \in SlotImages(d.slots[1], v.slots[1]) : image = File(cells, even, odd)
  BY DEF FileImages
<1>2. image.slots[0] = even /\ image.slots[1] = odd
  BY <1>1 DEF File
<1>3. ReadCommit(image) = Newest(even, odd)
  BY <1>2 DEF ReadCommit, Newest
<1> QED BY <1>1, <1>3 DEF Outcomes

(* A valid index with one more block adds the rows of the block.           *)
LEMMA IndexedAppend ==
    ASSUME NEW s, NEW t, NEW block, NEW at, IsList(s.index.table),
           t.index.table = Append(s.index.table, block), ValidIndex(t.index.table, at)
    PROVE  Indexed(t) = Overlay(Indexed(s), block.rows)
<1> DEFINE old == s.index.table
           new == t.index.table
           n == Len(s.index.table)
           was(r) == {i \in DOMAIN old : old[i].rows[r] # 0}
           is(r) == {i \in DOMAIN new : new[i].rows[r] # 0}
           oldValue(r) == IF was(r) = {} THEN 0 ELSE old[CHOOSE i \in was(r) : TRUE].rows[r]
           newValue(r) == IF is(r) = {} THEN 0 ELSE new[CHOOSE i \in is(r) : TRUE].rows[r]
<1>1. /\ n \in Nat /\ DOMAIN old = 1 .. n /\ DOMAIN new = 1 .. n + 1
      /\ \A i \in 1 .. n : new[i] = old[i]
      /\ new[n + 1] = block
  BY ListAppend, ListDomain
<1>2. Indexed(s) = [r \in Ranges |-> oldValue(r)] /\ Indexed(t) = [r \in Ranges |-> newValue(r)]
  BY DEF Indexed
<1>3. ASSUME NEW r \in Ranges PROVE newValue(r) = IF block.rows[r] # 0 THEN block.rows[r] ELSE oldValue(r)
  <2>1. CASE block.rows[r] # 0
    <3>1. n + 1 \in is(r)
      BY <1>1, <2>1
    <3>2. ASSUME NEW i \in is(r) PROVE new[i].rows[r] = block.rows[r]
      <4>1. i \in 1 .. n + 1 /\ n + 1 \in 1 .. n + 1
        BY <1>1
      <4>2. ASSUME i < n + 1 PROVE FALSE
        <5>1. r \in Covered(new[i].rows) /\ r \in Covered(new[n + 1].rows)
          BY <3>1 DEF Covered
        <5>2. r < r
          BY <1>1, <4>1, <4>2, <5>1 DEF ValidIndex
        <5>3. r \in Nat
          BY BoundsAssumption
        <5> QED BY <5>2, <5>3
      <4>3. i = n + 1
        BY <1>1, <4>1, <4>2
      <4> QED BY <1>1, <4>3
    <3>3. (CHOOSE i \in is(r) : TRUE) \in is(r)
      BY <3>1
    <3> HIDE DEF is
    <3> QED BY <2>1, <3>1, <3>2, <3>3
  <2>2. CASE block.rows[r] = 0
    <3>1. \A i : i \in is(r) <=> i \in was(r)
      <4>1. ASSUME NEW i \in is(r) PROVE i \in was(r)
        <5>1. i \in 1 .. n + 1 /\ new[i].rows[r] # 0
          BY <1>1
        <5>2. i # n + 1
          BY <1>1, <2>2, <5>1
        <5>3. i \in 1 .. n
          BY <1>1, <5>1, <5>2
        <5> QED BY <1>1, <5>1, <5>3
      <4>2. ASSUME NEW i \in was(r) PROVE i \in is(r)
        <5>1. i \in 1 .. n /\ old[i].rows[r] # 0
          BY <1>1
        <5>2. i \in 1 .. n + 1
          BY <1>1, <5>1
        <5> QED BY <1>1, <5>1, <5>2
      <4> QED BY <4>1, <4>2
    <3>2. \A i \in was(r) : new[i].rows[r] = old[i].rows[r]
      BY <1>1
    <3> HIDE DEF is, was
    <3>3. is(r) = was(r)
      BY <3>1
    <3>4. was(r) # {} => (CHOOSE i \in was(r) : TRUE) \in was(r)
      OBVIOUS
    <3> QED BY <2>2, <3>2, <3>3, <3>4
  <2> QED BY <2>1, <2>2
<1> HIDE DEF oldValue, newValue
<1> QED BY <1>2, <1>3 DEF Overlay

LEMMA ContentFacts ==
    /\ Empty \in Content
    /\ \A c, d \in Content : Overlay(c, d) \in Content
    /\ \A c \in Content, r \in Ranges, n \in Nat : n < MaxStores => [c EXCEPT ![r] = n + 1] \in Content
<1>1. MaxStores \in Nat /\ 0 \in 0 .. MaxStores
  BY BoundsAssumption
<1>2. Empty \in Content
  BY <1>1 DEF Empty, Content
<1>3. \A c, d \in Content : Overlay(c, d) \in Content
  BY DEF Overlay, Content
<1>4. ASSUME NEW c \in Content, NEW r \in Ranges, NEW n \in Nat, n < MaxStores
      PROVE  [c EXCEPT ![r] = n + 1] \in Content
  <2>1. n + 1 \in 0 .. MaxStores
    BY <1>1, <1>4
  <2> QED BY <2>1 DEF Content
<1> QED BY <1>2, <1>3, <1>4

(* A non-empty set of naturals with a bound has a greatest element.        *)
LEMMA MaxIsMember ==
    ASSUME NEW a \in Nat, NEW b \in Nat, NEW T, T \subseteq a .. b, T # {}
    PROVE  Max(T) \in T
<1> DEFINE U == {b - x : x \in T}
<1>1. U \subseteq Nat /\ U # {}
  <2>1. \A x \in T : b - x \in Nat
    OBVIOUS
  <2> QED BY <2>1
<1>2. PICK u \in U : \A y \in U : u <= y
  <2> HIDE DEF U
  <2> QED BY <1>1, LeastNat
<1>3. PICK m \in T : u = b - m
  BY <1>2
<1>4. ASSUME NEW y \in T PROVE m >= y
  <2>1. b - m <= b - y
    BY <1>2, <1>3
  <2> QED BY <2>1
<1> QED BY <1>3, <1>4 DEF Max

-----------------------------------------------------------------------------
(* The committed contents, step by step.                                   *)

LEMMA PathsAreInodes ==
    ASSUME ContainerInv
    PROVE  \A i \in {path, durPath} \ {None} : i \in Inodes /\ GoodFile(vol[i]) /\ GoodFile(dur[i])
BY DEF ContainerInv, Files, FileInv

(* A step that changes no slot: what a crash may leave becomes no more.    *)
LEMMA LogStill ==
    ASSUME LogInv, UNCHANGED <<commits, acked, path>>, durPath' \in {path, durPath},
           \A i \in {path, durPath} \ {None} :
              vol'[i].slots = vol[i].slots /\ (dur'[i] = dur[i] \/ dur'[i] = vol[i])
    PROVE  LogInv'
<1>1. ASSUME NEW c PROVE Retained(c)' <=> Retained(c)
  BY DEF Retained
<1>2. ASSUME NEW i \in {path, durPath} \ {None}
      PROVE  /\ ReadCommit(vol'[i]) = ReadCommit(vol[i])
             /\ \A s \in Outcomes(dur'[i], vol'[i]) : s.gen # 0 /\ Retained(Indexed(s))'
  <2>1. vol'[i].slots = vol[i].slots
    BY <1>2
  <2>2. ReadCommit(vol'[i]) = ReadCommit(vol[i])
    BY <2>1 DEF ReadCommit
  <2>3. \A s \in Outcomes(dur[i], vol[i]) : s.gen # 0 /\ Retained(Indexed(s))
    BY DEF LogInv, Survives
  <2>4. \A s \in Outcomes(dur'[i], vol'[i]) : s \in Outcomes(dur[i], vol[i])
    <3>1. CASE dur'[i] = dur[i]
      BY <2>1, <3>1 DEF Outcomes
    <3>2. CASE dur'[i] = vol[i]
      <4>1. Outcomes(dur'[i], vol'[i]) = Outcomes(vol[i], vol[i])
        BY <2>1, <3>2 DEF Outcomes
      <4> QED BY <4>1, OutcomeOfSynced, ReadIsOutcome
    <3> QED BY <3>1, <3>2
  <2> QED BY <1>1, <2>2, <2>3, <2>4
<1>3. Retained(Empty)' <=> Retained(Empty)
  BY <1>1
<1>4. Survives(path)' /\ Survives(durPath)'
  <2>1. path = None \/ durPath = None => Retained(Empty)
    BY DEF LogInv, Survives
  <2> QED BY <1>2, <1>3, <2>1 DEF Survives
<1>5. Shown(path)' = Shown(path) /\ (path # None => ReadCommit(vol'[path]).gen # 0)
  BY <1>2 DEF LogInv, Shown
<1> QED BY <1>4, <1>5 DEF LogInv

(* A content is committed.                                                 *)
LEMMA Committed ==
    ASSUME LogInv, NEW c \in Content, commits' = Append(commits, c), acked' = acked
    PROVE  /\ commits' \in Seq(Content) /\ acked' \in 1 .. Len(commits')
           /\ commits'[Len(commits')] = c
           /\ Retained(c)' /\ \A d : Retained(d) => Retained(d)'
<1>1. commits \in Seq(Content) /\ acked \in 1 .. Len(commits) /\ Len(commits) \in Nat
  BY LenProperties DEF LogInv
<1>2. /\ commits' \in Seq(Content) /\ Len(commits') = Len(commits) + 1
      /\ commits'[Len(commits) + 1] = c
      /\ \A n \in 1 .. Len(commits) : commits'[n] = commits[n]
  BY <1>1, AppendProperties
<1>3. acked \in 1 .. Len(commits') /\ Len(commits') \in acked .. Len(commits')
  BY <1>1, <1>2
<1>4. Retained(c)'
  BY <1>2, <1>3 DEF Retained
<1>5. ASSUME NEW d, Retained(d) PROVE Retained(d)'
  <2>1. PICK n \in acked .. Len(commits) : commits[n] = d
    BY <1>5 DEF Retained
  <2>2. n \in 1 .. Len(commits) /\ n \in acked .. Len(commits')
    BY <1>1, <1>2
  <2> QED BY <1>2, <2>1, <2>2 DEF Retained
<1> QED BY <1>2, <1>3, <1>4, <1>5

(* The file the path names is on disk as it is seen, and the disk knows    *)
(* the path: everything committed can be acknowledged.                     *)
LEMMA Acknowledged ==
    ASSUME LogInv, UNCHANGED <<vol, path, commits>>, durPath' = path,
           path # None, dur'[path] = vol[path], acked' = acked \/ acked' = Len(commits)
    PROVE  LogInv'
<1>1. commits \in Seq(Content) /\ acked \in 1 .. Len(commits) /\ Len(commits) \in Nat
  BY LenProperties DEF LogInv
<1>2. acked' \in 1 .. Len(commits) /\ Len(commits) \in acked' .. Len(commits)
  BY <1>1
<1>3. ReadCommit(vol[path]).gen # 0 /\ Indexed(ReadCommit(vol[path])) = commits[Len(commits)]
  BY DEF LogInv, Shown
<1>4. Retained(Indexed(ReadCommit(vol[path])))'
  BY <1>2, <1>3 DEF Retained
<1>5. \A s \in Outcomes(dur'[path], vol'[path]) : s = ReadCommit(vol[path])
  BY OutcomeOfSynced
<1>6. Survives(path)' /\ Survives(durPath)'
  BY <1>3, <1>4, <1>5 DEF Survives
<1>7. Shown(path)' = Shown(path)
  BY DEF Shown
<1> QED BY <1>1, <1>2, <1>3, <1>6, <1>7 DEF LogInv

-----------------------------------------------------------------------------
(* What the writer is about to commit.                                     *)

Counted == UNCHANGED used \/ \E bound : Spend(bound)

LEMMA StoresCounted ==
    ASSUME PendingInv, Counted
    PROVE  used'.stores \in Nat /\ "stores" \in DOMAIN used'
<1>1. used.stores \in Nat /\ "stores" \in DOMAIN used
  BY DEF PendingInv
<1>2. CASE UNCHANGED used
  BY <1>1, <1>2
<1>3. CASE \E bound : Spend(bound)
  <2>1. PICK bound : used' = [used EXCEPT ![bound] = used[bound] + 1]
    BY <1>3 DEF Spend
  <2>2. DOMAIN used' = DOMAIN used
    BY <2>1
  <2>3. used'["stores"] = IF bound = "stores" THEN used[bound] + 1 ELSE used["stores"]
    BY <1>1, <2>1
  <2>4. used'.stores \in Nat
    BY <1>1, <2>3
  <2> QED BY <1>1, <2>2, <2>4
<1> QED BY <1>2, <1>3 DEF Counted

LEMMA NoCandidate ==
    ASSUME PendingInv, Counted, writer'.rows \in Content, writer'.pc \notin Publishing
    PROVE  PendingInv'
BY StoresCounted DEF PendingInv, Publishing

LEMMA IdlePending ==
    ASSUME PendingInv, Counted, writer' = Idle
    PROVE  PendingInv'
<1>1. Idle.rows = Empty /\ Idle.pc = "idle" /\ "idle" \notin Publishing
  BY DEF Idle, Publishing
<1> QED BY <1>1, ContentFacts, NoCandidate

LEMMA WritingPending ==
    ASSUME StoreInv, Counted, NEW q \in {"recover"} \cup Writing, writer' = [writer EXCEPT !.pc = q]
    PROVE  PendingInv'
<1>1. writer'.pc = q /\ writer'.rows = writer.rows
  BY WriterMoves DEF StoreInv, ContainerInv
<1>2. q \notin Publishing
  BY DEF Publishing, Writing
<1>3. PendingInv /\ writer.rows \in Content
  BY DEF StoreInv, PendingInv
<1> QED BY <1>1, <1>2, <1>3, NoCandidate

LEMMA RecoveredPending ==
    ASSUME StoreInv, Counted, writer' = Recovered
    PROVE  PendingInv'
<1>1. CASE writer' = Idle
  BY <1>1, IdlePending DEF StoreInv
<1>2. CASE writer' = [writer EXCEPT !.pc = "write"]
  BY <1>2, WritingPending DEF Writing
<1> QED BY <1>1, <1>2 DEF Recovered

-----------------------------------------------------------------------------
(* A process that opens the partition finds the newest content committed.  *)

LEMMA VisibleIsShown ==
    ASSUME ContainerInv, path # None => ReadCommit(vol[path]).gen # 0
    PROVE  Visible = Shown(path)
<1>1. CASE path = None
  BY <1>1 DEF Visible, Shown
<1>2. CASE path # None
  <2>1. GoodFile(vol[path]) /\ Recoverable(vol[path], dur[path])
    BY <1>2 DEF ContainerInv, Files, FileInv
  <2>2. Loads(vol[path]) /\ BlocksIntact(vol[path], ReadCommit(vol[path]))
    BY <1>2, <2>1, FileLoads
  <2> QED BY <1>2, <2>2 DEF Visible, Shown
<1> QED BY <1>1, <1>2

LEMMA VisibleAfterwards ==
    ASSUME ContainerInv', path' # None => ReadCommit(vol'[path']).gen # 0
    PROVE  Visible' = Shown(path)'
<1>1. CASE path' = None
  BY <1>1 DEF Visible, Shown
<1>2. CASE path' # None
  <2>1. GoodFile(vol'[path']) /\ Recoverable(vol'[path'], dur'[path'])
    BY <1>2 DEF ContainerInv, Files, FileInv
  <2>2. Loads(vol'[path']) /\ BlocksIntact(vol'[path'], ReadCommit(vol'[path']))
    BY <1>2, <2>1, FileLoads
  <2> QED BY <1>2, <2>2 DEF Visible, Shown
<1> QED BY <1>1, <1>2

(* The content of the partition is one that can be committed.              *)
LEMMA ShownIsContent ==
    ASSUME LogInv
    PROVE  Shown(path) \in Content
<1>1. Len(commits) \in 1 .. Len(commits) /\ commits \in Seq(Content)
  BY LenProperties DEF LogInv
<1>2. commits[Len(commits)] \in Content
  BY <1>1, ElementOfSeq
<1> QED BY <1>2 DEF LogInv

-----------------------------------------------------------------------------
(* The steps that commit nothing.                                          *)

LEMMA StartStores ==
    ASSUME StoreInv, (\E r \in Ranges : StoreAppend(r)) \/ PrepareAppendIndex
    PROVE  LogInv' /\ PendingInv'
<1>1. /\ UNCHANGED <<vol, dur, path, durPath, commits, acked>> /\ Counted
      /\ \E rows \in Content : writer'.pc = "recover" /\ writer'.rows = rows
  <2>1. CASE \E r \in Ranges : StoreAppend(r)
    <3>1. PICK r \in Ranges : StoreAppend(r)
      BY <2>1
    <3> DEFINE rows == [Empty EXCEPT ![r] = used.stores + 1]
    <3>2. /\ writer' = [Idle EXCEPT !.pc = "recover", !.inode = path,
                                    !.commit = ReadCommit(vol[path]), !.rows = rows]
          /\ used.stores < MaxStores /\ Spend("stores")
          /\ UNCHANGED <<vol, dur, path, durPath, commits, acked>>
      BY <3>1 DEF StoreAppend
    <3>3. rows \in Content
      <4>1. used.stores \in Nat
        BY DEF StoreInv, PendingInv
      <4> QED BY <3>2, <4>1, ContentFacts
    <3> HIDE DEF rows
    <3>4. writer'.pc = "recover" /\ writer'.rows = rows
      BY <3>2 DEF Idle
    <3> QED BY <3>2, <3>3, <3>4 DEF Counted
  <2>2. CASE PrepareAppendIndex
    <3>1. /\ writer' = [Idle EXCEPT !.pc = "recover", !.inode = path,
                                    !.commit = ReadCommit(vol[path])]
          /\ Spend("repairs") /\ UNCHANGED <<vol, dur, path, durPath, commits, acked>>
      BY <2>2 DEF PrepareAppendIndex
    <3>2. writer'.pc = "recover" /\ writer'.rows = Empty
      BY <3>1 DEF Idle
    <3> QED BY <3>1, <3>2, ContentFacts DEF Counted
  <2> QED BY <2>1, <2>2
<1>2. LogInv'
  BY <1>1, LogStill DEF StoreInv
<1>3. PendingInv'
  <2>1. "recover" \notin Publishing
    BY DEF Publishing
  <2> QED BY <1>1, <2>1, NoCandidate DEF StoreInv
<1> QED BY <1>2, <1>3

LEMMA ReaderStores ==
    ASSUME StoreInv, NEW x \in Readers, OpenReader(x) \/ CloseReader(x)
    PROVE  LogInv' /\ PendingInv'
<1>1. UNCHANGED <<vol, dur, path, durPath, writer, commits, acked, used>>
  BY DEF OpenReader, CloseReader
<1>2. LogInv'
  BY <1>1, LogStill DEF StoreInv
<1>3. PendingInv'
  BY <1>1 DEF StoreInv, PendingInv
<1> QED BY <1>2, <1>3

(* A file is synced.                                                       *)
LEMMA LogSynced ==
    ASSUME StoreInv, NEW i \in Inodes, Sync(i), UNCHANGED <<vol, path, commits, acked>>
    PROVE  LogInv' /\ dur'[i] = vol[i] /\ \A j \in Inodes : j # i => dur'[j] = dur[j]
<1>1. dur = [j \in Inodes |-> dur[j]] /\ dur' = [dur EXCEPT ![i] = vol[i]]
      /\ durPath' \in {path, durPath}
  BY DEF StoreInv, ContainerInv, Files, FileInv, Sync
<1>2. dur'[i] = vol[i] /\ \A j \in Inodes : j # i => dur'[j] = dur[j]
  BY <1>1
<1>3. \A j \in {path, durPath} \ {None} : j \in Inodes
  BY PathsAreInodes DEF StoreInv
<1>4. LogInv'
  BY <1>1, <1>2, <1>3, LogStill DEF StoreInv
<1> QED BY <1>2, <1>4

LEMMA SyncStores ==
    ASSUME StoreInv, HardLink \/ SyncTail \/ SyncSuffix
    PROVE  LogInv' /\ PendingInv'
<1>1. CASE HardLink
  <2>1. /\ path # None /\ Sync(path) /\ UNCHANGED <<vol, path, commits, acked>>
        /\ writer.pc = "idle" /\ writer' = writer /\ Counted
    BY <1>1 DEF HardLink, Locked, Counted
  <2>2. writer' = Idle /\ path \in Inodes
    BY <2>1 DEF StoreInv, ContainerInv, WriterInv, WriterType, Files, FileInv
  <2> QED BY <2>1, <2>2, LogSynced, IdlePending DEF StoreInv
<1>2. CASE SyncTail
  <2>1. /\ writer.pc = "synctail" /\ Sync(writer.inode) /\ writer' = Recovered
        /\ UNCHANGED <<vol, path, commits, acked>> /\ Counted
    BY <1>2 DEF SyncTail, Locked, Counted
  <2>2. writer.inode \in Inodes
    BY <2>1, WritingFacts DEF StoreInv, Writing
  <2> QED BY <2>1, <2>2, LogSynced, RecoveredPending
<1>3. CASE SyncSuffix
  <2>1. /\ writer.pc = "sync" /\ Sync(writer.inode) /\ writer' = [writer EXCEPT !.pc = "slot"]
        /\ UNCHANGED <<vol, path, commits, acked>> /\ Counted
    BY <1>3 DEF SyncSuffix, Locked, Counted
  <2>2. writer.inode \in Inodes
    BY <2>1, WritingFacts DEF StoreInv, Writing
  <2> QED BY <2>1, <2>2, LogSynced, WritingPending DEF Writing
<1> QED BY <1>1, <1>2, <1>3

(* Cells are written; slots are not.                                       *)
LEMMA LogCells ==
    ASSUME StoreInv, NEW i \in Inodes, NEW cells, vol' = [vol EXCEPT ![i].cells = cells],
           UNCHANGED <<dur, path, durPath, commits, acked>>
    PROVE  LogInv'
<1>1. /\ vol = [j \in Inodes |-> vol[j]]
      /\ vol[i] = [cells |-> vol[i].cells, slots |-> vol[i].slots]
  BY DEF StoreInv, ContainerInv, Files, FileInv, GoodFile
<1>2. vol' = [vol EXCEPT ![i] = [vol[i] EXCEPT !.cells = cells]]
  OBVIOUS
<1>3. [vol[i] EXCEPT !.cells = cells].slots = vol[i].slots
  BY <1>1
<1>4. \A j \in Inodes : vol'[j].slots = vol[j].slots
  BY <1>1, <1>2, <1>3
<1>5. \A j \in {path, durPath} \ {None} : j \in Inodes
  BY PathsAreInodes DEF StoreInv
<1> QED BY <1>4, <1>5, LogStill DEF StoreInv

LEMMA WriteStores ==
    ASSUME StoreInv, NoDetach \/ CleanTail \/ TruncateTail \/ WriteBlock \/ WriteIndex
    PROVE  LogInv' /\ PendingInv'
<1>1. CASE NoDetach
  <2>1. /\ writer' = [writer EXCEPT !.pc = "truncate"] /\ Counted
        /\ UNCHANGED <<vol, dur, path, durPath, commits, acked>>
    BY <1>1 DEF NoDetach, Counted
  <2> QED BY <2>1, LogStill, WritingPending DEF StoreInv, Writing
<1>2. CASE CleanTail
  <2>1. /\ writer' = Recovered /\ Counted
        /\ UNCHANGED <<vol, dur, path, durPath, commits, acked>>
    BY <1>2 DEF CleanTail, Counted
  <2> QED BY <2>1, LogStill, RecoveredPending DEF StoreInv
<1>3. CASE TruncateTail \/ WriteBlock \/ WriteIndex
  <2>1. writer.pc \in Writing /\ Counted /\ UNCHANGED <<dur, path, durPath, commits, acked>>
    BY <1>3 DEF TruncateTail, WriteBlock, WriteIndex, Locked, Writing, Counted
  <2>2. \E q \in {"synctail", "index", "sync"} : writer' = [writer EXCEPT !.pc = q]
    BY <1>3 DEF TruncateTail, WriteBlock, WriteIndex
  <2>3. \E cells : vol' = [vol EXCEPT ![writer.inode].cells = cells]
    BY <1>3 DEF TruncateTail, WriteBlock, WriteIndex
  <2>4. writer.inode \in Inodes
    BY <2>1, WritingFacts DEF StoreInv
  <2>5. LogInv'
    BY <2>1, <2>3, <2>4, LogCells
  <2>6. PendingInv'
    BY <2>1, <2>2, WritingPending DEF Writing
  <2> QED BY <2>5, <2>6
<1> QED BY <1>1, <1>2, <1>3

(* A writer that fails: a torn cell or slot changes nothing a reader sees  *)
(* or a crash may leave.                                                   *)
LEMMA AbortStores ==
    ASSUME StoreInv, Abort
    PROVE  LogInv' /\ PendingInv'
<1>1. /\ writer' = Idle /\ Counted
      /\ UNCHANGED <<dur, path, durPath, alias, kept, reader, commits, acked>>
  BY DEF Abort, Counted
<1>2. PendingInv'
  BY <1>1, IdlePending DEF StoreInv
<1>3. CASE UNCHANGED vol
  BY <1>1, <1>2, <1>3, LogStill DEF StoreInv
<1>4. CASE /\ writer.pc \in {"write", "index"}
           /\ vol' = [vol EXCEPT ![writer.inode].cells = Append(@, Garbage)]
  <2>1. writer.inode \in Inodes
    BY <1>4, WritingFacts DEF StoreInv, Writing
  <2> QED BY <1>1, <1>2, <1>4, <2>1, LogCells
<1>5. CASE /\ writer.pc = "slot"
           /\ vol' = [vol EXCEPT ![writer.inode].slots[NextGeneration % 2] = NoCommit]
  <2>1. /\ path # None /\ path \in Inodes
    BY <1>5, WritingFacts DEF StoreInv, Writing
  <2>2. /\ \A i \in Inodes : i # path => vol'[i] = vol[i]
        /\ ReadCommit(vol'[path]) = ReadCommit(vol[path])
        /\ \A t \in Outcomes(dur[path], vol'[path]) : t = ReadCommit(vol[path])
    BY <1>1, <1>5, NoCommitIsGood, SlotWritten DEF StoreInv
  <2>3. ASSUME NEW c PROVE Retained(c)' <=> Retained(c)
    BY <1>1 DEF Retained
  <2>4. ASSUME NEW i \in {path, durPath} \ {None}
        PROVE  \A s \in Outcomes(dur'[i], vol'[i]) : s.gen # 0 /\ Retained(Indexed(s))'
    <3>1. \A s \in Outcomes(dur[i], vol[i]) : s.gen # 0 /\ Retained(Indexed(s))
      BY <2>4 DEF StoreInv, LogInv, Survives
    <3>2. i \in Inodes /\ dur'[i] = dur[i]
      BY <1>1, <2>4, PathsAreInodes DEF StoreInv
    <3>3. \A s \in Outcomes(dur'[i], vol'[i]) : s \in Outcomes(dur[i], vol[i])
      BY <2>2, <3>2, ReadIsOutcome
    <3> QED BY <2>3, <3>1, <3>3
  <2>5. Survives(path)' /\ Survives(durPath)'
    <3>1. Retained(Empty)' <=> Retained(Empty)
      BY <2>3
    <3>2. durPath = None => Retained(Empty)
      BY DEF StoreInv, LogInv, Survives
    <3> QED BY <1>1, <2>1, <2>4, <3>1, <3>2 DEF Survives
  <2>6. Shown(path)' = Shown(path) /\ ReadCommit(vol'[path]).gen # 0
    BY <1>1, <2>1, <2>2 DEF StoreInv, LogInv, Shown
  <2>7. LogInv'
    BY <1>1, <2>5, <2>6 DEF StoreInv, LogInv
  <2> QED BY <1>2, <2>7
<1> QED BY <1>3, <1>4, <1>5 DEF Abort, Locked

(* A file that nobody refers to is written: the files of the partition     *)
(* stay as they are.                                                       *)
LEMMA LogBeside ==
    ASSUME StoreInv, NEW g, NEW h, FreeInode # {},
           vol' = [vol EXCEPT ![NewInode] = g], dur' = [dur EXCEPT ![NewInode] = h],
           UNCHANGED <<path, durPath, commits, acked>>
    PROVE  /\ LogInv' /\ NewInode \in Inodes \ {path}
           /\ vol'[NewInode] = g /\ \A j \in Inodes : j # NewInode => vol'[j] = vol[j]
<1> DEFINE n == NewInode
<1>1. n \in Inodes \ {path, durPath}
  <2>1. n \in FreeInode
    BY DEF NewInode
  <2> QED BY <2>1 DEF FreeInode, Referenced
<1> HIDE DEF n
<1>2. vol = [j \in Inodes |-> vol[j]] /\ dur = [j \in Inodes |-> dur[j]]
  BY DEF StoreInv, ContainerInv, Files, FileInv
<1>3. /\ vol'[n] = g /\ \A j \in Inodes : j # n => vol'[j] = vol[j]
      /\ \A j \in Inodes : j # n => dur'[j] = dur[j]
  BY <1>1, <1>2 DEF n
<1>4. \A j \in {path, durPath} \ {None} : j \in Inodes /\ j # n
  BY <1>1, PathsAreInodes DEF StoreInv
<1>5. LogInv'
  BY <1>3, <1>4, LogStill DEF StoreInv
<1> QED BY <1>1, <1>3, <1>5 DEF n

LEMMA RewriteStores ==
    ASSUME StoreInv, NEW r \in Ranges, StoreRewrite(r)
    PROVE  LogInv' /\ PendingInv'
<1> DEFINE content == [Visible EXCEPT ![r] = used.stores + 1]
<1>1. PICK starts \in RunStarts(content) :
         /\ vol' = [vol EXCEPT ![NewInode] = Container(content, starts)]
         /\ dur' = [dur EXCEPT ![NewInode] = Container(content, starts)]
  BY DEF StoreRewrite
<1>2. /\ FreeInode # {} /\ used.stores < MaxStores /\ Counted
      /\ writer' = [Idle EXCEPT !.pc = "publish", !.candidate = NewInode, !.rows = content]
      /\ UNCHANGED <<path, durPath, commits, acked>>
  BY DEF StoreRewrite, Counted
<1>3. content \in Content
  <2>1. Visible = Shown(path) /\ Shown(path) \in Content
    BY VisibleIsShown, ShownIsContent DEF StoreInv, LogInv
  <2>2. used.stores \in Nat
    BY DEF StoreInv, PendingInv
  <2> QED BY <1>2, <2>1, <2>2, ContentFacts
<1> HIDE DEF content
<1>4. /\ writer'.pc = "publish" /\ writer'.inode = None /\ writer'.candidate = NewInode
      /\ writer'.rows = content
  BY <1>2 DEF Idle
<1>5. LogInv' /\ vol'[NewInode] = Container(content, starts)
  BY <1>1, <1>2, LogBeside
<1>6. /\ ReadCommit(vol'[NewInode]).gen # 0
      /\ Indexed(ReadCommit(vol'[NewInode])) = content
  BY <1>3, <1>5, ContainerIsGood
<1>7. used'.stores \in Nat /\ "stores" \in DOMAIN used'
  BY <1>2, StoresCounted DEF StoreInv
<1>8. PendingInv'
  BY <1>3, <1>4, <1>6, <1>7 DEF PendingInv
<1> QED BY <1>5, <1>8

LEMMA DetachStores ==
    ASSUME StoreInv, DetachCopy
    PROVE  LogInv' /\ PendingInv'
<1>1. /\ writer.pc = "recover" /\ FreeInode # {}
      /\ vol' = [vol EXCEPT ![NewInode] = vol[writer.inode]]
      /\ dur' = [dur EXCEPT ![NewInode] = Blank]
      /\ writer' = [writer EXCEPT !.pc = "publish", !.candidate = NewInode]
      /\ UNCHANGED <<path, durPath, commits, acked>> /\ Counted
  BY DEF DetachCopy, Locked, Counted
<1>2. /\ writer.inode = path /\ path # None /\ path \in Inodes
      /\ writer.commit = ReadCommit(vol[path])
  BY <1>1, WritingFacts DEF StoreInv
<1>3. LogInv' /\ vol'[path] = vol[path]
  BY <1>1, <1>2, LogBeside
<1>4. /\ writer'.pc = "publish" /\ writer'.inode = writer.inode
      /\ writer'.commit = writer.commit /\ writer'.rows = writer.rows
  BY <1>1 DEF StoreInv, ContainerInv, WriterInv, WriterType
<1>5. used'.stores \in Nat /\ "stores" \in DOMAIN used' /\ writer.rows \in Content
  BY <1>1, StoresCounted DEF StoreInv, PendingInv
<1>6. PendingInv'
  BY <1>1, <1>2, <1>3, <1>4, <1>5 DEF PendingInv
<1> QED BY <1>3, <1>6

LEMMA PublishSyncStores ==
    ASSUME StoreInv, PublishSync
    PROVE  LogInv' /\ PendingInv'
<1> DEFINE c == writer.candidate
<1>1. /\ writer.pc = "publish" /\ Sync(c) /\ writer' = [writer EXCEPT !.pc = "rename"]
      /\ UNCHANGED <<vol, path, commits, acked, used>>
  BY DEF PublishSync, Locked
<1>2. c \in Inodes
  BY <1>1 DEF StoreInv, ContainerInv, WriterInv, CandidateInv, Publishing
<1>3. LogInv' /\ dur'[c] = vol[c]
  BY <1>1, <1>2, LogSynced
<1>4. /\ writer'.pc = "rename" /\ writer'.inode = writer.inode /\ writer'.candidate = c
      /\ writer'.commit = writer.commit /\ writer'.rows = writer.rows
  BY <1>1, WriterMoves DEF StoreInv, ContainerInv, Publishing
<1>5. PendingInv'
  BY <1>1, <1>3, <1>4 DEF StoreInv, PendingInv, Publishing
<1> QED BY <1>3, <1>5

-----------------------------------------------------------------------------
(* The steps that commit or acknowledge.                                   *)

LEMMA PurgeStores ==
    ASSUME StoreInv, Purge
    PROVE  LogInv' /\ PendingInv'
<1>1. /\ writer.pc = "idle" /\ writer' = writer /\ path' = None /\ Counted
      /\ commits' = Append(commits, Empty)
      /\ UNCHANGED <<vol, dur, durPath, acked>>
  BY DEF Purge, Locked, Counted
<1>2. writer' = Idle
  BY <1>1 DEF StoreInv, ContainerInv, WriterInv, WriterType
<1>3. /\ commits' \in Seq(Content) /\ acked' \in 1 .. Len(commits')
      /\ commits'[Len(commits')] = Empty
      /\ Retained(Empty)' /\ \A d : Retained(d) => Retained(d)'
  BY <1>1, ContentFacts, Committed DEF StoreInv
<1>4. Survives(path)' /\ Shown(path)' = Empty
  BY <1>1, <1>3 DEF Survives, Shown
<1>5. Survives(durPath)'
  BY <1>1, <1>3 DEF StoreInv, LogInv, Survives
<1>6. LogInv'
  BY <1>1, <1>3, <1>4, <1>5 DEF LogInv
<1> QED BY <1>1, <1>2, <1>6, IdlePending DEF StoreInv

LEMMA RenameStores ==
    ASSUME StoreInv, PublishRename
    PROVE  LogInv' /\ PendingInv'
<1> DEFINE c == writer.candidate
<1>1. /\ writer.pc = "rename" /\ path' = c /\ writer' = [writer EXCEPT !.pc = "syncparent"]
      /\ commits' = IF writer.inode = None THEN Append(commits, writer.rows) ELSE commits
      /\ UNCHANGED <<vol, dur, durPath, acked, used>>
  BY DEF PublishRename, Locked
<1>2. /\ c \in Inodes /\ c # None
      /\ writer.inode # None => writer.commit = ReadCommit(vol[c]) /\ writer.commit.gen # 0
  BY <1>1 DEF StoreInv, ContainerInv, WriterInv, CandidateInv, Publishing
<1>3. /\ writer.rows \in Content /\ dur[c] = vol[c]
      /\ writer.inode = None =>
            ReadCommit(vol[c]).gen # 0 /\ Indexed(ReadCommit(vol[c])) = writer.rows
      /\ writer.inode # None => path # None /\ writer.commit = ReadCommit(vol[path])
  BY <1>1 DEF StoreInv, PendingInv, Publishing
<1>4. ReadCommit(vol[c]).gen # 0
  BY <1>2, <1>3
<1>5. /\ commits' \in Seq(Content) /\ acked' \in 1 .. Len(commits')
      /\ commits'[Len(commits')] = Indexed(ReadCommit(vol[c]))
      /\ Retained(Indexed(ReadCommit(vol[c])))' /\ \A d : Retained(d) => Retained(d)'
  <2>1. CASE writer.inode = None
    BY <1>1, <1>3, <2>1, Committed DEF StoreInv
  <2>2. CASE writer.inode # None
    <3>1. commits \in Seq(Content) /\ acked \in 1 .. Len(commits) /\ Len(commits) \in Nat
      BY LenProperties DEF StoreInv, LogInv
    <3>2. Indexed(ReadCommit(vol[c])) = commits[Len(commits)]
      BY <1>2, <1>3, <2>2 DEF StoreInv, LogInv, Shown
    <3>3. ASSUME NEW d PROVE Retained(d)' <=> Retained(d)
      BY <1>1, <2>2 DEF Retained
    <3>4. Len(commits) \in acked .. Len(commits)
      BY <3>1
    <3>5. Retained(Indexed(ReadCommit(vol[c])))
      BY <3>2, <3>4 DEF Retained
    <3> QED BY <1>1, <2>2, <3>1, <3>2, <3>3, <3>5
  <2> QED BY <2>1, <2>2
<1>6. \A s \in Outcomes(dur'[c], vol'[c]) : s = ReadCommit(vol[c])
  BY <1>1, <1>3, OutcomeOfSynced
<1>7. Survives(path)' /\ Shown(path)' = Indexed(ReadCommit(vol[c]))
  BY <1>1, <1>2, <1>4, <1>5, <1>6 DEF Survives, Shown
<1>8. Survives(durPath)'
  BY <1>1, <1>5 DEF StoreInv, LogInv, Survives
<1>9. LogInv'
  BY <1>1, <1>4, <1>5, <1>7, <1>8 DEF LogInv
<1>10. /\ writer'.pc = "syncparent" /\ writer'.inode = writer.inode /\ writer'.candidate = c
       /\ writer'.rows = writer.rows
  BY <1>1, WriterMoves DEF StoreInv, ContainerInv, Publishing
<1>11. PendingInv'
  BY <1>1, <1>3, <1>10 DEF StoreInv, PendingInv, Publishing
<1> QED BY <1>9, <1>11

LEMMA SyncParentStores ==
    ASSUME StoreInv, PublishSyncParent
    PROVE  LogInv' /\ PendingInv'
<1>1. /\ writer.pc = "syncparent" /\ durPath' = path /\ UNCHANGED <<vol, dur, path, commits, used>>
      /\ IF writer.inode = None THEN writer' = Idle /\ acked' = Len(commits)
         ELSE /\ writer' = [writer EXCEPT !.pc = "truncate", !.inode = path, !.candidate = None]
              /\ acked' = acked
  BY DEF PublishSyncParent, Locked
<1>2. path = writer.candidate /\ path # None /\ dur[path] = vol[path]
  BY <1>1 DEF StoreInv, ContainerInv, WriterInv, CandidateInv, PendingInv, Publishing
<1>3. LogInv'
  BY <1>1, <1>2, Acknowledged DEF StoreInv
<1>4. CASE writer.inode = None
  BY <1>1, <1>3, <1>4, IdlePending DEF StoreInv, Counted
<1>5. CASE writer.inode # None
  <2>1. writer'.pc = "truncate" /\ writer'.rows = writer.rows
    BY <1>1, <1>5 DEF StoreInv, ContainerInv, WriterInv, WriterType
  <2>2. writer'.pc \notin Publishing /\ writer'.rows \in Content /\ Counted
    BY <1>1, <2>1 DEF StoreInv, PendingInv, Publishing, Counted
  <2> QED BY <1>3, <2>2, NoCandidate DEF StoreInv
<1> QED BY <1>4, <1>5

LEMMA SlotStores ==
    ASSUME StoreInv, WriteSlot
    PROVE  LogInv' /\ PendingInv'
<1> DEFINE s == Slot(NextGeneration, NextAt, IndexCell(NextTable))
           content == Overlay(Indexed(writer.commit), writer.rows)
<1>1. /\ writer.pc = "slot" /\ writer' = [writer EXCEPT !.pc = "syncslot"]
      /\ vol' = [vol EXCEPT ![writer.inode].slots[NextGeneration % 2] = s]
      /\ commits' = Append(commits, content) /\ Counted
      /\ UNCHANGED <<dur, path, durPath, alias, kept, reader, acked>>
  BY DEF WriteSlot, Locked, Counted
<1>2. /\ path # None /\ path \in Inodes /\ GoodFile(vol[path]) /\ writer.inode = path
      /\ writer.commit = ReadCommit(vol[path]) /\ writer.commit.gen # 0
  BY <1>1, WritingFacts DEF StoreInv, Writing
<1>3. /\ GoodSlot(s) /\ Holds(vol[path], s)
      /\ s.gen = NextGeneration /\ writer.commit.at <= s.at
  BY <1>1, NextSlotHolds DEF StoreInv
<1>4. s.gen # 0
  <2>1. writer.commit.gen \in Nat
    BY <1>2, ReadCommitFacts, SlotsAreGood DEF GoodSlot
  <2> QED BY <1>3, <2>1 DEF NextGeneration
<1>5. Indexed(s) = content
  <2>1. s.index.table = NextTable
    BY DEF Slot, IndexCell
  <2>2. GoodSlot(writer.commit)
    BY <1>2, ReadCommitFacts
  <2>3. IsList(writer.commit.index.table)
    BY <1>2, <2>2 DEF GoodSlot
  <2>4. ValidIndex(NextTable, NextAt)
    BY <1>1 DEF StoreInv, ContainerInv, WriterInv, WritingInv
  <2> DEFINE block == [at |-> writer.commit.at + 1, rows |-> writer.rows]
  <2>5. s.index.table = Append(writer.commit.index.table, block) /\ block.rows = writer.rows
    BY <2>1 DEF NextTable
  <2> HIDE DEF block, s
  <2>6. Indexed(s) = Overlay(Indexed(writer.commit), block.rows)
    BY <2>1, <2>3, <2>4, <2>5, IndexedAppend
  <2> QED BY <2>5, <2>6
<1>6. content \in Content
  <2>1. Indexed(writer.commit) = Shown(path) /\ Shown(path) \in Content
    BY <1>2, ShownIsContent DEF StoreInv, Shown
  <2>2. writer.rows \in Content
    BY DEF StoreInv, PendingInv
  <2> QED BY <2>1, <2>2, ContentFacts
<1> HIDE DEF s, content
<1>slot. PICK next, added : next = s /\ added = content
  OBVIOUS
<1>7. /\ \A i \in Inodes : i # path => vol'[i] = vol[i]
      /\ ReadCommit(vol'[path]) = next
      /\ \A t \in Outcomes(dur[path], vol'[path]) : t = ReadCommit(vol[path]) \/ t = next
  BY <1>1, <1>3, <1>4, <1>slot, SlotWritten DEF StoreInv
<1>8. /\ commits' \in Seq(Content) /\ acked' \in 1 .. Len(commits')
      /\ commits'[Len(commits')] = added
      /\ Retained(added)' /\ \A d : Retained(d) => Retained(d)'
  BY <1>1, <1>6, <1>slot, Committed DEF StoreInv
<1>9. ReadCommit(vol[path]) \in Outcomes(dur[path], vol[path])
  BY ReadIsOutcome
<1>10. ASSUME NEW i \in {path, durPath} \ {None}
       PROVE  \A t \in Outcomes(dur'[i], vol'[i]) : t.gen # 0 /\ Retained(Indexed(t))'
  <2>1. \A t \in Outcomes(dur[i], vol[i]) : t.gen # 0 /\ Retained(Indexed(t))
    BY <1>10 DEF StoreInv, LogInv, Survives
  <2>2. i \in Inodes /\ dur'[i] = dur[i]
    BY <1>1, <1>10, PathsAreInodes DEF StoreInv
  <2>3. \A t \in Outcomes(dur'[i], vol'[i]) : t \in Outcomes(dur[i], vol[i]) \/ t = next
    BY <1>7, <1>9, <2>2
  <2>4. next.gen # 0 /\ Indexed(next) = added
    BY <1>4, <1>5, <1>slot
  <2>5. ASSUME NEW t \in Outcomes(dur[i], vol[i]) PROVE t.gen # 0 /\ Retained(Indexed(t))'
    BY <1>8, <2>1, <2>5
  <2> QED BY <1>8, <2>3, <2>4, <2>5
<1>11. Survives(path)' /\ Survives(durPath)'
  <2>1. durPath = None => Retained(Empty)'
    BY <1>8 DEF StoreInv, LogInv, Survives
  <2> QED BY <1>1, <1>2, <1>10, <2>1 DEF Survives
<1>12. Shown(path)' = added /\ ReadCommit(vol'[path]).gen # 0
  BY <1>1, <1>2, <1>4, <1>5, <1>7, <1>slot DEF Shown
<1>13. LogInv'
  BY <1>1, <1>8, <1>11, <1>12 DEF LogInv
<1> QED BY <1>1, <1>13, WritingPending DEF Writing

(* The slot is on disk, and the sync has made the entry durable as well.   *)
LEMMA SyncSlotStores ==
    ASSUME FsyncCoversName, StoreInv, SyncSlot
    PROVE  LogInv' /\ PendingInv'
<1>1. /\ writer.pc = "syncslot" /\ Sync(writer.inode) /\ acked' = Len(commits) /\ writer' = Idle
      /\ UNCHANGED <<vol, path, commits, used>>
  BY DEF SyncSlot, Locked
<1>2. writer.inode = path /\ path # None /\ path \in Inodes
  BY <1>1, WritingFacts DEF StoreInv, Writing
<1>3. durPath' = path /\ dur'[path] = vol[path]
  BY <1>1, <1>2 DEF Sync, StoreInv, ContainerInv, Files, FileInv
<1>4. LogInv'
  BY <1>1, <1>2, <1>3, Acknowledged DEF StoreInv
<1> QED BY <1>1, <1>4, IdlePending DEF StoreInv, Counted

(* A crash takes the partition back to a content that is retained.         *)
LEMMA CrashStores ==
    ASSUME StoreInv, Crash
    PROVE  /\ LogInv' /\ PendingInv' /\ acked' = acked
           /\ \E n \in acked .. Len(commits) : commits' = SubSeq(commits, 1, n)
<1>1. /\ path' \in {path, durPath} /\ durPath' = path' /\ dur' = vol' /\ writer' = Idle
      /\ Counted /\ acked' = acked
  BY DEF Crash, Counted
<1>2. PICK image \in IF path' = None THEN {Blank} ELSE FileImages(dur[path'], vol[path']) :
         vol' = [i \in Inodes |-> IF i = path' THEN image
                                  ELSE IF i = alias THEN dur[i] ELSE Blank]
  BY DEF Crash
<1>3. Survives(path) /\ Survives(durPath) /\ ContainerInv
  BY DEF StoreInv, LogInv
<1>4. /\ path' = None => Retained(Empty)
      /\ path' # None => /\ ReadCommit(vol'[path']).gen # 0
                         /\ Retained(Indexed(ReadCommit(vol'[path'])))
  <2>1. CASE path' = None
    BY <1>1, <1>3, <2>1 DEF Survives
  <2>2. CASE path' # None
    <3>1. path' \in Inodes
      BY <1>1, <1>3, <2>2, PathsAreInodes
    <3>2. vol'[path'] = image /\ image \in FileImages(dur[path'], vol[path'])
      BY <1>2, <2>2, <3>1
    <3>3. ReadCommit(vol'[path']) \in Outcomes(dur[path'], vol[path'])
      BY <3>2, ImageIsOutcome
    <3>4. \A s \in Outcomes(dur[path'], vol[path']) : s.gen # 0 /\ Retained(Indexed(s))
      BY <1>1, <1>3, <2>2 DEF Survives
    <3> QED BY <2>2, <3>3, <3>4
  <2> QED BY <2>1, <2>2
<1>5. Visible' = Shown(path)'
  BY <1>3, <1>4, CrashStep, VisibleAfterwards
<1>6. Retained(Visible')
  <2>1. CASE path' = None
    BY <1>4, <1>5, <2>1 DEF Shown
  <2>2. CASE path' # None
    BY <1>4, <1>5, <2>2 DEF Shown
  <2> QED BY <2>1, <2>2
<1> DEFINE found == {n \in acked .. Len(commits) : commits[n] = Visible'}
<1>7. commits \in Seq(Content) /\ acked \in 1 .. Len(commits) /\ Len(commits) \in Nat
  BY LenProperties DEF StoreInv, LogInv
<1>8. found # {} /\ found \subseteq acked .. Len(commits)
  BY <1>6 DEF Retained
<1>9. commits' = IF found = {} THEN commits ELSE SubSeq(commits, 1, Max(found))
  BY DEF Crash
<1>10. PICK n \in acked .. Len(commits) : commits[n] = Visible' /\ commits' = SubSeq(commits, 1, n)
  <2>1. Max(found) \in found
    <3>1. acked \in Nat
      BY <1>7
    <3> HIDE DEF found
    <3> QED BY <1>7, <1>8, <3>1, MaxIsMember, Zenon
  <2> QED BY <1>8, <1>9, <2>1
<1> HIDE DEF found
<1>11. n \in 1 .. Len(commits) /\ n \in Nat
  BY <1>7
<1>12. commits' \in Seq(Content) /\ Len(commits') = n /\ commits'[n] = Visible'
  <2>1. \A i \in 1 .. n : commits[i] \in Content
    BY <1>7, <1>11, ElementOfSeq
  <2>2. /\ commits' \in Seq(Content)
        /\ Len(commits') = IF 1 <= n THEN n - 1 + 1 ELSE 0
        /\ \A i \in 1 .. n - 1 + 1 : commits'[i] = commits[1 + i - 1]
    BY <1>10, <1>11, <2>1, SubSeqProperties
  <2>3. n \in 1 .. n - 1 + 1 /\ 1 + n - 1 = n /\ Len(commits') = n
    BY <1>11, <2>2
  <2> QED BY <1>10, <2>2, <2>3
<1>13. acked' \in 1 .. Len(commits') /\ Len(commits') \in acked' .. Len(commits')
  BY <1>1, <1>7, <1>12
<1>14. Retained(Visible)'
  BY <1>12, <1>13 DEF Retained
<1>15. Survives(path)'
  <2>1. CASE path' = None
    BY <1>5, <1>14, <2>1 DEF Survives, Shown
  <2>2. CASE path' # None
    <3>1. \A s \in Outcomes(dur'[path'], vol'[path']) : s = ReadCommit(vol'[path'])
      BY <1>1, OutcomeOfSynced
    <3>2. Visible' = Indexed(ReadCommit(vol'[path']))
      BY <1>5, <2>2 DEF Shown
    <3>3. Retained(Indexed(ReadCommit(vol[path])))'
      BY <1>14, <3>2 DEF Retained
    <3> QED BY <1>4, <2>2, <3>1, <3>3 DEF Survives
  <2> QED BY <2>1, <2>2
<1>16. Survives(durPath)'
  BY <1>1, <1>15 DEF Survives
<1>17. LogInv'
  BY <1>4, <1>5, <1>12, <1>13, <1>15, <1>16 DEF LogInv
<1> QED BY <1>1, <1>10, <1>17, IdlePending DEF StoreInv

-----------------------------------------------------------------------------
(* The invariant of the specification.                                     *)

LEMMA InitKeeps == Init => ContainerInv
<1> SUFFICES ASSUME Init PROVE ContainerInv
  OBVIOUS
<1>1. FileInv
  <2>1. \A i \in Inodes : vol[i] = Blank /\ dur[i] = Blank
    BY DEF Init
  <2> QED BY <2>1, BlankIsGood DEF Init, FileInv
<1>2. ReaderInv /\ AliasInv
  BY DEF Init, ReaderInv, AliasInv
<1>3. WriterInv
  BY DEF Init, Idle, WriterInv, WriterType, CandidateInv, WritingInv, Publishing, Writing
<1> QED BY <1>1, <1>2, <1>3 DEF ContainerInv, Files

LEMMA StepKeeps == ContainerInv /\ [Next]_vars => ContainerInv'
<1> SUFFICES ASSUME ContainerInv, [Next]_vars PROVE ContainerInv'
  OBVIOUS
<1>1. CASE UNCHANGED vars
  <2>1. UNCHANGED <<vol, dur, path, durPath, alias, kept, reader, writer>>
    BY <1>1 DEF vars
  <2>2. WriterInv'
    BY <2>1 DEF ContainerInv, WriterInv, WriterType, CandidateInv, WritingInv, NextTable, NextAt
  <2> QED BY <2>1, <2>2, FilesUntouched DEF ContainerInv
<1>2. CASE (\E r \in Ranges : StoreAppend(r)) \/ PrepareAppendIndex
  BY <1>2, StartStep
<1>3. CASE \E r \in Ranges : StoreRewrite(r)
  BY <1>3, RewriteStep
<1>4. CASE Purge
  BY <1>4, PurgeStep
<1>5. CASE HardLink
  BY <1>5, HardLinkStep
<1>6. CASE Recovery
  BY <1>6, DetachStep, NoDetachStep, PublishStep, TailStep DEF Recovery
<1>7. CASE Commit
  BY <1>7, SuffixStep, SyncStep, SlotStep DEF Commit
<1>8. CASE \E x \in Readers : OpenReader(x) \/ CloseReader(x)
  BY <1>8, ReaderStep
<1>9. CASE Abort
  BY <1>9, AbortStep
<1>10. CASE Crash
  BY <1>10, CrashStep
<1> QED BY <1>1, <1>2, <1>3, <1>4, <1>5, <1>6, <1>7, <1>8, <1>9, <1>10 DEF Next

(* In every history of stores, compactions, detachments, purges, failed    *)
(* writers and machine crashes, a reader that has released the lock finds  *)
(* every block of the index it loaded in the file it holds open            *)
(* (read_range of daily_kline_cache.rs).                                   *)
THEOREM PinnedReadsSucceed == Spec => []PinnedPrefixIsIntact
<1>1. ContainerInv => PinnedPrefixIsIntact
  BY DEF ContainerInv, Files, ReaderInv, Holds, PinnedPrefixIsIntact
<1> QED BY InitKeeps, StepKeeps, <1>1, PTL DEF Spec

(* A file somebody else has linked is never changed, neither by a store or *)
(* a recovery (detach before truncate and append, history_container.rs)    *)
(* nor by a crash while the partition is written.                          *)
THEOREM LinkedFileIsKept == Spec => []LinkedFileIsUntouched
<1>1. ContainerInv => LinkedFileIsUntouched
  BY DEF ContainerInv, Files, AliasInv, LinkedFileIsUntouched
<1> QED BY InitKeeps, StepKeeps, <1>1, PTL DEF Spec

-----------------------------------------------------------------------------
(* The refinement of DurableStore.                                         *)

LEMMA InitStores == Init => StoreInv
<1> SUFFICES ASSUME Init PROVE StoreInv
  OBVIOUS
<1>1. /\ path = None /\ durPath = None /\ commits = <<Empty>> /\ acked = 1 /\ writer = Idle
      /\ used = [stores |-> 0, repairs |-> 0, crashes |-> 0, aborts |-> 0]
  BY DEF Init
<1>2. commits \in Seq(Content) /\ Len(commits) = 1 /\ commits[1] = Empty
  BY <1>1, ContentFacts
<1>3. 1 \in 1 .. 1
  OBVIOUS
<1>4. Retained(Empty)
  BY <1>1, <1>2, <1>3 DEF Retained
<1>5. Shown(path) = Empty /\ Survives(path) /\ Survives(durPath)
  BY <1>1, <1>4 DEF Shown, Survives
<1>6. LogInv
  BY <1>1, <1>2, <1>3, <1>5 DEF LogInv
<1>7. PendingInv
  <2>1. writer.pc = "idle" /\ writer.rows = Empty
    BY <1>1 DEF Idle
  <2>2. used.stores \in Nat /\ "stores" \in DOMAIN used
    BY <1>1
  <2> QED BY <2>1, <2>2, ContentFacts DEF PendingInv, Publishing
<1> QED BY <1>6, <1>7, InitKeeps DEF StoreInv

LEMMA StepStores ==
    ASSUME FsyncCoversName
    PROVE  StoreInv /\ [Next]_vars => StoreInv'
<1> SUFFICES ASSUME StoreInv, [Next]_vars PROVE LogInv' /\ PendingInv'
  BY StepKeeps DEF StoreInv
<1>1. CASE UNCHANGED vars
  <2>1. UNCHANGED <<vol, dur, path, durPath, writer, commits, acked, used>>
    BY <1>1 DEF vars
  <2>2. LogInv'
    BY <2>1, LogStill DEF StoreInv
  <2>3. PendingInv'
    BY <2>1 DEF StoreInv, PendingInv
  <2> QED BY <2>2, <2>3
<1>2. CASE (\E r \in Ranges : StoreAppend(r)) \/ PrepareAppendIndex
  BY <1>2, StartStores
<1>3. CASE \E r \in Ranges : StoreRewrite(r)
  BY <1>3, RewriteStores
<1>4. CASE Purge
  BY <1>4, PurgeStores
<1>5. CASE HardLink
  BY <1>5, SyncStores
<1>6. CASE Recovery
  BY <1>6, DetachStores, WriteStores, PublishSyncStores, RenameStores, SyncParentStores,
     SyncStores DEF Recovery
<1>7. CASE Commit
  BY <1>7, WriteStores, SyncStores, SlotStores, SyncSlotStores DEF Commit
<1>8. CASE \E x \in Readers : OpenReader(x) \/ CloseReader(x)
  BY <1>8, ReaderStores
<1>9. CASE Abort
  BY <1>9, AbortStores
<1>10. CASE Crash
  BY <1>10, CrashStores
<1> QED BY <1>1, <1>2, <1>3, <1>4, <1>5, <1>6, <1>7, <1>8, <1>9, <1>10 DEF Next

(* What a step may do to the log.                                          *)
LogMoves ==
    \/ UNCHANGED <<commits, acked>>
    \/ acked' = acked /\ \E c : commits' = Append(commits, c)
    \/ acked' = Len(commits) /\ commits' = commits
    \/ acked' = acked /\ \E n \in acked .. Len(commits) : commits' = SubSeq(commits, 1, n)

LEMMA StepMovesLog == StoreInv /\ [Next]_vars => LogMoves
<1> SUFFICES ASSUME StoreInv, [Next]_vars PROVE LogMoves
  OBVIOUS
<1>1. CASE UNCHANGED vars
  BY <1>1 DEF vars, LogMoves
<1>2. CASE \E r \in Ranges : StoreAppend(r) \/ StoreRewrite(r)
  BY <1>2 DEF StoreAppend, StoreRewrite, LogMoves
<1>3. CASE PrepareAppendIndex \/ Purge \/ HardLink
  BY <1>3 DEF PrepareAppendIndex, Purge, HardLink, LogMoves
<1>4. CASE Recovery
  <2>1. CASE PublishRename
    BY <2>1 DEF PublishRename, LogMoves
  <2>2. CASE PublishSyncParent
    BY <2>2 DEF PublishSyncParent, LogMoves
  <2>3. CASE DetachCopy \/ NoDetach \/ PublishSync \/ CleanTail \/ TruncateTail \/ SyncTail
    BY <2>3 DEF DetachCopy, NoDetach, PublishSync, CleanTail, TruncateTail, SyncTail, LogMoves
  <2> QED BY <1>4, <2>1, <2>2, <2>3 DEF Recovery
<1>5. CASE Commit
  BY <1>5 DEF Commit, WriteBlock, WriteIndex, SyncSuffix, WriteSlot, SyncSlot, LogMoves
<1>6. CASE \E x \in Readers : OpenReader(x) \/ CloseReader(x)
  BY <1>6 DEF OpenReader, CloseReader, LogMoves
<1>7. CASE Abort
  BY <1>7 DEF Abort, LogMoves
<1>8. CASE Crash
  BY <1>8, CrashStores DEF LogMoves
<1> QED BY <1>1, <1>2, <1>3, <1>4, <1>5, <1>6, <1>7, <1>8 DEF Next

LEMMA StepRefines ==
    ASSUME StoreInv, StoreInv', LogMoves
    PROVE  [Store!Next]_(Store!storeVars)
<1>1. /\ commits \in Seq(Content) /\ acked \in 1 .. Len(commits) /\ Len(commits) \in Nat
      /\ commits' \in Seq(Content) /\ acked' \in 1 .. Len(commits') /\ Len(commits') \in Nat
  BY LenProperties DEF StoreInv, LogInv
<1>2. Visible = commits[Len(commits)]
  BY VisibleIsShown DEF StoreInv, LogInv
<1>3. Visible' = commits'[Len(commits')]
  BY VisibleAfterwards DEF StoreInv, LogInv
<1>4. CASE UNCHANGED <<commits, acked>>
  BY <1>2, <1>3, <1>4 DEF Store!storeVars
<1>5. CASE acked' = acked /\ \E c : commits' = Append(commits, c)
  <2>1. PICK c : commits' = Append(commits, c)
    BY <1>5
  <2>2. commits'[Len(commits')] = c /\ c \in Content
    <3>1. Len(commits') \in 1 .. Len(commits')
      BY <1>1
    <3>2. commits'[Len(commits')] \in Content
      BY <1>1, <3>1, ElementOfSeq
    <3>3. Len(commits') = Len(commits) + 1 /\ commits'[Len(commits) + 1] = c
      <4>1. IsList(commits)
        BY <1>1 DEF IsList
      <4> QED BY <2>1, <4>1, ListAppend
    <3> QED BY <3>2, <3>3
  <2>3. Store!Commit
    BY <1>3, <1>5, <2>1, <2>2 DEF Store!Commit
  <2> QED BY <2>3 DEF Store!Next
<1>6. CASE acked' = Len(commits) /\ commits' = commits
  BY <1>2, <1>3, <1>6 DEF Store!Next, Store!Acknowledge
<1>7. CASE acked' = acked /\ \E n \in acked .. Len(commits) : commits' = SubSeq(commits, 1, n)
  <2>1. PICK n \in acked .. Len(commits) : commits' = SubSeq(commits, 1, n)
    BY <1>7
  <2>2. Len(commits') = n /\ commits'[n] = commits[n]
    <3>1. IsList(commits) /\ n \in 0 .. Len(commits) /\ n \in 1 .. n
      BY <1>1 DEF IsList
    <3> QED BY <2>1, <3>1, ListPrefix
  <2>3. Store!Crash
    BY <1>3, <1>7, <2>1, <2>2 DEF Store!Crash
  <2> QED BY <2>3 DEF Store!Next
<1> QED BY <1>4, <1>5, <1>6, <1>7 DEF LogMoves

(* Where syncing a file makes the entry that names it durable, a partition *)
(* is a durable store in every history: whoever opens it finds the newest  *)
(* content committed, in one piece, and no crash at any step of an append, *)
(* a detachment, a rewrite or a purge takes it back behind a content whose *)
(* store had returned (store_final_range_at, write_commit and              *)
(* Candidate::publish).                                                    *)
THEOREM AcknowledgedStoresSurvive ==
    ASSUME FsyncCoversName
    PROVE  Spec => AcknowledgedSurvives
<1>1. Init => Store!Init
  <2> SUFFICES ASSUME Init PROVE Store!Init
    OBVIOUS
  <2>1. commits = <<Empty>> /\ acked = 1 /\ path = None
    BY DEF Init
  <2>2. Visible = Empty
    BY <2>1 DEF Visible
  <2> QED BY <2>1, <2>2 DEF Store!Init
<1>2. StoreInv /\ StoreInv' /\ [Next]_vars => [Store!Next]_(Store!storeVars)
  BY StepMovesLog, StepRefines
<1>3. StoreInv /\ [Next]_vars => StoreInv'
  BY StepStores
<1> QED BY <1>1, <1>2, <1>3, InitStores, PTL DEF Spec, AcknowledgedSurvives, Store!Spec
=============================================================================
