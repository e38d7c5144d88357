------------------------- MODULE StorageNode_proofs -------------------------
(***************************************************************************)
(* Proofs about a log node's local store, second part: bloom filters,      *)
(* sidecars and queries, and the theorems.                                 *)
(***************************************************************************)
EXTENDS StorageInvariant_proofs

-----------------------------------------------------------------------------
(* Where an acknowledged entry is, and what a query still owes.            *)

\* A restart would find the entry: some file holds it that the restart takes for
\* the active one or whose sidecar has the entry.
Open(p) == p = marker /\ ~At("truncate")
Stored(p, e) == Holds(p, e) /\ (Open(p) \/ Covers(sidecar, p, e))
Kept(e) == Expired(e) \/ \E p : Stored(p, e)

\* A query would find it, or a merge has it: before the rename in a file of its
\* run, after it in the merged file.
Visible(p, e) == Holds(p, e) /\ Covers(blooms, p, e)
Moved(e) == comp.pc \in {"bloom", "reindex", "manager", "delete", "delbloom"} /\ e \in Merging
Unindexed(p) == comp.pc \in {"unindex", "rename"} /\ p \in Range(comp.run)
Shown(e) ==
    Expired(e) \/ Moved(e) \/ \E p : Visible(p, e) /\ (<<p, e>> \in idx \/ Unindexed(p))

AllKept ==
    /\ \A e \in acked : Kept(e)
    /\ \A w \in Writers : writer[w].pc = "index" => Kept(writer[w].entry)
AllShown ==
    phase # "down" =>
        /\ \A e \in acked : Shown(e)
        /\ \A w \in Writers : writer[w].pc = "index" =>
             Shown(writer[w].entry) \/ Visible(writer[w].path, writer[w].entry)

\* An entry a query owes is read already or in a file it has yet to read, and a
\* filter it has yet to ask will let it through.
Pending(e) ==
    \E p :
        /\ Holds(p, e)
        /\ \/ p \in Range(reader.keep)
           \/ p \in Range(reader.todo) /\ (reader.pc = "prune" => Covers(blooms, p, e))
ReaderOK ==
    /\ reader \in [pc : {"idle", "prune", "read"}, term : AllEntries \cup {0}, todo : Seq(Nat), keep : Seq(Nat),
                   got : {reader.got}, must : SUBSET AllEntries, hurt : {reader.hurt}]
    /\ reader.pc # "idle" =>
        /\ phase = "serving"
        /\ reader.must \subseteq Matches(reader.term) /\ Merging \subseteq reader.hurt
        /\ reader.pc = "prune" => reader.term # 0 /\ reader.todo # <<>>
        /\ reader.pc = "read" => reader.keep = <<>>
        /\ \A e \in reader.must : e \in reader.hurt \/ Expired(e) \/ e \in reader.got \/ Pending(e)

-----------------------------------------------------------------------------
(* Entries while others than the compactor move.                           *)

\* What a step that is no crash does to the places of an entry.
Keeps(e) ==
    /\ Kept(e) => Kept(e)'
    /\ Shown(e) => Shown(e)'
    /\ \A p : Visible(p, e) => Visible(p, e)' \/ Expired(e)' \/ (e \in Merging /\ Moved(e)')
    /\ \A p : Holds(p, e) => Holds(p, e)' \/ Expired(e)' \/ e \in Merging

\* Entries acknowledged or about to be are known ones.
LEMMA AckedKnown ==
  ASSUME SInv
  PROVE  acked \subseteq AllEntries /\ \A w \in Writers : writer[w].pc = "index" => writer[w].entry \in AllEntries
<1>1. \A w \in Writers : writer[w].pc = "index" => writer[w].entry \in Entries
  BY DEF SInv, HandlersOK
<1> QED
  BY <1>1, Zenon DEF SInv, HandlersOK, AllEntries

\* Growing files, a growing index and a later cutoff, when filters still let the
\* entry through.
LEMMA GrowEntry ==
  ASSUME NEW e \in AllEntries, SInv, comp' = comp, cutoff' \in Nat, cutoff <= cutoff', idx \subseteq idx', FilesGrow,
         \A p : Holds(p, e) /\ Covers(blooms, p, e) => Covers(blooms', p, e),
         \A p : Stored(p, e) => Open(p)' \/ Covers(sidecar', p, e)
  PROVE  Keeps(e)
<1> USE ZenonT(30)
<1>1. cutoff \in Nat
  BY DEF SInv, HandlersOK
<1>2. \A p : Holds(p, e) => Holds(p, e)'
  BY <1>1, NothingLost
<1>3. Expired(e) => Expired(e)'
  BY <1>1, EntriesAssumption, SMT DEF Expired
<1>4. Moved(e) => Moved(e)'
  BY DEF Moved, Merging
<1>5. \A p : Visible(p, e) => Visible(p, e)'
  BY <1>2 DEF Visible
<1>6. Kept(e) => Kept(e)'
  BY <1>2, <1>3 DEF Kept, Stored
<1>7. Shown(e) => Shown(e)'
  <2>1. \A p : <<p, e>> \in idx \/ Unindexed(p) => <<p, e>> \in idx' \/ Unindexed(p)'
    BY DEF Unindexed
  <2> QED
    BY <1>3, <1>4, <1>5, <2>1 DEF Shown
<1> QED
  BY <1>2, <1>5, <1>6, <1>7 DEF Keeps

\* The steps of an append but for its last.
LEMMA AppendEntry ==
  ASSUME SInv, Structure, NEW w \in Writers, NEW e \in AllEntries,
         AppendBegin(w) \/ RotateClose(w) \/ OpenNewSegment(w) \/ TruncateMarker(w)
         \/ WriteMarker(w) \/ WriteHeader(w) \/ WriteData(w)
  PROVE  Keeps(e)
<1> USE Zenon DEF Structure
<1>1. /\ UNCHANGED <<comp, cutoff, idx>>
  BY DEF AppendBegin, RotateClose, OpenNewSegment, TruncateMarker, WriteMarker, WriteHeader, WriteData, history
<1>2. cutoff \in Nat /\ cutoff' \in Nat /\ cutoff <= cutoff'
  BY <1>1, SMT DEF SInv, HandlersOK
<1>3. FilesGrow
  <2>1. files' = files => FilesGrow
    BY DEF FilesGrow
  <2> QED
    BY <2>1, OpenNewSegmentStep, WriteHeaderStep, WriteDataEffect
       DEF AppendBegin, RotateClose, TruncateMarker, WriteMarker, disk
<1>4. /\ \A l \in Locked : (At(l) <=> writer[w].pc = l) /\ (At(l)' <=> writer'[w].pc = l)
      /\ AppendBegin(w) => writer[w].pc = "idle" /\ writer'[w].pc \in {"rotate", "header"}
      /\ RotateClose(w) => writer[w].pc = "rotate" /\ writer'[w].pc = "create"
      /\ WriteMarker(w) => writer[w].pc = "mark" /\ writer'[w].pc = "header"
      /\ TruncateMarker(w) => writer[w].pc = "truncate" /\ writer'[w].pc = "mark"
  BY AppendPcs
<1>5. phase # "down"
  BY <1>4, AppendPcs DEF AppendBegin, SInv, HandlersOK, RotateClose, OpenNewSegment, TruncateMarker, WriteMarker,
                         WriteHeader, WriteData
<1>6. ASSUME NEW p, Holds(p, e), Covers(blooms, p, e) PROVE Covers(blooms', p, e)
  <2>1. CASE RotateClose(w)
    BY <1>6, <2>1, CloseFilters DEF Holds
  <2>2. CASE ~RotateClose(w)
    <3>1. blooms' = blooms
      BY <2>2 DEF AppendBegin, OpenNewSegment, TruncateMarker, WriteMarker, WriteHeader, WriteData, manager
    <3> QED
      BY <1>6, <3>1
  <2> QED
    BY <2>1, <2>2
<1>7. ASSUME NEW p, Stored(p, e) PROVE Open(p)' \/ Covers(sidecar', p, e)
  <2>0. Holds(p, e) /\ (Open(p) \/ Covers(sidecar, p, e)) /\ phase # "down"
    BY <1>7, <1>5 DEF Stored
  <2>1. CASE RotateClose(w)
    <3>1. ~At("truncate")' /\ marker' = marker
      BY <1>4, <2>1 DEF Locked, RotateClose
    <3> QED
      BY <2>0, <2>1, <3>1, CloseFilters DEF Open, Holds
  <2>2. CASE AppendBegin(w) \/ WriteHeader(w) \/ WriteData(w)
    <3>1. AppendBegin(w) => ~At("truncate")' /\ UNCHANGED <<marker, sidecar>>
      BY <1>4 DEF Locked, AppendBegin, disk
    <3>2. ~At("truncate")' /\ UNCHANGED <<marker, sidecar>>
      BY <2>2, <3>1, WriteFilters
    <3> QED
      BY <2>0, <3>2 DEF Open
  <2>3. CASE OpenNewSegment(w)
    <3>1. marker = fd.path /\ At("create") /\ sidecar' = sidecar
      BY <2>3, OpenFilters DEF OpenNewSegment
    <3> QED
      BY <2>0, <3>1 DEF Open, FiltersOK, Holds
  <2>4. CASE TruncateMarker(w)
    <3>1. At("truncate") /\ sidecar' = sidecar
      BY <1>4, <2>4 DEF Locked, TruncateMarker
    <3> QED
      BY <2>0, <3>1 DEF Open
  <2>5. CASE WriteMarker(w)
    <3>1. At("mark") /\ sidecar' = sidecar
      BY <1>4, <2>5 DEF Locked, WriteMarker
    <3>2. marker \notin DOMAIN files
      <4>1. marker = EmptyMarker
        BY <2>0, <3>1 DEF MarkerOK
      <4> QED
        BY <4>1 DEF EmptyMarker, SInv, FilesOK
    <3> QED
      BY <2>0, <3>1, <3>2 DEF Open, Holds
  <2> QED
    BY <2>1, <2>2, <2>3, <2>4, <2>5
<1> QED
  BY <1>1, <1>2, <1>3, <1>6, <1>7, GrowEntry

\* Steps that leave files and filters alone.
LEMMA QuietEntry ==
  ASSUME SInv, Structure, NEW e \in AllEntries, UNCHANGED <<files, sidecar, marker, blooms, comp>>,
         writer' = writer \/ \E w \in Writers : IndexAndAck(w),
         cutoff' \in Nat, cutoff <= cutoff', idx \subseteq idx'
  PROVE  Keeps(e)
<1> USE ZenonT(30)
<1>1. \A l \in Locked : At(l)' <=> At(l)
  BY LabelsStay DEF Structure
<1>2. At("truncate")' <=> At("truncate")
  BY <1>1 DEF Locked
<1>3. FilesGrow
  BY DEF FilesGrow
<1>4. \A p : Stored(p, e) => Open(p)' \/ Covers(sidecar', p, e)
  BY <1>2 DEF Stored, Open
<1> QED
  BY <1>3, <1>4, GrowEntry

\* idx.Add makes the entry of the handler visible under the path it was written to.
LEMMA IndexAll ==
  ASSUME SInv, Structure, AllKept, AllShown, NEW w \in Writers, IndexAndAck(w)
  PROVE  /\ AllKept' /\ AllShown' /\ \A e \in AllEntries : Keeps(e)
<1> USE ZenonT(30)
<1>1. /\ UNCHANGED <<files, sidecar, marker, blooms, comp, cutoff, phase>> /\ writer[w].pc = "index"
      /\ idx' = idx \cup {<<writer[w].path, writer[w].entry>>} /\ acked' = acked \cup {writer[w].entry}
      /\ writer' = [writer EXCEPT ![w] = IdleWriter]
  BY DEF IndexAndAck, disk, manager
<1>2. cutoff' \in Nat /\ cutoff <= cutoff'
  BY <1>1, SMT DEF SInv, HandlersOK
<1>3. \A e \in AllEntries : Keeps(e)
  BY <1>1, <1>2, QuietEntry
<1>4. acked \subseteq AllEntries /\ \A v \in Writers : writer[v].pc = "index" => writer[v].entry \in AllEntries
  BY AckedKnown
<1>5. phase # "down"
  BY <1>1 DEF SInv, HandlersOK
<1>6. writer'[w].pc = "idle" /\ \A v \in Writers : v # w => writer'[v] = writer[v]
  <2>1. writer \in [Writers -> Handlers]
    BY DEF SInv, HandlersOK
  <2>2. writer'[w] = IdleWriter /\ \A v \in Writers : v # w => writer'[v] = writer[v]
    BY <1>1, <2>1
  <2> QED
    BY <2>2, SMT DEF IdleWriter
<1>7. PICK e, p : e = writer[w].entry /\ p = writer[w].path
  OBVIOUS
<1>8. Kept(e)' /\ Shown(e)'
  <2>1. Kept(e) /\ (Shown(e) \/ Visible(p, e)) /\ e \in AllEntries
    BY <1>1, <1>4, <1>5, <1>7 DEF AllKept, AllShown
  <2>2. <<p, e>> \in idx'
    BY <1>1, <1>7
  <2>3. Shown(e)' \/ Visible(p, e)'
    BY <1>3, <2>1 DEF Keeps, Shown
  <2> QED
    BY <1>3, <2>1, <2>2, <2>3 DEF Keeps, Shown
<1>9. AllKept'
  BY <1>1, <1>3, <1>4, <1>6, <1>7, <1>8 DEF AllKept, Keeps
<1>10. AllShown'
  <2>1. \A f \in acked' : Shown(f)'
    BY <1>1, <1>3, <1>4, <1>5, <1>7, <1>8 DEF AllShown, Keeps
  <2>2. ASSUME NEW v \in Writers, writer'[v].pc = "index"
        PROVE  Shown(writer[v].entry)' \/ Visible(writer[v].path, writer[v].entry)'
    <3>1. v # w
      BY <1>6, <2>2
    <3>2. writer'[v] = writer[v]
      BY <1>6, <3>1
    <3>3. ASSUME NEW f \in AllEntries, NEW q, Shown(f) \/ Visible(q, f)
          PROVE  Shown(f)' \/ Visible(q, f)'
      BY <1>3, <3>3 DEF Keeps, Shown
    <3> QED
      BY <1>4, <1>5, <2>2, <3>2, <3>3 DEF AllShown
  <2> QED
    BY <2>1, <2>2 DEF AllShown
<1> QED
  BY <1>3, <1>9, <1>10

-----------------------------------------------------------------------------
(* Entries while the compactor moves.                                      *)

\* No step but a crash or a restart takes an entry from where it is.
LEMMA StepKeeps ==
  \A e \in AllEntries :
    SInv /\ Structure /\ AllKept /\ AllShown /\ shards = {} /\ Next /\ SidecarsWritten /\ ~Start /\
    ~Crash =>
         Keeps(e)
<1> USE ZenonT(30)
<1>CompactKeeps.
    \A e \in AllEntries :
      SInv /\ Structure /\ Compact /\ ~MergeWriteBloomFails =>
           Keeps(e)
    \* What is left to show of a compactor's step: the entry's places.
  <2>CompactorKeeps.
      ASSUME NEW e, UNCHANGED <<marker, cutoff, writer>>,
             \A p : Holds(p, e) => Holds(p, e)' \/ Expired(e) \/ e \in Merging,
             \A p : Stored(p, e) => Kept(e)',
             \A p : Visible(p, e) => Visible(p, e)' \/ Expired(e) \/ (e \in Merging /\ Moved(e)'),
             Moved(e) => Shown(e)',
             \A p : Visible(p, e) /\ (<<p, e>> \in idx \/ Unindexed(p)) => Shown(e)'
      PROVE  Keeps(e)
    <3> USE <2>CompactorKeeps
    <3>1. Expired(e)' <=> Expired(e)
      BY DEF Expired
    <3>2. Kept(e) => Kept(e)'
      BY <3>1 DEF Kept
    <3>3. Shown(e) => Shown(e)'
      <4>1. Expired(e) => Shown(e)'
        BY <3>1 DEF Shown
      <4> QED
        BY <4>1 DEF Shown
    <3> QED
      BY <3>1, <3>2, <3>3 DEF Keeps
    \* Steps that leave files and filters alone.
  <2>SamePlaces.
      ASSUME NEW e, UNCHANGED <<files, sidecar, blooms, marker, cutoff, writer>>,
             Moved(e) => Shown(e)',
             \A p : Visible(p, e) /\ (<<p, e>> \in idx \/ Unindexed(p)) => Shown(e)'
      PROVE  Keeps(e)
    <3> USE <2>SamePlaces
    <3>1. \A p : (Holds(p, e) => Holds(p, e)') /\ (Stored(p, e) => Stored(p, e)') /\ (Visible(p, e) => Visible(p, e)')
      BY DEF Holds, Stored, Visible, Open, At
    <3>2. \A p : Stored(p, e) => Kept(e)'
      BY <3>1 DEF Kept
    <3> QED
      BY <3>1, <3>2, <2>CompactorKeeps
    \* Beginning and ending passes, skipping segments and reading a run.
  <2>PassKeeps.
      ASSUME SInv, NEW e \in AllEntries,
             PassBegin \/ MergeSkip \/ MergeRead \/ RetentionBegin \/ RetentionKeep \/ RetentionEnd
      PROVE  Keeps(e)
    <3> USE <2>PassKeeps
    <3>1. comp.pc \in {"idle", "scan", "retain"}
      BY DEF PassBegin, MergeSkip, MergeRead, RetentionBegin, RetentionKeep, RetentionEnd
    <3>2. UNCHANGED <<files, sidecar, blooms, marker, cutoff, writer, idx>>
      BY DEF PassBegin, MergeSkip, MergeRead, RetentionBegin, RetentionKeep, RetentionEnd, disk, manager, history
    <3>3. ~Moved(e) /\ \A p : ~Unindexed(p)
      BY <3>1 DEF Moved, Unindexed
    <3>4. \A p : Visible(p, e) /\ <<p, e>> \in idx => Shown(e)'
      BY <3>2 DEF Shown, Visible, Holds
    <3> QED
      BY <3>2, <3>3, <3>4, <2>SamePlaces
    \* RemoveSegment takes out the pairs of one segment.
  <2>RemovedPairs.
      ASSUME NEW q, NEW p, NEW e, <<p, e>> \in idx, p # q
      PROVE  <<p, e>> \in RemoveSegment(q)
    BY <2>RemovedPairs DEF RemoveSegment
  <2>UnindexKeeps.
      ASSUME SInv, NEW e \in AllEntries, MergeUnindex
      PROVE  Keeps(e)
    <3> USE <2>UnindexKeeps
    <3>1. comp.pc = "unindex" /\ comp'.pc \in {"unindex", "rename"} /\ comp'.run = comp.run
      BY InHandStays
    <3>2. comp.pc \in {"unindex", "rename", "bloom", "reindex", "manager"}
      BY <3>1
    <3>3. comp.left \in Seq(Nat) /\ Range(comp.left) \subseteq Range(comp.run) /\ comp.left # <<>>
      BY <3>1, <3>2, MergeUp DEF MergeAt
    <3>4. Head(comp.left) \in Range(comp.run)
      BY <3>3, HeadIn
    <3>5. UNCHANGED <<files, sidecar, blooms, marker, cutoff, writer>> /\ idx' = RemoveSegment(Head(comp.left))
      BY DEF MergeUnindex, disk, manager, history
    <3>6. ~Moved(e)
      BY <3>1 DEF Moved
    <3>7. ASSUME NEW p, Visible(p, e), <<p, e>> \in idx \/ Unindexed(p) PROVE Shown(e)'
      <4>1. Visible(p, e)'
        BY <3>5, <3>7 DEF Visible, Holds
      <4>2. CASE p \in Range(comp.run)
        BY <3>1, <4>1, <4>2 DEF Shown, Unindexed
      <4>3. CASE p \notin Range(comp.run)
        <5>1. <<p, e>> \in idx'
          BY <3>4, <3>5, <3>7, <4>3, <2>RemovedPairs DEF Unindexed
        <5> QED
          BY <4>1, <5>1 DEF Shown
      <4> QED
        BY <4>2, <4>3
    <3> QED
      BY <3>5, <3>6, <3>7, <2>SamePlaces
    \* When the rename fails the run's entries are indexed again where they are.
  <2>RenameFailsKeeps.
      ASSUME SInv, NEW e \in AllEntries, MergeRenameFails
      PROVE  Keeps(e)
    <3> USE <2>RenameFailsKeeps
    <3>1. comp.pc = "rename" /\ comp.pc \in {"unindex", "rename", "bloom", "reindex", "manager"}
      BY DEF MergeRenameFails
    <3>2. Whole(files, Range(comp.run))
      BY <3>1, MergeUp DEF MergeAt
    <3>3. PICK R : R = {q \in Range(comp.run) \cap DOMAIN files : ~files[q].torn}
      OBVIOUS
    <3>4. UNCHANGED <<files, sidecar, blooms, marker, cutoff, writer>> /\ idx' = idx \cup UNION {{p} \X Contents(p) : p \in R}
      BY <3>3 DEF MergeRenameFails, disk, manager, history
    <3>5. ~Moved(e)
      BY <3>1 DEF Moved
    <3>6. ASSUME NEW p, Visible(p, e), <<p, e>> \in idx \/ Unindexed(p) PROVE Shown(e)'
      <4>1. Visible(p, e)'
        BY <3>4, <3>6 DEF Visible, Holds
      <4>2. CASE p \in Range(comp.run)
        <5>1. p \in R /\ e \in Contents(p)
          BY <3>2, <3>3, <3>6, <4>2 DEF Whole, Visible, Holds, Contents
        <5>2. <<p, e>> \in {p} \X Contents(p)
          BY <5>1
        <5>3. <<p, e>> \in idx'
          BY <3>4, <5>1, <5>2
        <5> QED
          BY <4>1, <5>3 DEF Shown
      <4>3. CASE p \notin Range(comp.run)
        BY <3>4, <3>6, <4>1, <4>3 DEF Shown, Unindexed
      <4> QED
        BY <4>2, <4>3
    <3> QED
      BY <3>4, <3>5, <3>6, <2>SamePlaces
  <2>ReindexKeeps.
      ASSUME SInv, NEW e \in AllEntries, MergeReindex
      PROVE  Keeps(e)
    <3> USE <2>ReindexKeeps
    <3>1. comp.pc = "reindex" /\ comp'.pc = "manager" /\ UNCHANGED <<comp.run, comp.tmp>>
      BY InHandStays
    <3>2. UNCHANGED <<files, sidecar, blooms, marker, cutoff, writer>> /\ idx \subseteq idx'
      BY DEF MergeReindex, disk, manager, history
    <3>3. Moved(e) => Moved(e)'
      BY <3>1 DEF Moved, Merging
    <3>4. \A p : ~Unindexed(p)
      BY <3>1 DEF Unindexed
    <3>5. \A p : Visible(p, e) /\ <<p, e>> \in idx => Shown(e)'
      BY <3>2 DEF Shown, Visible, Holds
    <3> QED
      BY <3>2, <3>3, <3>4, <3>5, <2>SamePlaces DEF Shown
    \* Retention removes a segment of expired entries from the index.
  <2>RetentionUnindexKeeps.
      ASSUME SInv, NEW e \in AllEntries, RetentionUnindex
      PROVE  Keeps(e)
    <3> USE <2>RetentionUnindexKeeps
    <3>1. comp.pc = "expire" /\ comp.pc # "idle"
      BY DEF RetentionUnindex
    <3>2. comp.run \in Seq(Nat) /\ comp.cutoff \in Nat /\ comp.cutoff <= cutoff /\ cutoff \in Nat
      BY <3>1, CompactorUp DEF SInv, HandlersOK
    <3>3. Len(comp.run) = 1 /\ \A f \in Read(files, Range(comp.run)) : TsOf[f] < comp.cutoff
      BY <3>1 DEF SInv, CompactorOK, CompactorAt, DeleteAt
    <3>4. comp.run # <<>>
      <4>1. comp.run = <<>> => Len(comp.run) = 0
        BY <3>2, ListNames
      <4>2. 0 # 1
        BY SMT
      <4> QED
        BY <3>3, <4>1, <4>2
    <3>5. Head(comp.run) \in Range(comp.run)
      BY <3>2, <3>4, HeadIn
    <3>6. UNCHANGED <<files, sidecar, blooms, marker, cutoff, writer>> /\ idx' = RemoveSegment(Head(comp.run))
      BY DEF RetentionUnindex, disk, manager, history
    <3>7. ~Moved(e) /\ \A p : ~Unindexed(p)
      BY <3>1 DEF Moved, Unindexed
    <3>8. ASSUME NEW p, Visible(p, e), <<p, e>> \in idx PROVE Shown(e)'
      <4>1. CASE p = Head(comp.run)
        <5>1. e \in Read(files, Range(comp.run))
          BY <3>5, <3>8, <4>1 DEF Read, Visible, Holds
        <5>2. Expired(e)
          BY <3>2, <3>3, <5>1, OldIsExpired
        <5> QED
          BY <3>6, <5>2 DEF Shown, Expired
      <4>2. CASE p # Head(comp.run)
        BY <3>6, <3>8, <4>2, <2>RemovedPairs DEF Shown, Visible, Holds
      <4> QED
        BY <4>1, <4>2
    <3> QED
      BY <3>6, <3>7, <3>8, <2>SamePlaces
    \* The rename: what the run's files held is in the merged file at once.
  <2>RenameKeeps.
      ASSUME SInv, NEW e \in AllEntries, MergeRename
      PROVE  Keeps(e)
    <3> USE <2>RenameKeeps
    <3>1. comp.pc = "rename" /\ comp.pc \in {"unindex", "rename", "bloom", "reindex", "manager"}
      BY DEF MergeRename
    <3>2. UNCHANGED <<comp.run, comp.tmp>> /\ comp'.pc = IF BloomEnabled /\ comp.tmp.recs # {} THEN "bloom" ELSE "reindex"
      BY InHandStays
    <3>3. comp'.pc \in {"bloom", "reindex", "manager", "delete", "delbloom"}
      BY <3>2
    <3>4. Merging = comp.tmp.recs /\ comp.tmp.recs = Read(files, Range(comp.run))
      BY <3>1, MergeUp DEF MergeAt
    <3>5. Merging' = Merging
      BY <3>2 DEF Merging
    <3>6. UNCHANGED <<sidecar, blooms, marker, cutoff, writer, idx>>
      BY DEF MergeRename, history
    <3>7. \A p : Holds(p, e) => Holds(p, e)'
      BY MergeRenameStep DEF FilesGrow, Holds
    <3>8. \A p : Stored(p, e) => Kept(e)'
      <4>1. \A p : Stored(p, e) => Stored(p, e)'
        BY <3>6, <3>7 DEF Stored, Open, At
      <4> QED
        BY <4>1 DEF Kept
    <3>9. \A p : Visible(p, e) => Visible(p, e)'
      BY <3>6, <3>7 DEF Visible
    <3>10. ~Moved(e)
      BY <3>1 DEF Moved
    <3>11. ASSUME NEW p, Visible(p, e), <<p, e>> \in idx \/ Unindexed(p) PROVE Shown(e)'
      <4>1. CASE Unindexed(p)
        <5>1. e \in Merging
          BY <3>4, <3>11, <4>1 DEF Read, Visible, Holds, Unindexed
        <5> QED
          BY <3>3, <3>5, <5>1 DEF Shown, Moved
      <4>2. CASE <<p, e>> \in idx
        BY <3>6, <3>9, <3>11, <4>2 DEF Shown
      <4> QED
        BY <3>11, <4>1, <4>2
    <3> QED
      BY <3>6, <3>7, <3>8, <3>9, <3>10, <3>11, <2>CompactorKeeps
    \* The merged file's sidecar has all that the file holds.
  <2>WriteBloomKeeps.
      ASSUME SInv, NEW e \in AllEntries, MergeWriteBloom
      PROVE  Keeps(e)
    <3> USE <2>WriteBloomKeeps
    <3>1. comp.pc = "bloom" /\ comp'.pc = "reindex" /\ UNCHANGED <<comp.run, comp.tmp>>
      BY InHandStays
    <3>2. comp.pc \in {"unindex", "rename", "bloom", "reindex", "manager"}
      BY <3>1
    <3>3. comp.tmp.recs = files[Head(comp.run)].recs
      BY <3>1, <3>2, MergeUp DEF MergeAt
    <3>4. UNCHANGED <<files, blooms, marker, cutoff, writer, idx>>
      BY DEF MergeWriteBloom, manager, history
    <3>5. \A p : (Holds(p, e) => Holds(p, e)') /\ (Visible(p, e) => Visible(p, e)')
      BY <3>4 DEF Holds, Visible
    <3>6. \A p : Stored(p, e) => Kept(e)'
      <4>1. \A p : Stored(p, e) => Stored(p, e)'
        <5>1. ASSUME NEW p, Holds(p, e), Covers(sidecar, p, e) PROVE Covers(sidecar', p, e)
          BY <3>3, <5>1, BloomWritten DEF Holds
        <5> QED
          BY <3>4, <3>5, <5>1 DEF Stored, Open, At
      <4> QED
        BY <4>1 DEF Kept
    <3>7. Moved(e) => Shown(e)'
      BY <3>1 DEF Moved, Merging, Shown
    <3>8. \A p : ~Unindexed(p)
      BY <3>1 DEF Unindexed
    <3>9. \A p : Visible(p, e) /\ <<p, e>> \in idx => Shown(e)'
      BY <3>4, <3>5 DEF Shown
    <3> QED
      BY <3>4, <3>5, <3>6, <3>7, <3>8, <3>9, <2>CompactorKeeps
    \* The manager forgets the filters of the run; the entries there are the merge's.
  <2>ManagerKeeps.
      ASSUME SInv, FiltersOK, MergedFilters, NEW e \in AllEntries, MergeManager
      PROVE  Keeps(e)
    <3> USE <2>ManagerKeeps
    <3>1. comp.pc = "manager" /\ comp'.pc = "delete" /\ UNCHANGED <<comp.run, comp.tmp>>
      BY InHandStays
    <3>2. comp.pc \in {"unindex", "rename", "bloom", "reindex", "manager"}
      BY <3>1
    <3>3. Read(files, Range(comp.run)) \subseteq Merging
      BY <3>1, <3>2, MergeUp DEF MergeAt
    <3>4. UNCHANGED <<files, sidecar, marker, cutoff, writer, idx>>
      BY DEF MergeManager, disk, history
    <3>5. e \in Merging => Moved(e)'
      BY <3>1 DEF Moved, Merging
    <3>6. \A p : Holds(p, e) => Holds(p, e)'
      BY <3>4 DEF Holds
    <3>7. \A p : Stored(p, e) => Kept(e)'
      <4>1. \A p : Stored(p, e) => Stored(p, e)'
        BY <3>4, <3>6 DEF Stored, Open, At
      <4> QED
        BY <4>1 DEF Kept
    <3>8. ASSUME NEW p, Visible(p, e) PROVE Visible(p, e)' \/ (e \in Merging /\ Moved(e)')
      <4>1. CASE p \in Range(comp.run)
        <5>1. e \in Read(files, Range(comp.run))
          BY <3>8, <4>1 DEF Visible, Holds, Read
        <5> QED
          BY <3>3, <3>5, <5>1
      <4>2. CASE p \notin Range(comp.run)
        BY <3>6, <3>8, <4>2, ManagerReloads DEF Visible
      <4> QED
        BY <4>1, <4>2
    <3>9. Moved(e) => Shown(e)'
      BY <3>5 DEF Moved, Shown
    <3>10. \A p : ~Unindexed(p)
      BY <3>1 DEF Unindexed
    <3>11. \A p : Visible(p, e) /\ <<p, e>> \in idx => Shown(e)'
      BY <3>4, <3>8 DEF Shown
    <3> QED
      BY <3>4, <3>6, <3>7, <3>8, <3>9, <3>10, <3>11, <2>CompactorKeeps
    \* A file goes whose entries are in the merged file, or expired.
  <2>DeleteKeeps.
      ASSUME SInv, MergedFilters, NEW e \in AllEntries, DeleteFile
      PROVE  Keeps(e)
    <3> USE <2>DeleteKeeps
    <3>1. comp.pc = "delete" /\ comp'.pc = "delbloom" /\ UNCHANGED <<comp.run, comp.tmp>>
      BY InHandStays
    <3>2. comp.pc \in {"delete", "delbloom"}
      BY <3>1
    <3>3. PICK d, h : d = Head(comp.left) /\ h = Head(comp.run)
      OBVIOUS
    <3>4. d \in Range(comp.left) /\ d \notin Range(paths) /\ DOMAIN files' = DOMAIN files \ {d}
          /\ \A p \in DOMAIN files : p # d => files'[p] = files[p]
      BY <3>3, DeleteFiles
    <3>5. DeleteAt(comp, files, Range(paths), idx) /\ comp.cutoff \in Nat /\ comp.cutoff <= cutoff /\ phase # "down"
      BY <3>2, DeleteUp
    <3>6. UNCHANGED <<sidecar, blooms, marker, cutoff, writer, idx>> /\ cutoff \in Nat
      BY DEF DeleteFile, history, SInv, HandlersOK
    <3>7. ASSUME NEW p, Holds(p, e), p # d PROVE Holds(p, e)'
      BY <3>4, <3>7 DEF Holds
    <3>8. Moved(e) => Moved(e)'
      BY <3>1 DEF Moved, Merging
    <3>9. ASSUME Holds(d, e), Len(comp.run) > 1
          PROVE  e \in Merging /\ Moved(e)' /\ Kept(e)'
      <4>1. e \in Read(files, Range(comp.left))
        BY <3>4, <3>9 DEF Read, Holds
      <4>2. h \in Range(paths) /\ comp.tmp.recs = files[h].recs /\ e \in comp.tmp.recs
        BY <3>2, <3>3, <3>5, <3>9, <4>1 DEF DeleteAt
      <4>3. e \in Merging
        BY <3>9, <4>2 DEF Merging
      <4>4. Moved(e)'
        BY <3>2, <3>8, <4>3 DEF Moved
      <4>5. h \in DOMAIN files /\ h # d
        BY <3>4, <3>5, <4>2, NodeUp
      <4>6. Holds(h, e)'
        BY <3>7, <4>2, <4>5 DEF Holds
      <4>7. Covers(sidecar', h, e)
        BY <3>2, <3>3, <3>6, <3>9, <4>2 DEF MergedFilters
      <4> QED
        BY <4>3, <4>4, <4>6, <4>7 DEF Kept, Stored
    <3>10. ASSUME Holds(d, e), ~(Len(comp.run) > 1)
           PROVE  Expired(e) /\ Expired(e)'
      <4>1. e \in Read(files, Range(comp.left))
        BY <3>4, <3>10 DEF Read, Holds
      <4>2. TsOf[e] < comp.cutoff
        BY <3>2, <3>5, <3>10, <4>1 DEF DeleteAt
      <4>3. Expired(e)
        BY <3>5, <3>6, <4>2, OldIsExpired
      <4> QED
        BY <3>6, <4>3 DEF Expired
    <3>11. \A p : Holds(p, e) => Holds(p, e)' \/ Expired(e) \/ e \in Merging
      BY <3>7, <3>9, <3>10
    <3>12. \A p : Stored(p, e) => Kept(e)'
      <4>1. ASSUME NEW p, Stored(p, e), p # d PROVE Stored(p, e)'
        BY <3>6, <3>7, <4>1 DEF Stored, Open, At
      <4> QED
        BY <3>9, <3>10, <4>1 DEF Kept, Stored
    <3>13. \A p : Visible(p, e) => Visible(p, e)' \/ Expired(e) \/ (e \in Merging /\ Moved(e)')
      BY <3>6, <3>7, <3>9, <3>10 DEF Visible
    <3>14. \A p : ~Unindexed(p)
      BY <3>1 DEF Unindexed
    <3>15. \A p : Visible(p, e) /\ <<p, e>> \in idx => Shown(e)'
      BY <3>6, <3>7, <3>9, <3>10 DEF Visible, Shown
    <3>16. Moved(e) => Shown(e)'
      BY <3>8 DEF Shown
    <3> QED
      BY <3>6, <3>11, <3>12, <3>13, <3>14, <3>15, <3>16, <2>CompactorKeeps
    \* The end of a deletion: the entries of a merge are found in the merged file.
  <2>DeleteBloomKeeps.
      ASSUME SInv, MergedFilters, NEW e \in AllEntries, DeleteBloom
      PROVE  Keeps(e)
    <3> USE <2>DeleteBloomKeeps
    <3>1. /\ comp.pc = "delbloom"
          /\ \/ comp'.pc = "delete" /\ comp'.run = comp.run /\ comp'.tmp = comp.tmp
             \/ comp'.pc \in {"scan", "retain"} /\ comp'.run = <<>>
      BY DeleteEnds
    <3>2. comp.pc \in {"delete", "delbloom"}
      BY <3>1
    <3>3. PICK h : h = Head(comp.run)
      OBVIOUS
    <3>4. UNCHANGED <<files, blooms, marker, cutoff, writer, idx>>
      BY DEF DeleteBloom, manager, history
    <3>5. \A p : (Holds(p, e) => Holds(p, e)') /\ (Visible(p, e) => Visible(p, e)')
      BY <3>4 DEF Holds, Visible
    <3>6. \A p : Stored(p, e) => Kept(e)'
      <4>1. \A p : Stored(p, e) => Stored(p, e)'
        BY <3>4, <3>5, DeleteFiles DEF Stored, Open, At
      <4> QED
        BY <4>1 DEF Kept
    <3>7. \A p : Visible(p, e) /\ <<p, e>> \in idx => Shown(e)'
      BY <3>4, <3>5 DEF Shown
    <3>8. ASSUME Moved(e) PROVE Shown(e)'
      <4>1. Len(comp.run) > 1 /\ e \in comp.tmp.recs
        BY <3>8 DEF Moved, Merging
      <4>2. DeleteAt(comp, files, Range(paths), idx) /\ phase # "down"
        BY <3>2, DeleteUp
      <4>3. h \in Range(paths) /\ comp.tmp.recs = files[h].recs /\ {h} \X comp.tmp.recs \subseteq idx
        BY <3>2, <3>3, <4>1, <4>2 DEF DeleteAt
      <4>4. h \in DOMAIN files
        BY <4>2, <4>3, NodeUp
      <4>5. Covers(blooms, h, e)
        BY <3>2, <3>3, <4>1 DEF MergedFilters
      <4>6. Visible(h, e)
        BY <4>1, <4>3, <4>4, <4>5 DEF Visible, Holds
      <4>7. <<h, e>> \in idx
        BY <4>1, <4>3
      <4> QED
        BY <3>7, <4>6, <4>7
    <3>9. \A p : ~Unindexed(p)
      BY <3>1 DEF Unindexed
    <3> QED
      BY <3>4, <3>5, <3>6, <3>7, <3>8, <3>9, <2>CompactorKeeps
    \* Retention drops the filter of a segment it takes off the list.
  <2>RetentionDeleteKeeps.
      ASSUME SInv, FiltersOK, NEW e \in AllEntries, RetentionDelete
      PROVE  Keeps(e)
    <3> USE <2>RetentionDeleteKeeps
    <3>1. comp.pc = "retain"
      BY DEF RetentionDelete
    <3>2. UNCHANGED <<files, sidecar, marker, cutoff, writer, idx>>
      BY DEF RetentionDelete, disk, history
    <3>3. \A p : (Holds(p, e) => Holds(p, e)') /\ (Visible(p, e) => Visible(p, e)')
      BY <3>2, RetentionDrops DEF Holds, Visible
    <3>4. \A p : Stored(p, e) => Kept(e)'
      <4>1. \A p : Stored(p, e) => Stored(p, e)'
        BY <3>2, <3>3 DEF Stored, Open, At
      <4> QED
        BY <4>1 DEF Kept
    <3>5. ~Moved(e) /\ \A p : ~Unindexed(p)
      BY <3>1 DEF Moved, Unindexed
    <3>6. \A p : Visible(p, e) /\ <<p, e>> \in idx => Shown(e)'
      BY <3>2, <3>3 DEF Shown
    <3> QED
      BY <3>2, <3>3, <3>4, <3>5, <3>6, <2>CompactorKeeps
  <2> SUFFICES ASSUME SInv, Structure, NEW e \in AllEntries, Compact, ~MergeWriteBloomFails
               PROVE  Keeps(e)
    OBVIOUS
  <2>1. CASE PassBegin \/ MergeSkip \/ MergeRead \/ RetentionBegin \/ RetentionKeep \/ RetentionEnd
    BY <2>1, <2>PassKeeps
  <2>2. CASE MergeUnindex \/ MergeRename \/ MergeRenameFails \/ MergeWriteBloom \/ MergeReindex
    BY <2>2, <2>UnindexKeeps, <2>RenameKeeps, <2>RenameFailsKeeps, <2>WriteBloomKeeps, <2>ReindexKeeps
  <2>3. CASE MergeManager \/ DeleteFile \/ DeleteBloom \/ RetentionDelete \/ RetentionUnindex
    BY <2>3, <2>ManagerKeeps, <2>DeleteKeeps, <2>DeleteBloomKeeps, <2>RetentionDeleteKeeps, <2>RetentionUnindexKeeps DEF Structure
  <2> QED
    BY <2>1, <2>2, <2>3 DEF Compact
<1> SUFFICES ASSUME SInv, Structure, AllKept, AllShown, NEW e \in AllEntries, shards = {}, Next, SidecarsWritten, ~Start, ~Crash
             PROVE  Keeps(e)
  OBVIOUS
<1>1. CASE Compact
  BY <1>1, <1>CompactKeeps DEF SidecarsWritten
<1>2. ASSUME NEW w \in Writers, Append1(w) PROVE Keeps(e)
  BY <1>2, AppendEntry, IndexAll DEF Append1, SidecarsWritten
<1>3. CASE Serve \/ AdvanceCutoff \/ Query
  <2>1. UNCHANGED <<files, sidecar, marker, blooms, comp, writer, idx>>
    BY <1>3 DEF Serve, AdvanceCutoff, Query, QueryResolve, QueryPrune, QueryRead, QueryReadFails, QueryReturn,
                       disk, manager
  <2>2. cutoff' = cutoff \/ cutoff' = cutoff + 1
    BY <1>3 DEF Serve, AdvanceCutoff, Query, QueryResolve, QueryPrune, QueryRead, QueryReadFails, QueryReturn,
                       history
  <2>3. cutoff \in Nat
    BY DEF SInv, HandlersOK
  <2>4. cutoff' \in Nat /\ cutoff <= cutoff'
    BY <2>2, <2>3, SMT
  <2> QED
    BY <2>1, <2>4, QuietEntry
<1> QED
  BY <1>1, <1>2, <1>3 DEF Next

\* What was acknowledged stays kept and shown.
LEMMA AllStep ==
    SInv /\ Structure /\ AllKept /\ AllShown /\ shards = {} /\ Next /\ SidecarsWritten =>
         AllKept' /\ AllShown'
<1> USE ZenonT(30)
<1>KeepsAll.
    ASSUME SInv, AllKept, AllShown, \A e \in AllEntries : Keeps(e), acked' = acked, NoneIndexes,
           phase = "down" => phase' = "down"
    PROVE  AllKept' /\ AllShown'
  <2> USE <1>KeepsAll
  <2>1. acked \subseteq AllEntries /\ \A w \in Writers : writer[w].pc = "index" => writer[w].entry \in AllEntries
    BY AckedKnown
  <2>2. AllKept'
    BY <2>1 DEF AllKept, Keeps, NoneIndexes
  <2>3. AllShown'
    <3>1. ASSUME NEW e \in AllEntries, NEW p, Shown(e) \/ Visible(p, e)
          PROVE  Shown(e)' \/ Visible(p, e)'
      BY <3>1 DEF Keeps, Shown
    <3> QED
      BY <2>1, <3>1 DEF AllShown, Keeps, NoneIndexes
  <2> QED
    BY <2>2, <2>3
<1>AppendAll.
    ASSUME SInv, Structure, AllKept, AllShown, NEW w \in Writers,
           AppendBegin(w) \/ RotateClose(w) \/ OpenNewSegment(w) \/ TruncateMarker(w)
           \/ WriteMarker(w) \/ WriteHeader(w) \/ WriteData(w)
    PROVE  AllKept' /\ AllShown'
  <2> USE <1>AppendAll
  <2>1. \A e \in AllEntries : Keeps(e)
    BY AppendEntry
  <2>2. acked' = acked /\ phase' = phase
    BY DEF AppendBegin, RotateClose, OpenNewSegment, TruncateMarker, WriteMarker, WriteHeader, WriteData, history
  <2>3. CASE ~WriteData(w)
    <3>1. writer'[w].pc # "index" /\ \A v \in Writers : v # w => writer'[v] = writer[v]
      <4>1. /\ \A v \in Writers : v # w => writer'[v] = writer[v]
            /\ AppendBegin(w) => writer'[w].pc \in {"rotate", "header"}
            /\ RotateClose(w) => writer'[w].pc = "create"
            /\ OpenNewSegment(w) => writer'[w].pc = "truncate"
            /\ TruncateMarker(w) => writer'[w].pc = "mark"
            /\ WriteMarker(w) => writer'[w].pc = "header"
            /\ WriteHeader(w) => writer'[w].pc = "data"
        BY AppendPcs DEF Structure
      <4> QED
        BY <2>3, <4>1
    <3>2. NoneIndexes
      BY <3>1 DEF NoneIndexes
    <3> QED
      BY <2>1, <2>2, <3>2, <1>KeepsAll
  <2>4. CASE WriteData(w)
    <3>1. /\ \A v \in Writers : v # w => writer'[v] = writer[v]
          /\ writer[w].entry \in files'[writer'[w].path].recs /\ writer'[w].path \in DOMAIN files'
      BY <2>4, WriteDataEffect
    <3>2. /\ marker = fd.path /\ fd.path \notin DOMAIN blooms /\ ~At("truncate")'
          /\ UNCHANGED <<marker, blooms, paths>>
      BY <2>4, WriteFilters DEF Structure
    <3>3. writer \in [Writers -> Handlers] /\ writer[w].pc = "data" /\ phase # "down"
      BY <2>4 DEF WriteData, SInv, HandlersOK
    <3>4. fd.path = Last(paths)
      BY <3>3, NodeUp
    <3>5. writer'[w].entry = writer[w].entry /\ writer'[w].path = fd.path
      BY <2>4, <3>3, <3>4 DEF WriteData, Handlers, ReturnedPath
    <3>6. PICK e, p : e = writer[w].entry /\ p = fd.path
      OBVIOUS
    <3>7. Visible(p, e)' /\ Open(p)' /\ Holds(p, e)'
      BY <3>1, <3>2, <3>5, <3>6 DEF Visible, Holds, Covers, Open
    <3>8. Kept(writer[w].entry)' /\ Visible(writer[w].path, writer[w].entry)'
      BY <3>5, <3>6, <3>7 DEF Kept, Stored
    <3>9. ASSUME NEW f \in AllEntries, NEW q, Shown(f) \/ Visible(q, f)
          PROVE  Shown(f)' \/ Visible(q, f)'
      BY <2>1, <3>9 DEF Keeps, Shown
    <3>10. acked \subseteq AllEntries /\ \A v \in Writers : writer[v].pc = "index" => writer[v].entry \in AllEntries
      BY AckedKnown
    <3>11. AllKept'
      BY <2>1, <2>2, <3>1, <3>8, <3>10 DEF AllKept, Keeps
    <3>12. AllShown'
      <4>1. \A f \in acked' : Shown(f)'
        BY <2>1, <2>2, <3>3, <3>10 DEF AllShown, Keeps
      <4>2. ASSUME NEW v \in Writers, writer'[v].pc = "index"
            PROVE  Shown(writer[v].entry)' \/ Visible(writer[v].path, writer[v].entry)'
        <5>1. CASE v = w
          BY <3>8, <5>1
        <5>2. CASE v # w
          <6>1. writer'[v] = writer[v]
            BY <3>1, <5>2
          <6> QED
            BY <3>3, <3>9, <3>10, <4>2, <6>1 DEF AllShown
        <5> QED
          BY <5>1, <5>2
      <4> QED
        BY <4>1, <4>2 DEF AllShown
    <3> QED
      BY <3>11, <3>12
  <2> QED
    BY <2>3, <2>4
  \* A crash loses what is in memory and keeps what a restart finds.
<1>CrashAll.
    ASSUME SInv, Structure, AllKept, Crash
    PROVE  AllKept' /\ AllShown'
  <2> USE <1>CrashAll
  <2>1. phase' = "down" /\ UNCHANGED <<files, sidecar, marker, acked, cutoff>> /\ \A l \in Locked : ~At(l)'
    BY CrashFilters DEF Crash, disk, Structure
  <2>2. ~At("truncate")'
    BY <2>1 DEF Locked
  <2>3. \A w \in Writers : writer'[w].pc # "index"
    BY DEF Crash, IdleWriter
  <2>4. \A e : Kept(e) => Kept(e)'
    BY <2>1, <2>2 DEF Kept, Expired, Stored, Open, Holds
  <2> QED
    BY <2>1, <2>3, <2>4 DEF AllKept, AllShown
  \* A restart lists, indexes and loads every file, so it shows what was kept.
<1>StartAll.
    ASSUME SInv, Structure, AllKept, Start
    PROVE  AllKept' /\ AllShown'
  <2> USE <1>StartAll
  <2>1. /\ phase = "down" /\ idx' = RebuildFromSegments /\ UNCHANGED <<sidecar, writer, acked, cutoff>>
    BY DEF Start, history
  <2>2. /\ \A l \in Locked : ~At(l) /\ ~At(l)'
        /\ \A p \in DOMAIN files : p \in DOMAIN files' /\ files'[p] = files[p]
        /\ \A p \in DOMAIN files : \A e : p = marker \/ Covers(sidecar, p, e) => Covers(blooms', p, e)
        /\ DOMAIN files # {} => marker' = marker
    BY StartFilters DEF Structure
  <2>3. ~At("truncate")'
    BY <2>2 DEF Locked
  <2>4. \A w \in Writers : writer'[w].pc # "index"
    BY <2>1, DownQuiet
  <2>5. ASSUME NEW e, Kept(e) PROVE Kept(e)' /\ Shown(e)'
    <3>1. CASE Expired(e)
      BY <2>1, <3>1 DEF Expired, Kept, Shown
    <3>2. ASSUME NEW p, Stored(p, e) PROVE Stored(p, e)' /\ Visible(p, e)' /\ <<p, e>> \in idx'
      <4>1. Holds(p, e) /\ Holds(p, e)' /\ marker' = marker
        BY <2>2, <3>2 DEF Stored, Holds
      <4>2. Visible(p, e)' /\ Stored(p, e)'
        BY <2>1, <2>2, <2>3, <3>2, <4>1 DEF Visible, Stored, Open, Holds
      <4>3. <<p, e>> \in idx'
        BY <2>1, <4>1, SMT DEF RebuildFromSegments, Contents, Holds
      <4> QED
        BY <4>2, <4>3
    <3> QED
      BY <2>5, <3>1, <3>2 DEF Kept, Shown
  <2> QED
    BY <2>1, <2>4, <2>5 DEF AllKept, AllShown
<1> SUFFICES ASSUME SInv, Structure, AllKept, AllShown, shards = {}, Next, SidecarsWritten
             PROVE  AllKept' /\ AllShown'
  OBVIOUS
<1>1. CASE Start \/ Crash
  BY <1>1, <1>StartAll, <1>CrashAll
<1>2. ASSUME NEW w \in Writers, Append1(w) PROVE AllKept' /\ AllShown'
  BY <1>2, <1>AppendAll, IndexAll DEF Append1, SidecarsWritten
<1>3. CASE Compact \/ Serve \/ AdvanceCutoff \/ Query
  <2>1. CASE Start \/ Crash
    BY <1>1, <2>1
  <2>2. CASE ~(Start \/ Crash)
    <3>1. \A e \in AllEntries : Keeps(e)
      BY <2>2, StepKeeps
    <3>2. acked' = acked /\ writer' = writer
      <4>1. CASE Compact
        BY <4>1, CompactorQuiet DEF SidecarsWritten
      <4>2. CASE Serve \/ AdvanceCutoff \/ Query
        BY <4>2 DEF Serve, AdvanceCutoff, Query, QueryResolve, QueryPrune, QueryRead, QueryReadFails,
                           QueryReturn, history
      <4> QED
        BY <1>3, <4>1, <4>2
    <3>3. phase = "down" => phase' = "down"
      <4>1. Compact => phase = "serving"
        BY CompactorQuiet DEF SidecarsWritten
      <4>2. AdvanceCutoff \/ Query => phase' = phase
        BY DEF AdvanceCutoff, Query, QueryResolve, QueryPrune, QueryRead, QueryReadFails, QueryReturn
      <4>3. Serve => phase = "catchup"
        BY DEF Serve
      <4> QED
        BY <1>3, <4>1, <4>2, <4>3
    <3>4. NoneIndexes
      BY <3>2 DEF NoneIndexes
    <3> QED
      BY <3>1, <3>2, <3>3, <3>4, <1>KeepsAll
  <2> QED
    BY <2>1, <2>2
<1> QED
  BY <1>1, <1>2, <1>3 DEF Next

-----------------------------------------------------------------------------
(* Queries.                                                                *)

\* The index names segments below nextSeq, and so do handlers about to index.
Numbered(p) == p \in Nat /\ p < nextSeq
IndexNames ==
    phase # "down" =>
        /\ \A x \in idx : Numbered(x[1])
        /\ \A w \in Writers : writer[w].pc = "index" => Numbered(writer[w].path)

\* Every path that enters the index is one of the manager's.
LEMMA IndexNamesStep ==
    SInv /\ SInv' /\ Lock /\ IndexNames /\ shards = {} /\ Next /\ SidecarsWritten =>
         IndexNames'
  \* Files on a node that is up are numbered.
<1> USE ZenonT(30)
<1>FilesNumbered.
    ASSUME SInv, phase # "down"
    PROVE  \A p \in DOMAIN files : Numbered(p)
  BY <1>FilesNumbered, NodeUp DEF Numbered
<1> SUFFICES ASSUME SInv, SInv', Lock, IndexNames, shards = {}, Next, SidecarsWritten
             PROVE  IndexNames'
  OBVIOUS
<1>1. ASSUME phase # "down", nextSeq' \in {nextSeq, nextSeq + 1}, NoneIndexes,
             \A x \in idx' : x \in idx \/ Numbered(x[1])
      PROVE  IndexNames'
  <2>1. nextSeq \in Nat
    BY DEF SInv, HandlersOK
  <2>2. ASSUME NEW p, Numbered(p) PROVE Numbered(p)'
    BY <1>1, <2>1, <2>2, SMT DEF Numbered
  <2>3. \A x \in idx' : Numbered(x[1])
    BY <1>1 DEF IndexNames
  <2>4. \A x \in idx' : Numbered(x[1])'
    BY <2>2, <2>3
  <2>5. ASSUME NEW w \in Writers, writer'[w].pc = "index" PROVE Numbered(writer[w].path)'
    <3>1. Numbered(writer[w].path) /\ writer'[w].path = writer[w].path
      BY <1>1, <2>5 DEF IndexNames, NoneIndexes
    <3> QED
      BY <2>2, <3>1
  <2> QED
    BY <2>4, <2>5 DEF IndexNames
<1>2. CASE Start
  <2>1. phase = "down" /\ idx' = RebuildFromSegments /\ writer' = writer /\ phase' = "catchup"
    BY <1>2 DEF Start
  <2>2. \A w \in Writers : writer'[w].pc # "index"
    BY <2>1, DownQuiet
  <2>3. DOMAIN files \subseteq DOMAIN files'
    BY <1>2, StartStep DEF FilesGrow
  <2>4. \A p \in DOMAIN files' : p \in Nat /\ p < nextSeq'
    BY <2>1 DEF SInv, FilesOK, ManagerOK
  <2>5. ASSUME NEW x \in idx' PROVE x[1] \in DOMAIN files
    BY <2>1, <2>5, SMT DEF RebuildFromSegments
  <2> QED
    BY <2>2, <2>3, <2>4, <2>5 DEF IndexNames, Numbered
<1>3. CASE Crash
  BY <1>3 DEF Crash, IndexNames
<1>4. CASE Serve \/ AdvanceCutoff \/ Query
  <2>1. UNCHANGED <<idx, writer, nextSeq>>
    BY <1>4 DEF Serve, AdvanceCutoff, Query, QueryResolve, QueryPrune, QueryRead, QueryReadFails, QueryReturn,
                       manager
  <2>2. phase = "down" => phase' = "down"
    BY <1>4 DEF Serve, AdvanceCutoff, Query, QueryResolve, QueryPrune, QueryRead, QueryReadFails, QueryReturn
  <2> QED
    BY <2>1, <2>2 DEF IndexNames, Numbered
<1>5. ASSUME NEW w \in Writers, IndexAndAck(w) PROVE IndexNames'
  <2>1. /\ writer[w].pc = "index" /\ nextSeq' = nextSeq /\ writer' = [writer EXCEPT ![w] = IdleWriter]
        /\ idx' = idx \cup {<<writer[w].path, writer[w].entry>>}
    BY <1>5 DEF IndexAndAck, manager
  <2>2. phase # "down" /\ writer \in [Writers -> Handlers]
    BY <2>1 DEF SInv, HandlersOK
  <2>3. Numbered(writer[w].path)
    BY <2>1, <2>2 DEF IndexNames
  <2>4. \A x \in idx' : x \in idx \/ Numbered(x[1])
    BY <2>1, <2>3, SMT
  <2>5. IdleWriter.pc # "index"
    BY DEF IdleWriter
  <2>6. NoneIndexes
    BY <2>1, <2>2, <2>5 DEF NoneIndexes
  <2> QED
    BY <1>1, <2>1, <2>2, <2>4, <2>6
<1>6. ASSUME NEW w \in Writers, Append1(w), ~IndexAndAck(w) PROVE IndexNames'
  <2>1. \/ AppendBegin(w) \/ RotateClose(w) \/ OpenNewSegment(w) \/ TruncateMarker(w)
        \/ WriteMarker(w) \/ WriteHeader(w) \/ WriteData(w)
    BY <1>6 DEF Append1, SidecarsWritten
  <2>2. phase = "serving" /\ idx' = idx /\ nextSeq' \in {nextSeq, nextSeq + 1} /\ (WriteData(w) => nextSeq' = nextSeq)
    <3>1. AppendBegin(w) \/ writer[w].pc # "idle"
      BY <2>1, AppendPcs DEF RotateClose, OpenNewSegment, TruncateMarker, WriteMarker, WriteHeader, WriteData
    <3>2. phase = "serving"
      BY <3>1 DEF AppendBegin, SInv, HandlersOK
    <3>3. idx' = idx /\ nextSeq' \in {nextSeq, nextSeq + 1} /\ (WriteData(w) => nextSeq' = nextSeq)
      BY <2>1 DEF AppendBegin, RotateClose, OpenNewSegment, TruncateMarker, WriteMarker, WriteHeader, WriteData,
                  manager
    <3> QED
      BY <3>2, <3>3
  <2>3. phase # "down"
    BY <2>2
  <2>4. /\ \A v \in Writers : v # w => writer'[v] = writer[v]
        /\ AppendBegin(w) => writer'[w].pc \in {"rotate", "header"}
        /\ RotateClose(w) => writer'[w].pc = "create"
        /\ OpenNewSegment(w) => writer'[w].pc = "truncate"
        /\ TruncateMarker(w) => writer'[w].pc = "mark"
        /\ WriteMarker(w) => writer'[w].pc = "header"
        /\ WriteHeader(w) => writer'[w].pc = "data"
    BY <2>1, AppendPcs
  <2>5. CASE ~WriteData(w)
    <3>1. writer'[w].pc # "index"
      BY <2>1, <2>4, <2>5
    <3>2. NoneIndexes
      BY <2>4, <3>1 DEF NoneIndexes
    <3> QED
      BY <1>1, <2>2, <2>3, <3>2
  <2>6. CASE WriteData(w)
    <3>1. fd.path = Last(paths) /\ fd.path \in DOMAIN files
      BY <2>3, NodeUp
    <3>2. writer \in [Writers -> Handlers]
      BY DEF SInv, HandlersOK
    <3>3. writer'[w].path = Last(paths)
      BY <2>6, <3>2 DEF WriteData, Handlers, ReturnedPath
    <3>4. Numbered(Last(paths))
      BY <2>3, <3>1, <1>FilesNumbered
    <3> QED
      BY <2>2, <2>3, <2>4, <2>6, <3>3, <3>4 DEF IndexNames, Numbered
  <2> QED
    BY <2>5, <2>6
<1>7. CASE Compact
  <2>1. UNCHANGED <<writer, phase, nextSeq>> /\ phase = "serving"
        /\ (idx' = idx \/ MergeUnindex \/ MergeRenameFails \/ MergeReindex \/ RetentionUnindex)
    BY <1>7, CompactorQuiet DEF SidecarsWritten
  <2>2. phase # "down" /\ NoneIndexes
    BY <2>1 DEF NoneIndexes
  <2>3. ASSUME NEW x \in idx' PROVE x \in idx \/ Numbered(x[1])
    <3>1. CASE idx' = idx
      BY <2>3, <3>1
    <3>2. CASE MergeUnindex \/ RetentionUnindex
      BY <2>3, <3>2 DEF MergeUnindex, RetentionUnindex, RemoveSegment
    <3>3. CASE MergeRenameFails
      <4>1. x \in idx \/ \E p \in DOMAIN files : x \in {p} \X Contents(p)
        BY <2>3, <3>3 DEF MergeRenameFails
      <4>2. x \in idx \/ x[1] \in DOMAIN files
        BY <4>1
      <4> QED
        BY <2>2, <4>2, <1>FilesNumbered
    <3>4. CASE MergeReindex
      <4>1. comp.pc \in {"unindex", "rename", "bloom", "reindex", "manager"}
        BY <3>4 DEF MergeReindex
      <4>2. Head(comp.run) \in DOMAIN files
        BY <4>1, MergeUp
      <4>3. x \in idx \/ x[1] = Head(comp.run)
        BY <2>3, <3>4 DEF MergeReindex
      <4> QED
        BY <2>2, <4>2, <4>3, <1>FilesNumbered
    <3> QED
      BY <2>1, <3>1, <3>2, <3>3, <3>4
  <2> QED
    BY <1>1, <2>1, <2>2, <2>3
<1> QED
  BY <1>2, <1>3, <1>4, <1>5, <1>6, <1>7 DEF Next

Owed(e) == e \in reader.hurt \/ Expired(e) \/ e \in reader.got \/ Pending(e)

Readers == [pc : {"idle", "prune", "read"}, term : AllEntries \cup {0}, todo : Seq(Nat), keep : Seq(Nat),
            got : {reader.got}, must : SUBSET AllEntries, hurt : {reader.hurt}]

\* One query, whatever else steps.
LEMMA ReaderStep ==
    SInv /\ Structure /\ AllKept /\ AllShown /\ IndexNames /\ ReaderOK /\ shards = {} /\ Next /\
    SidecarsWritten =>
         ReaderOK'
  \* Only mergeRun's read of a run makes entries move.
<1> USE ZenonT(30)
<1>MergingEnds.
    ASSUME SInv, shards = {}, Next, SidecarsWritten, ~Start, ~Crash, ~MergeRead
    PROVE  Merging' \subseteq Merging
  <2> USE <1>MergingEnds
  <2>1. ASSUME UNCHANGED <<comp.run, comp.tmp>> PROVE Merging' \subseteq Merging
    BY <2>1 DEF Merging
  <2>2. ASSUME comp'.run = <<>> PROVE Merging' \subseteq Merging
    <3>1. ~(Len(comp'.run) > 1)
      BY <2>2, SMT
    <3> QED
      BY <3>1 DEF Merging
  <2>3. CASE PassBegin \/ RetentionBegin \/ RetentionEnd
    BY <2>2, <2>3, PassMoves
  <2>4. CASE MergeSkip \/ RetentionKeep
    BY <2>1, <2>4, TodoMoves
  <2>5. CASE MergeRenameFails
    BY <2>2, <2>5, MergeGivenUp
  <2>6. CASE DeleteBloom
    BY <2>1, <2>2, <2>6, DeleteEnds
  <2>7. CASE RetentionDelete
    <3>1. comp.pc # "idle"
      BY <2>7 DEF RetentionDelete
    <3>2. comp \in Compactors
      BY <3>1, CompactorUp DEF Compactors
    <3>3. PICK t, p : comp' = [comp EXCEPT !.pc = "expire", !.todo = t, !.run = <<p>>]
      <4>1. comp' = [comp EXCEPT !.pc = "expire", !.todo = Tail(@), !.run = <<Head(comp.todo)>>]
        BY <2>7 DEF RetentionDelete
      <4>2. comp' = [comp EXCEPT !.pc = "expire", !.todo = Tail(comp.todo), !.run = <<Head(comp.todo)>>]
        BY <3>2, <4>1 DEF Compactors
      <4> QED
        BY <4>2
    <3>4. comp'.run = <<p>>
      BY <3>2, <3>3 DEF Compactors
    <3> QED
      BY <3>4, SMT DEF Merging
  <2>8. CASE MergeUnindex \/ MergeRename \/ MergeWriteBloom \/ MergeReindex \/ MergeManager
             \/ DeleteFile \/ RetentionUnindex
    BY <2>1, <2>8, InHandStays
  <2>9. CASE Serve \/ AdvanceCutoff \/ Query \/ \E w \in Writers : Append1(w)
    <3>1. comp' = comp
      BY <2>9 DEF Serve, AdvanceCutoff, Query, QueryResolve, QueryPrune, QueryRead, QueryReadFails, QueryReturn,
           Append1, AppendBegin, RotateClose, RotateCloseFails, OpenNewSegment,
           TruncateMarker, WriteMarker, WriteHeader, WriteData, IndexAndAck
    <3> QED
      BY <2>1, <3>1
  <2> QED
    BY <2>3, <2>4, <2>5, <2>6, <2>7, <2>8, <2>9 DEF Next, Compact, SidecarsWritten
  \* A query that others' steps overlap.
<1>ReaderStays.
    ASSUME SInv, Structure, AllKept, AllShown, ReaderOK, shards = {}, Next, SidecarsWritten, ~Start, ~Crash, ~MergeRead,
           reader' = reader
    PROVE  ReaderOK'
  <2> USE <1>ReaderStays
  <2>1. CASE reader.pc = "idle"
    BY <2>1 DEF ReaderOK
  <2>2. CASE reader.pc # "idle"
    <3>1. phase = "serving" /\ Merging \subseteq reader.hurt
      BY <2>2 DEF ReaderOK
    <3>2. phase' = "serving"
      <4>1. ~Serve
        BY <3>1 DEF Serve
      <4>2. phase' = phase
        BY <4>1, CompactorQuiet DEF Next, SidecarsWritten, AdvanceCutoff, Query, QueryResolve, QueryPrune,
           QueryRead, QueryReadFails, QueryReturn,
           Append1, AppendBegin, RotateClose, RotateCloseFails, OpenNewSegment,
           TruncateMarker, WriteMarker, WriteHeader, WriteData, IndexAndAck
      <4> QED
        BY <3>1, <4>2
    <3>3. Merging' \subseteq reader.hurt
      BY <3>1, <1>MergingEnds
    <3>4. ASSUME NEW e \in AllEntries, e \notin reader.hurt, Expired(e) \/ Pending(e) PROVE Expired(e)' \/ Pending(e)'
      <4>1. Keeps(e)
        BY StepKeeps
      <4>2. e \notin Merging
        BY <3>1, <3>4
      <4>3. CASE Expired(e)
        <5>1. cutoff' >= cutoff /\ cutoff \in Nat /\ cutoff' \in Nat
          <6>1. cutoff' \in {cutoff, cutoff + 1}
            BY CompactorQuiet DEF Next, SidecarsWritten, AdvanceCutoff, Query, QueryResolve, QueryPrune,
               QueryRead, QueryReadFails, QueryReturn, Serve, history,
               Append1, AppendBegin, RotateClose, RotateCloseFails, OpenNewSegment,
               TruncateMarker, WriteMarker, WriteHeader, WriteData, IndexAndAck
          <6>2. cutoff \in Nat
            BY DEF SInv, HandlersOK
          <6> QED
            BY <6>1, <6>2, SMT
        <5>2. TsOf[e] \in Nat
          BY <3>4, EntriesAssumption
        <5> QED
          BY <4>3, <5>1, <5>2, SMT DEF Expired
      <4>4. CASE Pending(e)
        <5>1. PICK p : /\ Holds(p, e)
                       /\ \/ p \in Range(reader.keep)
                          \/ p \in Range(reader.todo) /\ (reader.pc = "prune" => Covers(blooms, p, e))
          BY <4>4 DEF Pending
        <5>2. Holds(p, e)' \/ Expired(e)'
          BY <4>1, <4>2, <5>1 DEF Keeps
        <5>3. CASE Covers(blooms, p, e)
          <6>1. Visible(p, e)' \/ Expired(e)'
            BY <4>1, <4>2, <5>1, <5>3 DEF Keeps, Visible
          <6> QED
            BY <5>1, <6>1 DEF Pending, Visible
        <5>4. CASE ~Covers(blooms, p, e)
          BY <5>1, <5>2, <5>4 DEF Pending
        <5> QED
          BY <5>3, <5>4
      <4> QED
        BY <3>4, <4>3, <4>4
    <3>5. ASSUME NEW e \in reader.must PROVE Owed(e)'
      <4>1. e \in AllEntries
        BY <3>5 DEF ReaderOK
      <4>2. Owed(e)
        BY <2>2, <3>5 DEF ReaderOK, Owed
      <4> QED
        BY <3>4, <4>1, <4>2 DEF Owed
    <3> QED
      BY <3>2, <3>3, <3>5 DEF ReaderOK, Owed
  <2> QED
    BY <2>1, <2>2
  \* A query that has ended, or was lost with the process.
<1>ReaderEnds.
    ASSUME reader' = IdleReader
    PROVE  ReaderOK'
  <2>1. IdleReader \in [pc : {"idle", "prune", "read"}, term : AllEntries \cup {0}, todo : Seq(Nat), keep : Seq(Nat),
                        got : {IdleReader.got}, must : SUBSET AllEntries, hurt : {IdleReader.hurt}]
    BY SMT DEF IdleReader
  <2>2. IdleReader.pc = "idle"
    BY DEF IdleReader
  <2> QED
    BY <1>ReaderEnds, <2>1, <2>2 DEF ReaderOK
  \* mergeRun reads a run while a query is under way: the run's entries may be missed.
<1>ReaderHurt.
    ASSUME SInv, ReaderOK, MergeRead
    PROVE  ReaderOK'
  <2> USE <1>ReaderHurt
  <2>1. PICK run : /\ comp' = [comp EXCEPT !.pc = "unindex", !.run = run, !.left = run,
                                           !.tmp = Concatenated(Range(run)), !.todo = comp'.todo]
                   /\ reader' = [reader EXCEPT !.hurt = IF reader.pc = "idle" THEN {}
                                                        ELSE @ \cup ReadSegments(Range(run))]
    <3>1. comp.pc # "idle"
      BY DEF MergeRead
    <3>2. comp \in Compactors
      BY <3>1, CompactorUp DEF Compactors
    <3>3. PICK n, run : /\ comp' = [comp EXCEPT !.pc = "unindex", !.run = run, !.left = run,
                                                !.tmp = Concatenated(Range(run)), !.todo = SubSeq(@, n + 1, Len(@))]
                        /\ reader' = [reader EXCEPT !.hurt = IF reader.pc = "idle" THEN {}
                                                             ELSE @ \cup ReadSegments(Range(run))]
      BY DEF MergeRead
    <3>4. comp' = [comp EXCEPT !.pc = "unindex", !.run = run, !.left = run,
                               !.tmp = Concatenated(Range(run)), !.todo = comp'.todo]
      BY <3>2, <3>3 DEF Compactors
    <3> QED
      BY <3>3, <3>4
  <2>2. comp'.tmp.recs = ReadSegments(Range(run))
    <3>1. comp.pc # "idle"
      BY DEF MergeRead
    <3>2. comp \in Compactors
      BY <3>1, CompactorUp DEF Compactors
    <3>3. comp'.tmp = Concatenated(Range(run))
      BY <2>1, <3>2 DEF Compactors
    <3>4. Concatenated(Range(run)).recs = ReadSegments(Range(run))
      BY DEF Concatenated
    <3> QED
      BY <3>3, <3>4
  <2>3. PICK x : reader' = [reader EXCEPT !.hurt = x] /\
                 (reader.pc # "idle" => x = reader.hurt \cup ReadSegments(Range(run)))
    <3>1. reader \in Readers
      BY DEF ReaderOK, Readers
    <3>2. PICK x : x = IF reader.pc = "idle" THEN {} ELSE reader.hurt \cup ReadSegments(Range(run))
      OBVIOUS
    <3>3. reader' = [reader EXCEPT !.hurt = x]
      BY <2>1, <3>1, <3>2 DEF Readers
    <3> QED
      BY <3>2, <3>3
  <2>4. /\ reader' \in [pc : {"idle", "prune", "read"}, term : AllEntries \cup {0}, todo : Seq(Nat), keep : Seq(Nat),
                        got : {reader'.got}, must : SUBSET AllEntries, hurt : {reader'.hurt}]
        /\ reader'.hurt = x
        /\ UNCHANGED <<reader.pc, reader.term, reader.todo, reader.keep, reader.got, reader.must>>
    <3>1. reader \in Readers
      BY DEF ReaderOK, Readers
    <3> QED
      BY <2>3, <3>1 DEF Readers
  <2>5. UNCHANGED <<files, blooms, phase, cutoff>>
    BY DEF MergeRead, disk, manager, history
  <2>6. CASE reader.pc = "idle"
    BY <2>4, <2>6 DEF ReaderOK
  <2>7. CASE reader.pc # "idle"
    <3>1. x = reader.hurt \cup ReadSegments(Range(run))
      BY <2>3, <2>7
    <3>2. Merging' \subseteq reader'.hurt
      BY <2>2, <2>4, <3>1 DEF Merging
    <3>3. ASSUME NEW e \in reader.must PROVE Owed(e)'
      <4>1. Owed(e)
        BY <2>7, <3>3 DEF ReaderOK, Owed
      <4>2. e \in reader.hurt => e \in reader'.hurt
        BY <2>4, <3>1
      <4>3. Expired(e) => Expired(e)'
        BY <2>5 DEF Expired
      <4>4. Pending(e) => Pending(e)'
        BY <2>4, <2>5 DEF Pending, Holds, Covers
      <4> QED
        BY <2>4, <4>1, <4>2, <4>3, <4>4 DEF Owed
    <3> QED
      BY <2>4, <2>5, <2>7, <3>2, <3>3 DEF ReaderOK, Owed
  <2> QED
    BY <2>6, <2>7
  \* Resolve lists exactly the segments that the index has for a matching entry.
<1>Resolved.
    ASSUME SInv, IndexNames, phase # "down", NEW t
    PROVE  /\ Resolve(t) \in Seq(Nat)
           /\ \A p, e : <<p, e>> \in idx /\ e \in Matches(t) => p \in Range(Resolve(t))
  <2> USE <1>Resolved
  <2>1. PICK H : H = {x[1] : x \in {y \in idx : y[2] \in Matches(t)}}
    OBVIOUS
  <2>2. nextSeq \in Nat
    BY DEF SInv, HandlersOK
  <2>3. H \subseteq 0 .. nextSeq
    BY <2>1, <2>2, SMT DEF IndexNames, Numbered
  <2>4. H \in SUBSET Nat /\ H \in SUBSET (0 .. nextSeq)
    BY <2>2, <2>3, SMT
  <2>5. IsFiniteSet(0 .. nextSeq)
    BY <2>2, BelowFinite, SMT
  <2>6. IsFiniteSet(H)
    BY <2>4, <2>5, PartFinite
  <2>7. Sorted(H) \in Seq(H) /\ Range(Sorted(H)) = H
    BY <2>4, <2>6, SortedNames DEF SInv
  <2>8. PICK s : s = Sorted(H)
    OBVIOUS
  <2>9. s \in Seq(Nat)
    BY <2>4, <2>7, <2>8, WiderList
  <2>10. Resolve(t) = s
    BY <2>1, <2>8 DEF Resolve
  <2>11. ASSUME NEW p, NEW e, <<p, e>> \in idx, e \in Matches(t) PROVE p \in H
    BY <2>1, <2>11, SMT
  <2> QED
    BY <2>7, <2>8, <2>9, <2>10, <2>11
  \* A query that begins owes what it will find.
<1>ReaderBegins.
    ASSUME SInv, AllShown, IndexNames, ReaderOK, NEW t \in QueryTerms, QueryResolve(t)
    PROVE  ReaderOK'
  <2> USE <1>ReaderBegins
  <2>1. phase = "serving" /\ phase # "down" /\ UNCHANGED <<files, blooms, phase, cutoff, comp>>
    BY DEF QueryResolve, disk, manager, history
  <2>2. PICK s, l, m : /\ s = Resolve(t) /\ l = IF t = 0 \/ Resolve(t) = <<>> THEN "read" ELSE "prune"
                       /\ m = (acked \cap Matches(t)) \ Hidden
    OBVIOUS
  <2>3. reader' = [pc |-> l, term |-> t, todo |-> s, keep |-> <<>>, got |-> {}, must |-> m, hurt |-> Merging]
    BY <2>2 DEF QueryResolve, IdleReader
  <2>4. s \in Seq(Nat) /\ \A p, e : <<p, e>> \in idx /\ e \in Matches(t) => p \in Range(s)
    BY <2>1, <2>2, <1>Resolved
  <2>5. t \in AllEntries \cup {0}
    BY BoundsAssumption
  <2>6. m \subseteq AllEntries /\ m \subseteq acked /\ m \subseteq Matches(t)
    BY <2>2, AckedKnown
  <2>7. l \in {"prune", "read"} /\ (l = "prune" => t # 0 /\ s # <<>>)
    BY <2>2
  <2>8. /\ reader'.pc = l /\ reader'.term = t /\ reader'.todo = s /\ reader'.keep = <<>>
        /\ reader'.must = m /\ reader'.hurt = Merging
        /\ reader' \in [pc : {"idle", "prune", "read"}, term : AllEntries \cup {0}, todo : Seq(Nat), keep : Seq(Nat),
                        got : {reader'.got}, must : SUBSET AllEntries, hurt : {reader'.hurt}]
    BY <2>3, <2>4, <2>5, <2>6, <2>7, SMT
  <2>9. Merging' = Merging
    BY <2>1 DEF Merging
  <2>10. ASSUME NEW e \in m PROVE Owed(e)'
    <3>1. Shown(e)
      BY <2>1, <2>6, <2>10 DEF AllShown
    <3>2. CASE Expired(e)
      BY <2>1, <3>2 DEF Expired, Owed
    <3>3. CASE Moved(e)
      BY <2>8, <3>3 DEF Moved, Owed
    <3>4. ASSUME NEW p, Visible(p, e), <<p, e>> \in idx PROVE Owed(e)'
      <4>1. p \in Range(s)
        BY <2>4, <2>6, <2>10, <3>4
      <4>2. Pending(e)'
        BY <2>1, <2>8, <3>4, <4>1 DEF Pending, Visible, Holds, Covers
      <4> QED
        BY <4>2 DEF Owed
    <3>5. ASSUME NEW p, Visible(p, e), Unindexed(p) PROVE FALSE
      <4>1. comp.pc \in {"unindex", "rename", "bloom", "reindex", "manager"} /\ comp.pc \in {"unindex", "rename"}
        BY <3>5 DEF Unindexed
      <4>2. comp.tmp.recs = Read(files, Range(comp.run))
        BY <4>1, MergeUp DEF MergeAt
      <4>3. p \in Range(comp.run) /\ Holds(p, e)
        BY <3>5 DEF Unindexed, Visible
      <4>4. e \in comp.tmp.recs
        BY <4>2, <4>3 DEF Read, Holds
      <4>5. Hidden = comp.tmp.recs
        BY <4>1 DEF Hidden
      <4> QED
        BY <2>2, <2>10, <4>4, <4>5
    <3> QED
      BY <3>1, <3>2, <3>3, <3>4, <3>5 DEF Shown
  <2>11. reader'.pc # "idle" /\ phase' = "serving"
    BY <2>1, <2>7, <2>8
  <2> QED
    BY <2>6, <2>7, <2>8, <2>9, <2>10, <2>11 DEF ReaderOK, Owed
  \* A query looks at one filter: a segment that has what it is owed stays.
<1>ReaderPrunes.
    ASSUME ReaderOK, QueryPrune
    PROVE  ReaderOK'
  <2> USE <1>ReaderPrunes
  <2>1. UNCHANGED <<files, blooms, phase, cutoff, comp>> /\ reader.pc = "prune"
    BY DEF QueryPrune, disk, manager, history
  <2>2. PICK p, s, k : /\ p = Head(reader.todo) /\ s = Tail(reader.todo)
                       /\ k = IF bloomDefiniteMiss(p, reader.term) THEN reader.keep ELSE Append(reader.keep, p)
    OBVIOUS
  <2>3. /\ phase = "serving" /\ reader.term # 0 /\ reader.todo \in Seq(Nat) /\ reader.todo # <<>>
        /\ reader.keep \in Seq(Nat) /\ reader.must \subseteq Matches(reader.term) /\ Merging \subseteq reader.hurt
        /\ \A e \in reader.must : Owed(e)
    BY <2>1 DEF ReaderOK, Owed
  <2>4. s \in Seq(Nat) /\ p \in Nat /\ Len(s) = Len(reader.todo) - 1 /\ Range(reader.todo) = {p} \cup Range(s)
    BY <2>2, <2>3, TailList
  <2>5. PICK a : a = Append(reader.keep, p) /\ a \in Seq(Nat) /\ Range(a) = Range(reader.keep) \cup {p}
    <3>1. \A h \in Seq(Nat), x \in Nat : Append(h, x) \in Seq(Nat) /\ Range(Append(h, x)) = Range(h) \cup {x}
      BY AppendList, SMT
    <3> QED
      BY <2>3, <2>4, <3>1
  <2>6. /\ k = reader.keep \/ k = a
        /\ \A e \in reader.must : Covers(blooms, p, e) => k = a
    <3>1. k = reader.keep \/ k = a
      BY <2>2, <2>5
    <3>2. ASSUME NEW e \in reader.must, Covers(blooms, p, e) PROVE k = a
      <4>1. e = reader.term
        BY <2>3, <3>2 DEF Matches
      <4>2. ~bloomDefiniteMiss(p, reader.term)
        BY <3>2, <4>1 DEF Covers, bloomDefiniteMiss
      <4> QED
        BY <2>2, <2>5, <4>2
    <3> QED
      BY <3>1, <3>2
  <2>7. reader' = IF Len(reader.todo) > 1 THEN [reader EXCEPT !.todo = s, !.keep = k]
                  ELSE [reader EXCEPT !.pc = "read", !.todo = k, !.keep = <<>>]
    BY <2>2 DEF QueryPrune
  <2>8. <<>> \in Seq(Nat)
    BY EmptyList
  <2>9. Merging' = Merging
    BY <2>1 DEF Merging
  <2>10. \A e : Expired(e) => Expired(e)'
    BY <2>1 DEF Expired
  <2>11. \A q, e : Holds(q, e)' = Holds(q, e) /\ Covers(blooms, q, e)' = Covers(blooms, q, e)
    BY <2>1 DEF Holds, Covers
  <2>12. CASE Len(reader.todo) > 1
    <3>1. /\ reader' \in Readers' /\ reader'.pc = "prune" /\ reader'.term = reader.term /\ reader'.todo = s
          /\ reader'.keep = k /\ reader'.must = reader.must /\ reader'.hurt = reader.hurt
          /\ reader'.got = reader.got
      BY <2>1, <2>3, <2>4, <2>5, <2>6, <2>7, <2>12 DEF ReaderOK, Readers
    <3>2. s # <<>>
      BY <2>3, <2>4, <2>12, SMT
    <3>3. ASSUME NEW e \in reader.must, Pending(e) PROVE Pending(e)'
      <4>1. PICK q : Holds(q, e) /\ (q \in Range(reader.keep) \/ (q \in Range(reader.todo) /\ Covers(blooms, q, e)))
        BY <2>1, <3>3 DEF Pending
      <4>2. q \in Range(k) \/ (q \in Range(s) /\ Covers(blooms, q, e))
        BY <2>4, <2>5, <2>6, <4>1
      <4> QED
        BY <2>11, <3>1, <4>1, <4>2 DEF Pending, Covers
    <3> QED
      BY <2>1, <2>3, <2>9, <2>10, <3>1, <3>2, <3>3 DEF ReaderOK, Readers, Owed
  <2>13. CASE ~(Len(reader.todo) > 1)
    <3>1. /\ reader' \in Readers' /\ reader'.pc = "read" /\ reader'.term = reader.term /\ reader'.todo = k
          /\ reader'.keep = <<>> /\ reader'.must = reader.must /\ reader'.hurt = reader.hurt
          /\ reader'.got = reader.got
      BY <2>1, <2>3, <2>5, <2>6, <2>7, <2>8, <2>13 DEF ReaderOK, Readers
    <3>2. s = <<>>
      BY <2>3, <2>4, <2>13, SMT
    <3>3. Range(s) = {}
      BY <3>2, EmptyList
    <3>4. ASSUME NEW e \in reader.must, Pending(e) PROVE Pending(e)'
      <4>1. PICK q : Holds(q, e) /\ (q \in Range(reader.keep) \/ (q \in Range(reader.todo) /\ Covers(blooms, q, e)))
        BY <2>1, <3>4 DEF Pending
      <4>2. q \in Range(k)
        BY <2>4, <2>5, <2>6, <3>3, <4>1
      <4> QED
        BY <2>11, <3>1, <4>1, <4>2 DEF Pending
    <3> QED
      BY <2>1, <2>3, <2>9, <2>10, <3>1, <3>4 DEF ReaderOK, Readers, Owed
  <2> QED
    BY <2>12, <2>13
  \* A query reads one segment: what it holds of the answer is then got.
<1>ReaderReads.
    ASSUME ReaderOK, QueryRead
    PROVE  ReaderOK'
  <2> USE <1>ReaderReads
  <2>1. UNCHANGED <<files, blooms, phase, cutoff, comp>> /\ reader.pc = "read" /\ reader.todo # <<>>
    BY DEF QueryRead, disk, manager, history
  <2>2. PICK p, s, g : /\ p = Head(reader.todo) /\ s = Tail(reader.todo)
                       /\ g = reader.got \cup (ReadSegments({p}) \cap Matches(reader.term))
    OBVIOUS
  <2>3. /\ phase = "serving" /\ reader.todo \in Seq(Nat) /\ reader.keep = <<>>
        /\ reader.must \subseteq Matches(reader.term) /\ Merging \subseteq reader.hurt
        /\ \A e \in reader.must : Owed(e)
    BY <2>1 DEF ReaderOK, Owed
  <2>4. s \in Seq(Nat) /\ Range(reader.todo) = {p} \cup Range(s)
    BY <2>1, <2>2, <2>3, TailList
  <2>5. reader' = [reader EXCEPT !.todo = s, !.got = g]
    BY <2>2 DEF QueryRead
  <2>6. /\ reader' \in Readers' /\ reader'.pc = "read" /\ reader'.term = reader.term /\ reader'.todo = s
        /\ reader'.keep = <<>> /\ reader'.must = reader.must /\ reader'.hurt = reader.hurt /\ reader'.got = g
    BY <2>1, <2>3, <2>4, <2>5 DEF ReaderOK, Readers
  <2>7. Range(<<>>) = {}
    BY EmptyList
  <2>8. Merging' = Merging
    BY <2>1 DEF Merging
  <2>9. \A e : Expired(e) => Expired(e)'
    BY <2>1 DEF Expired
  <2>10. \A q, e : Holds(q, e)' = Holds(q, e)
    BY <2>1 DEF Holds
  <2>11. ASSUME NEW e \in reader.must PROVE Owed(e)'
    <3>1. CASE Pending(e)
      <4>1. PICK q : Holds(q, e) /\ (q \in Range(reader.keep) \/ q \in Range(reader.todo))
        BY <3>1 DEF Pending
      <4>2. q \in {p} \cup Range(s)
        BY <2>3, <2>4, <2>7, <4>1
      <4>3. CASE q = p
        <5>1. e \in ReadSegments({p})
          BY <4>1, <4>3 DEF ReadSegments, Contents, Holds
        <5>2. e \in g
          BY <2>2, <2>3, <2>11, <5>1
        <5> QED
          BY <2>6, <5>2 DEF Owed
      <4>4. CASE q \in Range(s)
        <5>1. Pending(e)'
          BY <2>6, <2>10, <4>1, <4>4 DEF Pending
        <5> QED
          BY <5>1 DEF Owed
      <4> QED
        BY <4>2, <4>3, <4>4
    <3>2. CASE e \in reader.got
      BY <2>2, <2>6, <3>2 DEF Owed
    <3>3. CASE e \in reader.hurt \/ Expired(e)
      BY <2>6, <2>9, <3>3 DEF Owed
    <3> QED
      BY <2>3, <2>11, <3>1, <3>2, <3>3 DEF Owed
  <2> QED
    BY <2>1, <2>3, <2>6, <2>8, <2>11 DEF ReaderOK, Readers, Owed
<1> SUFFICES ASSUME SInv, Structure, AllKept, AllShown, IndexNames, ReaderOK, shards = {}, Next, SidecarsWritten
             PROVE  ReaderOK'
  OBVIOUS
<1>1. CASE Start
  <2>1. reader' = reader /\ reader.pc = "idle"
    BY <1>1 DEF Start, ReaderOK
  <2> QED
    BY <2>1 DEF ReaderOK
<1>2. CASE Crash \/ QueryReadFails \/ QueryReturn
  BY <1>2, <1>ReaderEnds DEF Crash, QueryReadFails, QueryReturn
<1>3. CASE MergeRead
  BY <1>3, <1>ReaderHurt
<1>4. ASSUME NEW t \in QueryTerms, QueryResolve(t) PROVE ReaderOK'
  BY <1>4, <1>ReaderBegins
<1>5. CASE QueryPrune
  BY <1>5, <1>ReaderPrunes
<1>6. CASE QueryRead
  BY <1>6, <1>ReaderReads
<1>7. ASSUME reader' = reader, ~Start, ~Crash, ~MergeRead PROVE ReaderOK'
  BY <1>7, <1>ReaderStays
<1>8. CASE Serve \/ AdvanceCutoff \/ \E w \in Writers : Append1(w)
  <2>1. reader' = reader
    BY <1>8 DEF Serve, AdvanceCutoff, Append1, AppendBegin, RotateClose, RotateCloseFails, OpenNewSegment,
                TruncateMarker, WriteMarker, WriteHeader, WriteData, IndexAndAck
  <2> QED
    BY <1>1, <1>2, <1>3, <1>7, <2>1
<1>9. CASE Compact
  <2>1. MergeRead \/ reader' = reader
    BY <1>9 DEF Compact, PassBegin, MergeSkip, MergeUnindex, MergeRename,
       MergeRenameFails, MergeWriteBloom, MergeWriteBloomFails, MergeReindex, MergeManager, DeleteFile,
       DeleteBloom, RetentionBegin, RetentionKeep, RetentionDelete, RetentionUnindex, RetentionEnd
  <2> QED
    BY <1>1, <1>2, <1>3, <1>7, <2>1
<1>10. CASE Query
  BY <1>2, <1>4, <1>5, <1>6, <1>10 DEF Query
<1> QED
  BY <1>1, <1>2, <1>8, <1>9, <1>10 DEF Next

FilterInv == Structure /\ AllKept /\ AllShown /\ IndexNames /\ ReaderOK

\* The empty data directory.
LEMMA InitFilter ==
  ASSUME Init
  PROVE  FilterInv
<1>1. \A w \in Writers : writer[w].pc = "idle"
  BY DEF Init, IdleWriter
<1>2. DOMAIN files = {} /\ DOMAIN sidecar = {} /\ DOMAIN blooms = {} /\ phase = "down" /\ acked = {}
  BY DEF Init
<1>3. comp.pc = "idle"
  BY DEF Init, IdleComp
<1>4. reader \in Readers /\ reader.pc = "idle"
  <2>1. IdleReader \in [pc : {"idle", "prune", "read"}, term : AllEntries \cup {0}, todo : Seq(Nat), keep : Seq(Nat),
                        got : {IdleReader.got}, must : SUBSET AllEntries, hurt : {IdleReader.hurt}]
    BY DEF IdleReader
  <2>2. reader = IdleReader /\ IdleReader.pc = "idle"
    BY DEF Init, IdleReader
  <2> QED
    BY <2>1, <2>2, Zenon DEF Readers
<1>5. Lock /\ AllKept
  BY <1>1, <1>2 DEF Lock, AllKept
<1>6. MarkerOK /\ MarkerOnDisk /\ FiltersOK /\ MergedFilters
  BY <1>2, <1>3, Zenon DEF MarkerOK, MarkerOnDisk, FiltersOK, MergedFilters
<1>7. AllShown /\ IndexNames /\ ReaderOK
  BY <1>2, <1>4 DEF AllShown, IndexNames, ReaderOK, Readers
<1> QED
  BY <1>5, <1>6, <1>7, Zenon DEF FilterInv, Structure

\* Every step keeps the invariant of filters and queries.
LEMMA StepFilter ==
  ASSUME SInv, SInv', FilterInv, shards = {}, [Next]_vars, [SidecarsWritten]_vars
  PROVE  FilterInv'
<1> USE ZenonT(30)
<1>1. CASE Next /\ SidecarsWritten
  BY <1>1, StructureStep, AllStep, IndexNamesStep, ReaderStep DEF FilterInv, Structure
<1>2. CASE UNCHANGED vars
  <2> USE <1>2 DEF vars, disk, manager, history
  <2>1. Structure'
    BY DEF FilterInv, Structure, Lock, MarkerOK, MarkerOnDisk, FiltersOK, MergedFilters, At, Covers
  <2>2. AllKept' /\ IndexNames'
    BY DEF FilterInv, AllKept, Kept, Stored, Holds, Open, Covers, Expired, At, IndexNames, Numbered
  <2>3. AllShown'
    BY DEF FilterInv, AllShown, Shown, Moved, Merging, Visible, Unindexed, Holds, Covers, Expired
  <2>4. ReaderOK'
    BY DEF FilterInv, ReaderOK, Merging, Expired, Pending, Holds, Covers
  <2> QED
    BY <2>1, <2>2, <2>3, <2>4 DEF FilterInv
<1> QED
  BY <1>1, <1>2

\* What the invariant says to a reader.
LEMMA FilterGives ==
  ASSUME SInv, FilterInv
  PROVE  AckedFindable /\ QueryComplete
<1> USE ZenonT(30)
<1>1. ASSUME NEW e \in acked, phase = "serving" PROVE e \in Merging \/ Expired(e) \/ Findable(e)
  <2>1. Shown(e)
    BY <1>1 DEF FilterInv, AllShown
  <2>2. ASSUME NEW p, Visible(p, e), Unindexed(p) PROVE e \in Merging
    <3>1. comp.pc \in {"unindex", "rename", "bloom", "reindex", "manager"} /\ comp.pc \in {"unindex", "rename"}
      BY <2>2 DEF Unindexed
    <3>2. comp.tmp.recs = Read(files, Range(comp.run)) /\ Merging = comp.tmp.recs
      BY <3>1, MergeUp DEF MergeAt
    <3> QED
      BY <2>2, <3>2 DEF Read, Holds, Visible, Unindexed
  <2>3. ASSUME NEW p, Visible(p, e), <<p, e>> \in idx PROVE Findable(e)
    BY <2>3 DEF Visible, Covers, Holds, Findable, Contents, bloomDefiniteMiss
  <2> QED
    BY <2>1, <2>2, <2>3 DEF Shown, Moved
<1>2. ASSUME reader.pc = "read", reader.todo = <<>>, NEW e \in reader.must \ reader.got
      PROVE  e \in reader.hurt \/ Expired(e)
  <2>1. /\ reader.keep = <<>>
        /\ e \in reader.hurt \/ Expired(e) \/ Pending(e)
    BY <1>2 DEF FilterInv, ReaderOK
  <2>2. Range(<<>>) = {}
    BY EmptyList
  <2> QED
    BY <1>2, <2>1, <2>2 DEF Pending
<1> QED
  BY <1>1, <1>2 DEF AckedFindable, QueryComplete

-----------------------------------------------------------------------------
(* Sorted lists of names, for every finite set of them.  (Cardinality      *)
(* enters only here, and with it the theorems on finite sets.)             *)

INSTANCE FiniteSetTheorems

\* A larger ID has a larger rank: every ID before m is before n, and so is m.
LEMMA RankMonotone ==
  ASSUME NEW H \in SUBSET Nat, IsFiniteSet(H), NEW m \in H, NEW n \in H, m < n
  PROVE  Rank(m, H) < Rank(n, H)
<1> DEFINE M == {k \in H : k < m}
           N == {k \in H : k < n}
<1>1. IsFiniteSet(N) /\ Cardinality(N) \in Nat
  BY FS_Subset, FS_CardinalityType
<1>2. M \in SUBSET N
  <2>1. \A k \in Nat : k < m => k < n
    OBVIOUS
  <2> QED
    BY <2>1, Zenon
<1>3. m \in N /\ m \notin M
  OBVIOUS
<1>4. Cardinality(M) \in Nat /\ Cardinality(M) <= Cardinality(N) /\ Cardinality(M) # Cardinality(N)
  <2> HIDE DEF M, N
  <2>1. IsFiniteSet(M) /\ Cardinality(M) <= Cardinality(N)
        /\ (Cardinality(N) = Cardinality(M) => N = M)
    BY <1>1, <1>2, FS_Subset
  <2> QED
    BY <2>1, <1>3, FS_CardinalityType
<1> QED
  BY <1>1, <1>4 DEF Rank

\* Ranks stay below the size of the set, so they index its sorted list.
LEMMA RankRange ==
  ASSUME NEW H \in SUBSET Nat, IsFiniteSet(H), NEW n \in H
  PROVE  Rank(n, H) \in 0 .. Cardinality(H) - 1
<1> DEFINE N == {k \in H : k < n}
<1>1. N \in SUBSET H /\ n \in H /\ n \notin N
  OBVIOUS
<1>2. /\ IsFiniteSet(N) /\ Cardinality(N) <= Cardinality(H)
      /\ Cardinality(H) = Cardinality(N) => H = N
  BY <1>1, FS_Subset
<1>3. Cardinality(N) \in Nat /\ Cardinality(H) \in Nat
  BY <1>2, FS_CardinalityType
<1>4. Cardinality(N) # Cardinality(H)
  <2> HIDE DEF N
  <2> QED BY <1>1, <1>2
<1> QED
  BY <1>2, <1>3, <1>4 DEF Rank

\* No two IDs have the same rank.
LEMMA RankInjective ==
  ASSUME NEW H \in SUBSET Nat, IsFiniteSet(H), NEW a \in H, NEW b \in H, Rank(a, H) = Rank(b, H)
  PROVE  a = b
<1>1. Rank(a, H) \in Int /\ Rank(b, H) \in Int
  BY RankRange, FS_CardinalityType
<1>2. CASE a < b
  BY <1>1, <1>2, RankMonotone
<1>3. CASE b < a
  BY <1>1, <1>3, RankMonotone
<1> QED
  BY <1>2, <1>3

\* The sorted list has an element at every place: SortedAt(H, i) is a member.
LEMMA SortedAtMember ==
  ASSUME NEW H \in SUBSET Nat, IsFiniteSet(H), NEW i \in 0 .. Cardinality(H) - 1
  PROVE  SortedAt(H, i) \in H /\ Rank(SortedAt(H, i), H) = i
<1> DEFINE I == 0 .. Cardinality(H) - 1
           f == [n \in H |-> Rank(n, H)]
<1>1. Cardinality(H) \in Nat
  BY FS_CardinalityType
<1>2. IsFiniteSet(I) /\ Cardinality(I) = Cardinality(H)
  BY <1>1, FS_Interval
<1>3. f \in [H -> I]
  BY RankRange
<1>4. \A a, b \in H : f[a] = f[b] => a = b
  BY RankInjective
<1>5. f \in Injection(H, I)
  BY <1>3, <1>4 DEF Injection, IsInjective
<1>6. f \in Surjection(H, I)
  <2> HIDE DEF f, I
  <2> QED BY <1>2, <1>5, FS_Injection
<1>7. \E n \in H : Rank(n, H) = i
  BY <1>6, Zenon DEF Surjection
<1> QED
  BY <1>7 DEF SortedAt

\* The sorted sequence lists exactly the members, each once, the largest last.
LEMMA SortedList ==
  ASSUME NEW H \in SUBSET Nat, IsFiniteSet(H)
  PROVE  /\ Sorted(H) \in Seq(H) /\ Len(Sorted(H)) = Cardinality(H)
         /\ Range(Sorted(H)) = H /\ IsInjective(Sorted(H))
         /\ \A m \in H : (\A n \in H : n <= m) =>
               Cardinality(H) \in Nat \ {0} /\ Sorted(H)[Cardinality(H)] = m
<1> DEFINE c == Cardinality(H)
           at(k) == SortedAt(H, k - 1)
<1>1. c \in Nat /\ (H # {} => c # 0)
  BY FS_CardinalityType, FS_EmptySet
<1>2. \A k \in 1 .. c : k - 1 \in 0 .. c - 1
  BY <1>1
<1>3. \A k \in 1 .. c : at(k) \in H /\ Rank(at(k), H) = k - 1
  BY <1>2, SortedAtMember
<1>4. Sorted(H) = [k \in 1 .. c |-> at(k)]
  BY DEF Sorted
<1>5. Sorted(H) \in Seq(H) /\ Len(Sorted(H)) = c /\ DOMAIN Sorted(H) = 1 .. c
      /\ \A k \in 1 .. c : Sorted(H)[k] = at(k)
  <2> HIDE DEF at, c
  <2> QED BY <1>1, <1>3, <1>4
<1>6. ASSUME NEW m \in H
      PROVE  Rank(m, H) + 1 \in 1 .. c /\ at(Rank(m, H) + 1) = m
  <2>1. Rank(m, H) \in 0 .. c - 1
    BY RankRange
  <2>2. PICK k \in 1 .. c : k = Rank(m, H) + 1 /\ k - 1 = Rank(m, H)
    BY <1>1, <2>1
  <2>3. Rank(at(k), H) = Rank(m, H) /\ at(k) \in H
    BY <1>3, <2>2
  <2>4. at(k) = m
    BY <2>3, RankInjective, Zenon
  <2> QED
    BY <2>2, <2>4
<1>7. Range(Sorted(H)) = H
  <2> HIDE DEF at, c
  <2>1. Range(Sorted(H)) \subseteq H
    BY <1>3, <1>5 DEF Range
  <2>2. \A m \in H : m \in Range(Sorted(H))
    BY <1>5, <1>6, Zenon DEF Range
  <2> QED
    BY <2>1, <2>2, Zenon
<1>8. IsInjective(Sorted(H))
  <2> SUFFICES ASSUME NEW j \in 1 .. c, NEW k \in 1 .. c, at(j) = at(k)
               PROVE  j = k
    BY <1>5 DEF IsInjective
  <2>1. j - 1 = k - 1
    BY <1>3
  <2> QED
    BY <1>1, <2>1
<1>9. ASSUME NEW m \in H, \A n \in H : n <= m
      PROVE  c \in Nat \ {0} /\ Sorted(H)[c] = m
  <2>1. c \in Nat \ {0} /\ c \in 1 .. c
    BY <1>1
  <2>2. at(c) \in H /\ Rank(at(c), H) = c - 1
    BY <1>3, <2>1
  <2>3. at(c) = m
    <3>1. Rank(m, H) \in 0 .. c - 1
      BY RankRange
    <3>2. CASE at(c) < m
      <4>1. c - 1 < Rank(m, H)
        BY <2>2, <3>2, RankMonotone, Zenon
      <4> QED
        BY <2>1, <3>1, <4>1
    <3>3. at(c) <= m /\ at(c) \in Nat /\ m \in Nat
      BY <1>9, <2>2, Zenon
    <3> HIDE DEF at
    <3> QED
      BY <3>2, <3>3
  <2> QED
    BY <1>5, <2>1, <2>3
<1> QED
  BY <1>5, <1>7, <1>8, <1>9

\* A finite set of numbers that is not empty has a largest one.
LEMMA MaxMember ==
  ASSUME NEW H \in SUBSET Nat, IsFiniteSet(H), H # {}
  PROVE  Max(H) \in H /\ \A n \in H : n <= Max(H)
<1> DEFINE c == Cardinality(H)
<1>1. c \in Nat \ {0}
  BY FS_CardinalityType, FS_EmptySet
<1>2. PICK m \in H : Rank(m, H) = c - 1
  <2>1. c - 1 \in 0 .. c - 1
    BY <1>1
  <2> QED
    BY <2>1, SortedAtMember, Zenon
<1>3. ASSUME NEW n \in H PROVE m >= n
  <2>1. Rank(n, H) \in 0 .. c - 1
    BY RankRange
  <2>2. CASE m < n
    BY <1>1, <1>2, <2>1, <2>2, RankMonotone
  <2> QED
    BY <2>2
<1>4. \E x \in H : \A n \in H : x >= n
  BY <1>3
<1>5. Max(H) \in H /\ \A n \in H : Max(H) >= n
  BY <1>4, Zenon DEF Max
<1> QED
  BY <1>5

-----------------------------------------------------------------------------
(* The theorems.                                                           *)

\* Names do sort.
LEMMA NamesDoSort == NamesSort
<1> USE ZenonT(30)
<1>1. ASSUME NEW H \in SUBSET Nat, IsFiniteSet(H)
      PROVE  /\ Sorted(H) \in Seq(H) /\ Len(Sorted(H)) = Cardinality(H)
             /\ Range(Sorted(H)) = H /\ IsInjective(Sorted(H))
             /\ \A m \in H : (\A n \in H : n <= m) =>
                   Cardinality(H) \in Nat \ {0} /\ Sorted(H)[Cardinality(H)] = m
             /\ H # {} => Max(H) \in H /\ \A n \in H : n <= Max(H)
  BY <1>1, SortedList, MaxMember
<1> QED
  BY <1>1 DEF NamesSort

\* The inductive invariant holds of every behaviour in which transfers are clean.
LEMMA SInvHolds == Spec /\ []TransfersClean => []SInv
<1>1. Init => SInv
  BY InitSInv, NamesDoSort
<1>2. SInv /\ TransfersClean /\ [Next]_vars => SInv'
  BY StepSInv
<1> QED
  BY <1>1, <1>2, PTL DEF Spec

\* appendLocked, mergeRun, runRetentionPass and the restart: whatever the handlers,
\* the compactor and crashes do, an acknowledged entry that has not expired is in
\* some segment file at every instant.
THEOREM AckedDurableTheorem == Spec /\ []TransfersClean => []AckedDurable
<1>1. SInv => AckedDurable
  BY SInvGives
<1> QED
  BY <1>1, SInvHolds, PTL

\* writeLocal, mergeRun and RemoveSegment: on a serving node an acknowledged,
\* unexpired entry that no running merge is moving is listed by the index under a
\* file that holds it, failing renames and sidecar writes included.
THEOREM AckedIndexedTheorem == Spec /\ []TransfersClean => []AckedIndexed
<1>1. SInv => AckedIndexed
  BY SInvGives
<1> QED
  BY <1>1, SInvHolds, PTL

\* Manager's own invariant: its list names no segment twice and the last is the
\* one it writes to, through a descriptor of that very file and of its size.
THEOREM ActiveIsLastTheorem == Spec /\ []TransfersClean => []ActiveIsLast
<1>1. SInv => ActiveIsLast
  BY SInvGives
<1> QED
  BY <1>1, SInvHolds, PTL

\* nextSeqFromMatches and openNewSegment: rotation never opens a file that exists.
THEOREM NextSeqFreshTheorem == Spec /\ []TransfersClean => []NextSeqFresh
<1>1. SInv => NextSeqFresh
  BY SInvGives
<1> QED
  BY <1>1, SInvHolds, PTL

\* ListClosedSegments: neither a merge nor retention ever has the active segment
\* in hand, however rotation races them.
THEOREM ActiveNotCompactedTheorem == Spec /\ []TransfersClean => []ActiveNotCompacted
<1>1. SInv => ActiveNotCompacted
  BY SInvGives
<1> QED
  BY <1>1, SInvHolds, PTL

\* WriteRecord, mergeRun and transferMissingSegments: no step takes an entry out of
\* a file that stays.
THEOREM SegmentsOnlyGrowTheorem == Spec /\ []TransfersClean => SegmentsOnlyGrow
<1>1. SInv /\ TransfersClean /\ [Next]_vars =>
        [\A p \in DOMAIN files \cap DOMAIN files' : files[p].recs \subseteq files'[p].recs]_vars
  BY StepGrows
<1> QED
  BY <1>1, SInvHolds, PTL DEF Spec, SegmentsOnlyGrow

\* AppendWithPath: when it returns, the file at the path it returns holds the entry.
THEOREM PathMatchesWriteTheorem == Spec /\ []TransfersClean => PathMatchesWrite
<1>1. SInv /\ [Next]_vars =>
        [\A w \in Writers :
           (writer[w].pc = "data" /\ writer'[w].pc = "index") =>
               /\ writer'[w].path \in DOMAIN files'
               /\ writer[w].entry \in files'[writer'[w].path].recs]_vars
  BY StepPath
<1> QED
  BY <1>1, SInvHolds, PTL DEF Spec, PathMatchesWrite

NothingToTransfer == shards = {}

\* A node that replicates no shard never has one to catch up on.
LEMMA NothingTransferred ==
  ASSUME ReplicaShards = {}
  PROVE  Spec => []NothingToTransfer
<1> USE ZenonT(30)
<1>1. Init => NothingToTransfer
  BY DEF Init, NothingToTransfer
<1>2. NothingToTransfer /\ [Next]_vars => NothingToTransfer'
  <2> SUFFICES ASSUME shards = {}, [Next]_vars PROVE shards' = {}
    BY DEF NothingToTransfer
  <2>1. CASE Start \/ Serve \/ Crash \/ AdvanceCutoff \/ UNCHANGED vars
    BY <2>1 DEF Start, Serve, Crash, AdvanceCutoff, vars
  <2>2. CASE \E w \in Writers : Append1(w)
    BY <2>2 DEF Append1, AppendBegin, RotateClose, RotateCloseFails, OpenNewSegment,
       TruncateMarker, WriteMarker, WriteHeader, WriteData, IndexAndAck
  <2>3. CASE Compact
    BY <2>3 DEF Compact, PassBegin, MergeSkip, MergeRead, MergeUnindex, MergeRename,
       MergeRenameFails, MergeWriteBloom, MergeWriteBloomFails, MergeReindex, MergeManager, DeleteFile,
       DeleteBloom, RetentionBegin, RetentionKeep, RetentionDelete, RetentionUnindex, RetentionEnd
  <2>4. CASE Query
    BY <2>4 DEF Query, QueryResolve, QueryPrune, QueryRead, QueryReadFails, QueryReturn
  <2> QED
    BY <2>1, <2>2, <2>3, <2>4 DEF Next
<1> QED
  BY <1>1, <1>2, PTL DEF Spec

\* A node that replicates no shard transfers nothing, so nothing is left to assume
\* of it: CatchUp returns at once, and all of the above holds of every behaviour.
THEOREM PrimaryOnlyTheorem ==
  ASSUME ReplicaShards = {}
  PROVE  Spec => /\ [](AckedDurable /\ AckedIndexed)
                 /\ [](ActiveIsLast /\ NextSeqFresh /\ ActiveNotCompacted)
                 /\ SegmentsOnlyGrow /\ PathMatchesWrite
<1>1. NothingToTransfer => TransfersClean
  BY Zenon DEF NothingToTransfer, TransfersClean
<1>2. Spec => []TransfersClean
  BY <1>1, NothingTransferred, PTL
<1> QED
  BY <1>2, AckedDurableTheorem, AckedIndexedTheorem, ActiveIsLastTheorem, NextSeqFreshTheorem,
     ActiveNotCompactedTheorem, SegmentsOnlyGrowTheorem, PathMatchesWriteTheorem, PTL

\* The strengthening, on a node that replicates nothing.
LEMMA FilterInvHolds ==
  ASSUME ReplicaShards = {}
  PROVE  Spec /\ [][SidecarsWritten]_vars => [](SInv /\ FilterInv)
<1> USE ZenonT(30)
<1>1. Init => FilterInv
  BY InitFilter
<1>2. SInv /\ SInv' /\ NothingToTransfer /\ FilterInv /\ [Next]_vars /\ [SidecarsWritten]_vars => FilterInv'
  BY StepFilter DEF NothingToTransfer
<1>3. NothingToTransfer => TransfersClean
  BY DEF NothingToTransfer, TransfersClean
<1>4. Spec => []NothingToTransfer
  BY NothingTransferred
<1> QED
  BY <1>1, <1>2, <1>3, <1>4, SInvHolds, PTL DEF Spec

\* writeLocal, bloomDefiniteMiss, mergeRun and LoadSegment: as long as every bloom
\* sidecar that is due gets written, an acknowledged, unexpired entry that no merge
\* is moving is in a file the index names for it and no filter rules out.
THEOREM AckedFindableTheorem ==
  ASSUME ReplicaShards = {}
  PROVE  Spec /\ [][SidecarsWritten]_vars => []AckedFindable
<1>1. SInv /\ FilterInv => AckedFindable
  BY FilterGives, Zenon
<1> QED
  BY <1>1, FilterInvHolds, PTL

\* Executor.Execute, with rotation, merges, retention and acknowledgements between
\* any two of its steps: unless a merge that overlapped the query moved it, every
\* matching entry that was acknowledged when the index was resolved and has not
\* expired is among the results.
THEOREM QueryCompleteTheorem ==
  ASSUME ReplicaShards = {}
  PROVE  Spec /\ [][SidecarsWritten]_vars => []QueryComplete
<1>1. SInv /\ FilterInv => QueryComplete
  BY FilterGives, Zenon
<1> QED
  BY <1>1, FilterInvHolds, PTL

\* No call has failed.
NoFault == faults = 0

\* RotateCloseFails and MergeWriteBloomFails are the only ways not to write a
\* sidecar: a node whose file operations all succeed, however often it crashes,
\* has index, files and filters that agree, and its queries are complete.
THEOREM FaultFreeTheorem ==
  ASSUME ReplicaShards = {}, MaxFaults = 0
  PROVE  Spec => [](AckedFindable /\ QueryComplete)
<1>1. Init => NoFault
  BY Zenon DEF Init, NoFault
<1>2. ~(faults < MaxFaults) \/ ~NoFault
  BY DEF NoFault
<1>3. NoFault /\ [Next]_vars => NoFault' /\ [SidecarsWritten]_vars
  <2> USE ZenonT(30)
  <2> SUFFICES ASSUME NoFault, [Next]_vars PROVE NoFault' /\ SidecarsWritten
    OBVIOUS
  <2>1. SidecarsWritten
    BY <1>2 DEF SidecarsWritten, MergeWriteBloomFails, RotateCloseFails
  <2>2. CASE Start \/ Serve \/ Crash \/ AdvanceCutoff \/ UNCHANGED vars
    BY <2>1, <2>2 DEF NoFault, Start, Serve, Crash, AdvanceCutoff, vars, history
  <2>3. CASE \E w \in Writers : Append1(w)
    BY <1>2, <2>1, <2>3 DEF NoFault, Append1, AppendBegin, RotateClose, RotateCloseFails, OpenNewSegment,
       TruncateMarker, WriteMarker, WriteHeader, WriteData, IndexAndAck, history
  <2>4. CASE Compact
    BY <1>2, <2>1, <2>4 DEF NoFault, Compact, PassBegin, MergeSkip, MergeRead, MergeUnindex, MergeRename,
       MergeRenameFails, MergeWriteBloom, MergeWriteBloomFails, MergeReindex, MergeManager, DeleteFile,
       DeleteBloom, RetentionBegin, RetentionKeep, RetentionDelete, RetentionUnindex, RetentionEnd, history
  <2>5. CASE Query
    BY <2>1, <2>5 DEF NoFault, Query, QueryResolve, QueryPrune, QueryRead, QueryReadFails, QueryReturn, history
  <2>6. CASE \E s \in shards : \E ok \in SUBSET MissingSegments(s) : CatchUpShard(s, ok)
    BY <2>1, <2>6 DEF NoFault, CatchUpShard, history
  <2> QED
    BY <2>1, <2>2, <2>3, <2>4, <2>5, <2>6 DEF Next
<1>4. Spec => [][SidecarsWritten]_vars
  BY <1>1, <1>3, PTL DEF Spec
<1> QED
  BY <1>4, AckedFindableTheorem, QueryCompleteTheorem, PTL

=============================================================================
