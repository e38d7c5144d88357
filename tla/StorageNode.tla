---------------------------- MODULE StorageNode ----------------------------
(***************************************************************************)
(* One log node's local store: the segment manager, the ACTIVE marker, the *)
(* bloom sidecars, the inverted index, the background compactor (merge and *)
(* retention), the local query executor and the segment transfer of the    *)
(* start-up catch-up.  The goroutines of cmd/node/main.go are:             *)
(*                                                                         *)
(*   writer[w]  an Ingest handler: AppendWithPath, then idx.Add, then ack; *)
(*   comp       the compactor goroutine, one pass at a time;               *)
(*   reader     one Query handler running LocalExecutor.Execute.           *)
(*                                                                         *)
(* What survives a crash of the process is files, sidecar and marker; the  *)
(* rest is memory.  A segment is named by its sequence number.  An entry   *)
(* is a number; its record takes SizeOf[e] units of the segment and its    *)
(* timestamp is TsOf[e] (0: not set by the client).  A segment file is the *)
(* set of its entries and its size: nothing here depends on their order.   *)
(* A bloom filter is the set of the entries whose tokens were added: a     *)
(* false positive only makes a query read a segment it then filters.  A    *)
(* record is written by two system calls, so between them, or after a      *)
(* crash between them, a segment ends in a torn record.                    *)
(***************************************************************************)
EXTENDS SortedSets, FiniteSetsExt

CONSTANTS
    Writers,          \* concurrent Ingest handlers
    Entries,          \* entries clients send to this node, in order of append
    RemoteEntries,    \* entries only the shard's primary has so far
    SizeOf, TsOf,     \* record size and timestamp of an entry
    ShardOf,          \* ShardID of an entry
    Remote,           \* closed segments of the primary: number -> set of entries
    ReplicaShards,    \* shards this node replicates
    MaxSegmentBytes,  \* rotation threshold, in units of SizeOf
    MergeThreshold,   \* MergeThresholdBytes of the compactor (0: no merging)
    MaxCutoff,        \* how far the retention cutoff advances (0: no retention)
    BloomEnabled,     \* BLOOM_ENABLED
    QueryTerms,       \* tokens queried: an entry's own token, or 0 for the match-all query
    MaxCrashes,       \* bound on process crashes
    MaxFaults         \* bound on failing os.Rename / WriteBloom calls

AllEntries == Entries \cup RemoteEntries

ASSUME EntriesAssumption ==
    /\ Entries \subseteq Nat \ {0}
    /\ RemoteEntries \subseteq Nat \ {0}
    /\ Entries \cap RemoteEntries = {}
    /\ SizeOf \in [AllEntries -> Nat \ {0}]
    /\ TsOf \in [AllEntries -> Nat]

ASSUME RemoteAssumption ==
    DOMAIN Remote \subseteq Nat \ {0} /\ \A p \in DOMAIN Remote : Remote[p] \subseteq AllEntries

ASSUME BoundsAssumption ==
    /\ MaxSegmentBytes \in Nat
    /\ MergeThreshold \in Nat
    /\ MaxCutoff \in Nat
    /\ MaxCrashes \in Nat
    /\ MaxFaults \in Nat
    /\ BloomEnabled \in BOOLEAN
    /\ QueryTerms \subseteq AllEntries \cup {0}

VARIABLES
    files,      \* disk: segment number -> [recs, size, torn]
    sidecar,    \* disk: segment number -> entries in the .bloom file
    marker,     \* disk: contents of the ACTIVE file
    phase,      \* "down", "catchup" or "serving"
    shards,     \* replica shards CatchUp has still to visit
    paths,      \* Manager.paths, the active segment last
    nextSeq,    \* Manager.nextSeq
    fd,         \* Manager.active: [path, attached, size]
    blooms,     \* Manager.blooms
    idx,        \* Index: pairs <<segment, entry>>
    writer,     \* Ingest handlers: [pc, entry, path]
    comp,       \* compactor: [pc, todo, run, left, tmp, cutoff], tmp the .tmp file
    reader,     \* query handler: [pc, term, todo, keep, got, must, hurt]
    issued,     \* entries taken by writers so far
    acked,      \* entries acknowledged to a client, or received by transfer
    cutoff,     \* retention cutoff: time.Now() - RetentionDays
    crashes, faults

disk == <<files, sidecar, marker>>
manager == <<paths, nextSeq, fd, blooms>>
history == <<issued, acked, cutoff, crashes, faults>>
vars == <<disk, phase, shards, manager, idx, writer, comp, reader, history>>

NoMarker == -1      \* no ACTIVE file
EmptyMarker == 0    \* ACTIVE truncated by os.WriteFile and not yet written

-----------------------------------------------------------------------------
(* Partial functions and segments                                          *)

Put(f, p, v) == [x \in DOMAIN f \cup {p} |-> IF x = p THEN v ELSE f[x]]
Drop(f, p) == Restrict(f, DOMAIN f \ {p})

EmptySegment == [recs |-> {}, size |-> 0, torn |-> FALSE]
Contents(p) == files[p].recs
Size(p) == files[p].size

\* ReadSegments skips a path that does not exist and fails on a torn record.
Readable(ps) == \A p \in ps \cap DOMAIN files : ~files[p].torn
ReadSegments(ps) == UNION {Contents(p) : p \in ps \cap DOMAIN files}

\* The records of some segments, or some entries, written to one new file.
Concatenated(ps) ==
    [recs |-> ReadSegments(ps), size |-> MapThenSumSet(Size, ps \cap DOMAIN files), torn |-> FALSE]
FileOf(es) == [recs |-> es, size |-> MapThenSumSet(LAMBDA e : SizeOf[e], es), torn |-> FALSE]

\* A rename onto, or removal of, p leaves an open descriptor on the old inode.
Unlinked(p) == [fd EXCEPT !.attached = @ /\ fd.path # p]

NoFd == [path |-> 0, attached |-> FALSE, size |-> 0]
IdleWriter == [pc |-> "idle", entry |-> 0, path |-> 0]
IdleComp == [pc |-> "idle", todo |-> <<>>, run |-> <<>>, left |-> <<>>, tmp |-> EmptySegment,
             cutoff |-> 0]
IdleReader == [pc |-> "idle", term |-> 0, todo |-> <<>>, keep |-> <<>>,
               got |-> {}, must |-> {}, hurt |-> {}]

\* m.mu is free: no writer is inside appendLocked.
LockFree == \A w \in Writers : writer[w].pc \in {"idle", "index"}

Expired(e) == TsOf[e] < cutoff

Init ==
    /\ files = <<>> /\ sidecar = <<>> /\ marker = NoMarker
    /\ phase = "down" /\ shards = {} /\ paths = <<>> /\ nextSeq = 0 /\ fd = NoFd /\ blooms = <<>>
    /\ idx = {}
    /\ writer = [w \in Writers |-> IdleWriter]
    /\ comp = IdleComp /\ reader = IdleReader
    /\ issued = 0 /\ acked = {} /\ cutoff = 0 /\ crashes = 0 /\ faults = 0

-----------------------------------------------------------------------------
(* Start-up, catch-up and crash                                            *)

\* NewManager fails to open the directory itself, which an empty marker names.
ActiveReopens == marker # EmptyMarker
\* RebuildFromSegments fails on the first segment it cannot read to the end.
RebuildSucceeds == \A p \in DOMAIN files : ~files[p].torn

\* The segment NewManager reopens: the marked one, else the last by name.
ActiveAtStart == IF marker \in DOMAIN files THEN marker ELSE Max(DOMAIN files)

LoadedBlooms(closed) ==
    IF BloomEnabled THEN Restrict(sidecar, closed \cap DOMAIN sidecar) ELSE <<>>

nextSeqFromMatches_Count(matches) == Cardinality(matches) + 1
nextSeqFromMatches_Last(matches) == Max(matches \cup {0})
nextSeqFromMatches(matches) == Max(matches \cup {0}) + 1

PathsAtStart_ByName(active) == Sorted(DOMAIN files)
PathsAtStart(active) == Append(Sorted(DOMAIN files \ {active}), active)

NewManager ==
    IF DOMAIN files = {}
    THEN LET first == nextSeqFromMatches({}) IN
         /\ files' = Put(files, first, EmptySegment)
         /\ marker' = first /\ paths' = <<first>> /\ nextSeq' = first + 1
         /\ fd' = [path |-> first, attached |-> TRUE, size |-> 0] /\ blooms' = <<>>
    ELSE LET active == ActiveAtStart IN
         /\ paths' = PathsAtStart(active)
         /\ nextSeq' = nextSeqFromMatches(DOMAIN files)
         /\ fd' = [path |-> active, attached |-> TRUE, size |-> Size(active)]
         /\ blooms' = LoadedBlooms(DOMAIN files \ {active})
         /\ UNCHANGED <<files, marker>>

RebuildFromSegments == UNION {{p} \X Contents(p) : p \in DOMAIN files}

\* main: NewManager, then RebuildFromSegments; either failure is fatal.
Start ==
    /\ phase = "down"
    /\ ActiveReopens /\ RebuildSucceeds
    /\ NewManager
    /\ idx' = RebuildFromSegments
    /\ phase' = "catchup" /\ shards' = ReplicaShards
    /\ UNCHANGED <<sidecar, writer, comp, reader, history>>

\* The primary's closed segments that hold entries of shard s.
ShardView(p, s) == {e \in Remote[p] : ShardOf[e] = s}
ListSegments(s) == {p \in DOMAIN Remote : ShardView(p, s) # {}}

MissingSegments_NameOnly(s) == {p \in ListSegments(s) : p # Last(paths)}

\* Names not skipped: not the active segment, nor one already holding s.
MissingSegments(s) ==
    {p \in ListSegments(s) :
        /\ p # Last(paths)
        /\ ~(p \in Range(Front(paths)) /\ \E e \in Contents(p) : ShardOf[e] = s)}

\* transferMissingSegments for shard s, in CatchUp, before the node serves.
\* A transfer that fails is skipped; "ok" are those that succeed.  Nothing
\* else runs in this phase, and a crash halfway is a smaller "ok".
CatchUpShard(s, ok) ==
    /\ phase = "catchup" /\ s \in shards /\ ok \subseteq MissingSegments(s)
    /\ shards' = shards \ {s}
    /\ files' = [p \in DOMAIN files \cup ok |->
                   IF p \in ok THEN FileOf(ShardView(p, s)) ELSE files[p]]
    /\ paths' = Append(Front(paths) \o Sorted(ok), Last(paths))
    /\ blooms' = [p \in DOMAIN blooms \cup DOMAIN LoadedBlooms(ok) |->
                    IF p \in DOMAIN LoadedBlooms(ok) THEN sidecar[p] ELSE blooms[p]]
    /\ idx' = idx \cup UNION {{p} \X ShardView(p, s) : p \in ok}
    /\ acked' = acked \cup UNION {ShardView(p, s) : p \in ok}
    /\ UNCHANGED <<sidecar, marker, phase, nextSeq, fd, writer, comp, reader,
                   issued, cutoff, crashes, faults>>

\* CatchUp returns: the compactor starts and the gRPC server serves.
Serve ==
    /\ phase = "catchup" /\ shards = {}
    /\ phase' = "serving"
    /\ UNCHANGED <<disk, shards, manager, idx, writer, comp, reader, history>>

\* The process dies; memory and every goroutine are gone.
Crash ==
    /\ phase # "down"
    /\ crashes < MaxCrashes
    /\ crashes' = crashes + 1
    /\ phase' = "down" /\ shards' = {} /\ paths' = <<>> /\ nextSeq' = 0 /\ fd' = NoFd /\ blooms' = <<>>
    /\ idx' = {}
    /\ writer' = [w \in Writers |-> IdleWriter]
    /\ comp' = IdleComp /\ reader' = IdleReader
    /\ UNCHANGED <<disk, issued, acked, cutoff, faults>>

-----------------------------------------------------------------------------
(* Ingest: AppendWithPath under m.mu, then idx.Add, then the reply         *)

SetWriter(w, pc) == writer' = [writer EXCEPT ![w].pc = pc]

\* m.mu.Lock and the size test of appendLocked.
AppendBegin(w) ==
    /\ phase = "serving" /\ writer[w].pc = "idle" /\ LockFree
    /\ issued + 1 \in Entries
    /\ issued' = issued + 1
    /\ writer' = [writer EXCEPT ![w] =
          [pc |-> IF fd.size + SizeOf[issued + 1] > MaxSegmentBytes THEN "rotate" ELSE "header",
           entry |-> issued + 1, path |-> 0]]
    /\ UNCHANGED <<disk, phase, shards, manager, idx, comp, reader,
                   acked, cutoff, crashes, faults>>

\* rotate: close the active segment and write its bloom sidecar.
RotateClose(w) ==
    LET closing == Last(paths) IN
    /\ writer[w].pc = "rotate"
    /\ SetWriter(w, "create")
    /\ IF BloomEnabled /\ closing \in DOMAIN files /\ ~files[closing].torn
       THEN /\ sidecar' = Put(sidecar, closing, Contents(closing))
            /\ blooms' = Put(blooms, closing, Contents(closing))
       ELSE UNCHANGED <<sidecar, blooms>>
    /\ UNCHANGED <<files, marker, phase, shards, paths, nextSeq, fd, idx, comp, reader, history>>

\* WriteBloom failed: the segment has no filter in memory, an old sidecar stays.
RotateCloseFails(w) ==
    /\ writer[w].pc = "rotate" /\ BloomEnabled /\ faults < MaxFaults
    /\ faults' = faults + 1
    /\ SetWriter(w, "create")
    /\ UNCHANGED <<disk, phase, shards, manager, idx, comp, reader, issued, acked, cutoff, crashes>>

\* openNewSegment: OpenSegment creates the file, or appends to an existing one.
OpenNewSegment(w) ==
    /\ writer[w].pc = "create"
    /\ SetWriter(w, "truncate")
    /\ files' = IF nextSeq \in DOMAIN files THEN files
                ELSE Put(files, nextSeq, EmptySegment)
    /\ fd' = [path |-> nextSeq, attached |-> TRUE, size |-> files'[nextSeq].size]
    /\ paths' = Append(paths, nextSeq)
    /\ nextSeq' = nextSeq + 1
    /\ UNCHANGED <<sidecar, marker, phase, shards, blooms, idx, comp, reader, history>>

\* os.WriteFile of the ACTIVE marker truncates the file, then writes it.
TruncateMarker(w) ==
    /\ writer[w].pc = "truncate"
    /\ SetWriter(w, "mark")
    /\ marker' = EmptyMarker
    /\ UNCHANGED <<files, sidecar, phase, shards, manager, idx, comp, reader, history>>

WriteMarker(w) ==
    /\ writer[w].pc = "mark"
    /\ SetWriter(w, "header")
    /\ marker' = Last(paths)
    /\ UNCHANGED <<files, sidecar, phase, shards, manager, idx, comp, reader, history>>

\* WriteRecord: first the length prefix ...
WriteHeader(w) ==
    /\ writer[w].pc = "header"
    /\ SetWriter(w, "data")
    /\ files' = IF fd.attached THEN [files EXCEPT ![fd.path].torn = TRUE] ELSE files
    /\ UNCHANGED <<sidecar, marker, phase, shards, manager, idx, comp, reader, history>>

\* The path AppendWithPath returns.
ReturnedPath_First == Head(paths)
ReturnedPath == Last(paths)

\* ... then the payload and fsync, and the return from AppendWithPath.
WriteData(w) ==
    /\ writer[w].pc = "data"
    /\ files' = IF fd.attached
                THEN [files EXCEPT ![fd.path] = [recs |-> @.recs \cup {writer[w].entry},
                                                 size |-> @.size + SizeOf[writer[w].entry],
                                                 torn |-> FALSE]]
                ELSE files
    /\ fd' = [fd EXCEPT !.size = @ + SizeOf[writer[w].entry]]
    /\ writer' = [writer EXCEPT ![w].pc = "index", ![w].path = ReturnedPath]
    /\ UNCHANGED <<sidecar, marker, phase, shards, paths, nextSeq, blooms, idx, comp, reader, history>>

\* writeLocal: idx.Add outside m.mu, then the acknowledgement.
IndexAndAck(w) ==
    /\ writer[w].pc = "index"
    /\ writer' = [writer EXCEPT ![w] = IdleWriter]
    /\ idx' = idx \cup {<<writer[w].path, writer[w].entry>>}
    /\ acked' = acked \cup {writer[w].entry}
    /\ UNCHANGED <<disk, phase, shards, manager, comp, reader, issued, cutoff, crashes, faults>>

-----------------------------------------------------------------------------
(* Compactor: a merge pass, then a retention pass                          *)

Small(p) == p \in DOMAIN files /\ Size(p) < MergeThreshold

\* Length of the run of small segments at the head of the closed list.
RunLength(closed) ==
    Max({k \in 0..Len(closed) : \A i \in 1..k : Small(closed[i])})

\* ListClosedSegments of the merge pass, on a tick.
PassBegin_All ==
    /\ phase = "serving" /\ comp.pc = "idle" /\ LockFree
    /\ comp' = [IdleComp EXCEPT !.pc = "scan",
                                !.todo = IF MergeThreshold > 0 /\ Len(paths) >= 2
                                         THEN paths ELSE <<>>]
    /\ UNCHANGED <<disk, phase, shards, manager, idx, writer, reader, history>>

PassBegin ==
    /\ phase = "serving" /\ comp.pc = "idle" /\ LockFree
    /\ comp' = [IdleComp EXCEPT !.pc = "scan",
                                !.todo = IF MergeThreshold > 0 /\ Len(paths) >= 3
                                         THEN Front(paths) ELSE <<>>]
    /\ UNCHANGED <<disk, phase, shards, manager, idx, writer, reader, history>>

\* A large or missing segment, a run of one, or a run mergeRun cannot read.
MergeSkip ==
    LET n == RunLength(comp.todo) IN
    /\ comp.pc = "scan" /\ comp.todo # <<>>
    /\ n < 2 \/ ~Readable(Range(SubSeq(comp.todo, 1, n)))
    /\ comp' = [comp EXCEPT !.todo = SubSeq(@, Max({n, 1}) + 1, Len(@))]
    /\ UNCHANGED <<disk, phase, shards, manager, idx, writer, reader, history>>

\* mergeRun reads the run and writes it to a .tmp file, which no other code sees.
MergeRead ==
    LET n == RunLength(comp.todo)
        run == SubSeq(comp.todo, 1, n) IN
    /\ comp.pc = "scan" /\ n >= 2 /\ Readable(Range(run))
    /\ comp' = [comp EXCEPT !.pc = "unindex", !.run = run, !.left = run,
                            !.tmp = Concatenated(Range(run)),
                            !.todo = SubSeq(@, n + 1, Len(@))]
    /\ reader' = [reader EXCEPT !.hurt =
                    IF reader.pc = "idle" THEN {} ELSE @ \cup ReadSegments(Range(run))]
    /\ UNCHANGED <<disk, phase, shards, manager, idx, writer, history>>

RemoveSegment(p) == {x \in idx : x[1] # p}

\* RemoveSegment of each merged path, before the rename.
MergeUnindex ==
    /\ comp.pc = "unindex"
    /\ idx' = RemoveSegment(Head(comp.left))
    /\ comp' = [comp EXCEPT !.left = Tail(@),
                            !.pc = IF Len(comp.left) = 1 THEN "rename" ELSE "unindex"]
    /\ UNCHANGED <<disk, phase, shards, manager, writer, reader, history>>

Merged_Last == files[Last(comp.run)]
Merged == comp.tmp

\* os.Rename of the .tmp file onto the first path of the run.
MergeRename ==
    /\ comp.pc = "rename"
    /\ files' = Put(files, Head(comp.run), Merged)
    /\ fd' = Unlinked(Head(comp.run))
    /\ comp' = [comp EXCEPT !.pc = IF BloomEnabled /\ comp.tmp.recs # {} THEN "bloom" ELSE "reindex"]
    /\ UNCHANGED <<sidecar, marker, phase, shards, paths, nextSeq, blooms, idx, writer, reader, history>>

\* The rename failed: put the old segments back into the index.
MergeRenameFails_NoRestore ==
    /\ comp.pc = "rename" /\ faults < MaxFaults
    /\ faults' = faults + 1
    /\ comp' = [comp EXCEPT !.pc = "scan", !.run = <<>>, !.tmp = EmptySegment]
    /\ UNCHANGED <<disk, phase, shards, manager, idx, writer, reader, issued, acked, cutoff, crashes>>

MergeRenameFails ==
    /\ comp.pc = "rename" /\ faults < MaxFaults
    /\ faults' = faults + 1
    /\ idx' = idx \cup UNION {{p} \X Contents(p) :
                p \in {q \in Range(comp.run) \cap DOMAIN files : ~files[q].torn}}
    /\ comp' = [comp EXCEPT !.pc = "scan", !.run = <<>>, !.tmp = EmptySegment]
    /\ UNCHANGED <<disk, phase, shards, manager, writer, reader, issued, acked, cutoff, crashes>>

\* WriteBloom for the merged segment, whose error is dropped.
MergeWriteBloom_First ==
    /\ comp.pc = "bloom"
    /\ sidecar' = Put(sidecar, Head(comp.run), {Min(comp.tmp.recs)})
    /\ comp' = [comp EXCEPT !.pc = "reindex"]
    /\ UNCHANGED <<files, marker, phase, shards, manager, idx, writer, reader, history>>

MergeWriteBloom ==
    /\ comp.pc = "bloom"
    /\ sidecar' = Put(sidecar, Head(comp.run), comp.tmp.recs)
    /\ comp' = [comp EXCEPT !.pc = "reindex"]
    /\ UNCHANGED <<files, marker, phase, shards, manager, idx, writer, reader, history>>

MergeWriteBloomFails ==
    /\ comp.pc = "bloom" /\ faults < MaxFaults
    /\ faults' = faults + 1
    /\ comp' = [comp EXCEPT !.pc = "reindex"]
    /\ UNCHANGED <<disk, phase, shards, manager, idx, writer, reader, issued, acked, cutoff, crashes>>

\* idx.Add of every merged entry under the first path.
MergeReindex ==
    /\ comp.pc = "reindex"
    /\ idx' = idx \cup ({Head(comp.run)} \X comp.tmp.recs)
    /\ comp' = [comp EXCEPT !.pc = "manager"]
    /\ UNCHANGED <<disk, phase, shards, manager, writer, reader, history>>

\* Under m.mu: forget the other paths, reload the merged segment's filter.
MergeManager ==
    LET gone == Range(Tail(comp.run))
        kept == Restrict(blooms, DOMAIN blooms \ Range(comp.run)) IN
    /\ comp.pc = "manager" /\ LockFree
    /\ paths' = Without(paths, gone)
    /\ blooms' = IF BloomEnabled /\ Head(comp.run) \in DOMAIN sidecar
                 THEN Put(kept, Head(comp.run), sidecar[Head(comp.run)]) ELSE kept
    /\ comp' = [comp EXCEPT !.pc = "delete", !.left = Tail(comp.run)]
    /\ UNCHANGED <<disk, phase, shards, nextSeq, fd, idx, writer, reader, history>>

\* os.Remove of a segment (merged away or expired), then of its sidecar.
DeleteFile ==
    /\ comp.pc = "delete"
    /\ files' = Drop(files, Head(comp.left))
    /\ fd' = Unlinked(Head(comp.left))
    /\ comp' = [comp EXCEPT !.pc = "delbloom"]
    /\ UNCHANGED <<sidecar, marker, phase, shards, paths, nextSeq, blooms, idx, writer, reader, history>>

DeleteBloom ==
    /\ comp.pc = "delbloom"
    /\ sidecar' = Drop(sidecar, Head(comp.left))
    /\ comp' = IF Len(comp.left) > 1
               THEN [comp EXCEPT !.pc = "delete", !.left = Tail(@)]
               ELSE [comp EXCEPT !.pc = IF Len(comp.run) > 1 THEN "scan" ELSE "retain",
                                 !.run = <<>>, !.left = <<>>, !.tmp = EmptySegment]
    /\ UNCHANGED <<files, marker, phase, shards, manager, idx, writer, reader, history>>

\* runRetentionPass: fix the cutoff and list the closed segments.
RetentionBegin ==
    /\ comp.pc = "scan" /\ comp.todo = <<>> /\ LockFree
    /\ comp' = IF MaxCutoff = 0 THEN IdleComp
               ELSE [IdleComp EXCEPT !.pc = "retain", !.todo = Front(paths), !.cutoff = cutoff]
    /\ UNCHANGED <<disk, phase, shards, manager, idx, writer, reader, history>>

\* maxTS > 0 && maxTS < cutoff, for a segment that can be read.
TooOld(p, before) ==
    /\ Readable({p})
    /\ \E e \in ReadSegments({p}) : TsOf[e] > 0
    /\ \A e \in ReadSegments({p}) : TsOf[e] < before

RetentionKeep ==
    /\ comp.pc = "retain" /\ comp.todo # <<>>
    /\ ~TooOld(Head(comp.todo), comp.cutoff)
    /\ comp' = [comp EXCEPT !.todo = Tail(@)]
    /\ UNCHANGED <<disk, phase, shards, manager, idx, writer, reader, history>>

\* DeleteSegment of an expired segment.
RetentionDelete ==
    LET p == Head(comp.todo) IN
    /\ comp.pc = "retain" /\ comp.todo # <<>> /\ LockFree
    /\ TooOld(p, comp.cutoff)
    /\ paths' = Without(paths, {p})
    /\ blooms' = Drop(blooms, p)
    /\ comp' = [comp EXCEPT !.pc = "expire", !.todo = Tail(@), !.run = <<p>>]
    /\ UNCHANGED <<disk, phase, shards, nextSeq, fd, idx, writer, reader, history>>

RetentionUnindex ==
    /\ comp.pc = "expire"
    /\ idx' = RemoveSegment(Head(comp.run))
    /\ comp' = [comp EXCEPT !.pc = "delete", !.left = comp.run]
    /\ UNCHANGED <<disk, phase, shards, manager, writer, reader, history>>

RetentionEnd ==
    /\ comp.pc = "retain" /\ comp.todo = <<>>
    /\ comp' = IdleComp
    /\ UNCHANGED <<disk, phase, shards, manager, idx, writer, reader, history>>

\* Time passes: more entries fall behind the retention cutoff.
AdvanceCutoff ==
    /\ cutoff < MaxCutoff
    /\ cutoff' = cutoff + 1
    /\ UNCHANGED <<disk, phase, shards, manager, idx, writer, comp, reader,
                   issued, acked, crashes, faults>>

-----------------------------------------------------------------------------
(* LocalExecutor.Execute: resolve, bloom-prune, read, filter               *)

\* Entries a query matches: all of them, or the ones with the term's token.
Matches(t) == IF t = 0 THEN AllEntries ELSE {t}

Resolve(t) == Sorted({x[1] : x \in {y \in idx : y[2] \in Matches(t)}})

\* Entries of a merge between its first RemoveSegment and its last idx.Add:
\* mergeRun documents that new queries may miss these.
Hidden == IF comp.pc \in {"unindex", "rename", "bloom", "reindex"} THEN comp.tmp.recs ELSE {}
Merging == IF Len(comp.run) > 1 THEN comp.tmp.recs ELSE {}

QueryResolve(t) ==
    /\ phase = "serving" /\ reader.pc = "idle"
    /\ reader' = [IdleReader EXCEPT
          !.pc = IF t = 0 \/ Resolve(t) = <<>> THEN "read" ELSE "prune",
          !.term = t, !.todo = Resolve(t),
          !.must = (acked \cap Matches(t)) \ Hidden, !.hurt = Merging]
    /\ UNCHANGED <<disk, phase, shards, manager, idx, writer, comp, history>>

bloomDefiniteMiss_NoFilter(p, t) == p \notin DOMAIN blooms
bloomDefiniteMiss(p, t) == p \in DOMAIN blooms /\ t \notin blooms[p]

\* BloomFor of one candidate, under m.mu.
QueryPrune ==
    LET p == Head(reader.todo)
        keep == IF bloomDefiniteMiss(p, reader.term) THEN reader.keep ELSE Append(reader.keep, p) IN
    /\ reader.pc = "prune" /\ LockFree
    /\ reader' = IF Len(reader.todo) > 1
                 THEN [reader EXCEPT !.todo = Tail(@), !.keep = keep]
                 ELSE [reader EXCEPT !.pc = "read", !.todo = keep, !.keep = <<>>]
    /\ UNCHANGED <<disk, phase, shards, manager, idx, writer, comp, history>>

\* ReadSegments: one file; a missing one is skipped.
QueryRead ==
    LET p == Head(reader.todo) IN
    /\ reader.pc = "read" /\ reader.todo # <<>> /\ Readable({p})
    /\ reader' = [reader EXCEPT !.todo = Tail(@),
                    !.got = @ \cup (ReadSegments({p}) \cap Matches(reader.term))]
    /\ UNCHANGED <<disk, phase, shards, manager, idx, writer, comp, history>>

\* A torn record at the end of the file fails the whole query.
QueryReadFails ==
    /\ reader.pc = "read" /\ reader.todo # <<>> /\ ~Readable({Head(reader.todo)})
    /\ reader' = IdleReader
    /\ UNCHANGED <<disk, phase, shards, manager, idx, writer, comp, history>>

\* The result, deduplicated by entry ID, is returned.
QueryReturn ==
    /\ reader.pc = "read" /\ reader.todo = <<>>
    /\ reader' = IdleReader
    /\ UNCHANGED <<disk, phase, shards, manager, idx, writer, comp, history>>

-----------------------------------------------------------------------------

Append1(w) ==
    \/ AppendBegin(w) \/ RotateClose(w) \/ RotateCloseFails(w) \/ OpenNewSegment(w)
    \/ TruncateMarker(w) \/ WriteMarker(w) \/ WriteHeader(w) \/ WriteData(w)
    \/ IndexAndAck(w)

Compact ==
    \/ PassBegin \/ MergeSkip \/ MergeRead \/ MergeUnindex
    \/ MergeRename \/ MergeRenameFails \/ MergeWriteBloom \/ MergeWriteBloomFails
    \/ MergeReindex \/ MergeManager \/ DeleteFile \/ DeleteBloom
    \/ RetentionBegin \/ RetentionKeep \/ RetentionDelete \/ RetentionUnindex \/ RetentionEnd

Query ==
    \/ \E t \in QueryTerms : QueryResolve(t)
    \/ QueryPrune \/ QueryRead \/ QueryReadFails \/ QueryReturn

Next ==
    \/ Start \/ Serve \/ Crash \/ AdvanceCutoff
    \/ \E s \in shards : \E ok \in SUBSET MissingSegments(s) : CatchUpShard(s, ok)
    \/ \E w \in Writers : Append1(w)
    \/ Compact
    \/ Query

Spec == Init /\ [][Next]_vars

-----------------------------------------------------------------------------
(* Properties                                                              *)

Segments == [recs : SUBSET AllEntries, size : Nat, torn : BOOLEAN]

\* Every variable stays in its domain: segments hold known entries, bloom
\* filters and sidecars sets of them, program counters their labels.
TypeOK ==
    /\ \A p \in DOMAIN files : p \in Nat \ {0} /\ files[p] \in Segments
    /\ \A p \in DOMAIN sidecar : sidecar[p] \subseteq AllEntries
    /\ \A p \in DOMAIN blooms : blooms[p] \subseteq AllEntries
    /\ marker \in Nat \cup {NoMarker}
    /\ phase \in {"down", "catchup", "serving"} /\ shards \subseteq ReplicaShards
    /\ paths \in Seq(Nat \ {0}) /\ nextSeq \in Nat
    /\ fd \in [path : Nat, attached : BOOLEAN, size : Nat]
    /\ idx \subseteq Nat \X AllEntries
    /\ writer \in [Writers -> [pc : {"idle", "rotate", "create", "truncate", "mark", "header",
                                     "data", "index"},
                               entry : Entries \cup {0}, path : Nat]]
    /\ comp.tmp \in Segments /\ reader.got \subseteq AllEntries
    /\ issued \in Nat /\ acked \subseteq AllEntries /\ cutoff \in 0..MaxCutoff

\* An acknowledged entry that has not expired is in some segment file at every
\* instant: across rotation, every step of a merge (rename before delete),
\* retention, a crash anywhere and the restart after it (manager.go, compaction.go).
AckedDurable ==
    \A e \in acked : Expired(e) \/ \E p \in DOMAIN files : e \in Contents(p)

\* A query beginning now finds segment p for entry e: the index lists it, the
\* file holds it, and no bloom filter prunes it.
Findable(e) ==
    \E p \in DOMAIN files :
        /\ <<p, e>> \in idx
        /\ e \in Contents(p)
        /\ ~bloomDefiniteMiss(p, e)

\* On a serving node every acknowledged, unexpired entry that no running merge
\* is moving can be found: index, files and bloom filters agree although they
\* are updated one after the other, by different goroutines.
AckedFindable ==
    phase = "serving" => \A e \in acked : e \in Merging \/ Expired(e) \/ Findable(e)

\* Manager invariant (manager.go:80-82): the last path, and no other, is the
\* segment the manager writes to; the descriptor is that file's, and its size
\* the file's, so rotation and the closed-segment list are right.
ActiveIsLast ==
    phase # "down" =>
        /\ IsInjective(paths)
        /\ \/ \E w \in Writers : writer[w].pc \in {"rotate", "create"}
           \/ Last(paths) = fd.path /\ fd.attached /\ fd.size = Size(fd.path)

\* Rotation never opens a file that already exists: nextSeq is above every
\* segment on disk, whatever was merged, expired or left by a crash.
NextSeqFresh == phase # "down" => \A p \in DOMAIN files : p < nextSeq

\* The compactor never takes hold of the active segment.
ActiveNotCompacted == phase = "serving" => fd.path \notin Range(comp.run) \cup Range(comp.todo)

\* A query returns every matching entry acknowledged before it resolved its
\* paths, unless a merge of the entry overlapped the query or it expired.
QueryComplete ==
    (reader.pc = "read" /\ reader.todo = <<>>) =>
        \A e \in reader.must \ reader.got : e \in reader.hurt \/ Expired(e)

\* A file that stays keeps what it held: appends and merges only add entries.
SegmentsOnlyGrow ==
    [][\A p \in DOMAIN files \cap DOMAIN files' :
          files[p].recs \subseteq files'[p].recs]_vars

\* manager.go:146 "the returned path is guaranteed to match the segment the
\* entry was actually written to": when AppendWithPath returns, that file holds it.
PathMatchesWrite ==
    [][\A w \in Writers :
          (writer[w].pc = "data" /\ writer'[w].pc = "index") =>
              /\ writer'[w].path \in DOMAIN files'
              /\ writer[w].entry \in files'[writer'[w].path].recs]_vars

\* The same without the filters: index and files agree, even when os.Rename or
\* WriteBloom fails in the middle of a merge (compaction.go:149-162).
AckedIndexed ==
    phase = "serving" =>
        \A e \in acked : e \in Merging \/ Expired(e)
                         \/ \E p \in DOMAIN files : <<p, e>> \in idx /\ e \in Contents(p)

-----------------------------------------------------------------------------
(* What comments and documents say, checked against the code               *)

\* A stopped node starts again with what it stored: its active segment reopens
\* (manager.go:68-117) and the index rebuilds from every segment on disk
\* (main.go:60-63 gives up otherwise).
RestartSucceeds == phase = "down" => ActiveReopens /\ RebuildSucceeds

=============================================================================
