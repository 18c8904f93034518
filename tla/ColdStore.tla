----------------------------- MODULE ColdStore ------------------------------
(***************************************************************************)
(* The Cold level of the domain memory on disk: SegmentedColdStore, for    *)
(* the keys of one class (each class has its own directory, files and      *)
(* writer).  A segment is an append-only file, here a sequence of cells:   *)
(* the first cell of a record is its header, with its key, and the others  *)
(* are its payload.  A write may stop after any cell, an fsync may fail,   *)
(* the process may die, and a cell on disk may rot.                        *)
(***************************************************************************)
EXTENDS Integers, Sequences, FiniteSets, SequencesExt

CONSTANTS
  ColdKeys,
  ColdValues,
  Length,       \* cells of a record: of each value, and of a Tombstone
  Tombstone,
  SegmentMax,   \* cold.segment_max_bytes, in cells
  Quota,        \* cold.max_disk_bytes, in cells
  MaxSegments,  \* bound: segments of the class
  MaxCells,     \* bound: cells of a file, with what failed writes leave in it
  FaultSets     \* what may go wrong in a history, each fault once (bound)

ColdFaults == {"write", "power", "rot"}

ASSUME ColdAssumption ==
  /\ Tombstone \notin ColdValues
  /\ Length \in [ColdValues \cup {Tombstone} -> Nat \ {0}]
  /\ SegmentMax \in Nat \ {0} /\ Quota \in Nat /\ MaxSegments \in Nat /\ MaxCells \in Nat
  /\ FaultSets \subseteq SUBSET ColdFaults

VARIABLES
  broken,   \* what has gone wrong
  segments, \* the files, in the order of their numbers
  index,    \* where the record of each key is
  writer,   \* the last segment and its size, once something was appended
  used,     \* bytes_on_disk
  expected, \* what a read may return: the last value acknowledged, and those
            \* of later writes that failed or died
  rotten    \* the key whose record has gone bad

coldVars == <<broken, segments, index, writer, used, expected, rotten>>

Nowhere   == [segment |-> 0, offset |-> 0, length |-> 0]
NotOpened == [segment |-> 0, size |-> 0]
Bad       == [key |-> "bad", value |-> Tombstone, part |-> 0]
Absent    == "absent"
Damaged   == "damaged"

Cells(k, v) == [i \in 1 .. Length[v] |-> [key |-> k, value |-> v, part |-> i]]

ColdInit ==
  /\ broken = {}
  /\ segments = <<>>
  /\ index = [k \in ColdKeys |-> Nowhere]
  /\ writer = NotOpened
  /\ used = 0
  /\ expected = [k \in ColdKeys |-> {Absent}]
  /\ rotten = {}

MayBreak(fault) == fault \notin broken /\ broken \cup {fault} \in FaultSets

\* A record that looks whole: a header, and as many cells as it says.  The
\* payload is not looked at.
IsRecord(file, at) ==
  at <= Len(file) /\ file[at].part = 1 /\ at + Length[file[at].value] - 1 <= Len(file)

----------------------------------------------------------------------------
(* Reading *)

\* decode_value_record: header, key, then the payload against its checksum.
Decode(cells, k) ==
  LET v == cells[1].value IN
  IF /\ cells[1].part = 1 /\ cells[1].key = k /\ v # Tombstone
     /\ Length[v] <= Len(cells)
     /\ SubSeq(cells, 1, Length[v]) = Cells(k, v)
  THEN v ELSE Damaged

\* get.
Read(k) ==
  LET at == index[k]
      end == at.offset + at.length IN
  IF at = Nowhere THEN Absent
  ELSE IF end > Len(segments[at.segment]) THEN Damaged
  ELSE Decode(SubSeq(segments[at.segment], at.offset + 1, end), k)

----------------------------------------------------------------------------
(* append_record *)

Opened ==
  IF writer # NotOpened THEN writer
  ELSE IF segments = <<>> THEN [segment |-> 1, size |-> 0]
  ELSE [segment |-> Len(segments), size |-> Len(Last(segments))]

\* The writer for a record of n cells: rolled over to a new segment when the
\* last one has no room.
WriterFor(n) ==
  IF Opened.size > 0 /\ Opened.size + n > SegmentMax
  THEN [segment |-> Opened.segment + 1, size |-> 0] ELSE Opened

\* O_APPEND: at the end of the file, wherever the writer thinks that is.
Append2(w, cells) ==
  IF w.segment > Len(segments) THEN Append(segments, cells)
                               ELSE [segments EXCEPT ![w.segment] = @ \o cells]

\* Room under the bounds of the model.
InBounds(w, n) ==
  /\ w.segment <= MaxSegments
  /\ w.segment <= Len(segments) => Len(segments[w.segment]) + n <= MaxCells

\* Written and synced: the size, the counter and then the index follow.
Appended(k, v) ==
  LET w == WriterFor(Length[v]) IN
  /\ InBounds(w, Length[v])
  /\ segments' = Append2(w, Cells(k, v))
  /\ writer' = [w EXCEPT !.size = @ + Length[v]]
  /\ used' = used + Length[v]
  /\ index' = [index EXCEPT ![k] =
                 IF v = Tombstone THEN Nowhere
                 ELSE [segment |-> w.segment, offset |-> w.size, length |-> Length[v]]]
  /\ expected' = [expected EXCEPT ![k] = {IF v = Tombstone THEN Absent ELSE v}]
  /\ UNCHANGED <<broken, rotten>>

\* A write that stops after some cells, or an fsync that fails after the last
\* one: an error, and neither the size nor the index moves.
AppendFails(k, v) ==
  LET w == WriterFor(Length[v]) IN
  /\ MayBreak("write") /\ InBounds(w, Length[v])
  /\ \E n \in 0 .. Length[v] : segments' = Append2(w, SubSeq(Cells(k, v), 1, n))
  /\ writer' = w
  /\ expected' = [expected EXCEPT ![k] = @ \cup {IF v = Tombstone THEN Absent ELSE v}]
  /\ broken' = broken \cup {"write"}
  /\ UNCHANGED <<index, used, rotten>>

InQuota(v) == used + Length[v] <= Quota

\* Over the quota, nothing changes.
ColdPut(k, v) == InQuota(v) /\ (Appended(k, v) \/ AppendFails(k, v))

\* A tombstone is written whatever the quota.
ColdRemove(k) == index[k] # Nowhere /\ (Appended(k, Tombstone) \/ AppendFails(k, Tombstone))

----------------------------------------------------------------------------
(* open_with_limit: rebuild_index *)

\* Where the records start that scan_segment goes through, from the first cell
\* as far as it understands the file; and where it stops.
Scanned(file) ==
  LET reached[at \in 1 .. Len(file) + 1] ==
        at = 1 \/ \E from \in 1 .. at - 1 :
                    reached[from] /\ IsRecord(file, from) /\ at = from + Length[file[from].value]
  IN {at \in 1 .. Len(file) + 1 : reached[at]}
Stop(file) == CHOOSE at \in Scanned(file) : \A other \in Scanned(file) : other <= at

\* Mistake: whatever cannot be read is a torn tail.
NeverCorrupt(file) == FALSE

\* tail_or_corrupt: a record after the one that cannot be read.
Corrupt(file) == \E at \in Stop(file) + 1 .. Len(file) : IsRecord(file, at)

\* salvage_segment: the records of a file, one after another, from each place
\* where one looks whole.
Kept(file) ==
  LET from[at \in 1 .. Len(file) + 1] ==
        IF at > Len(file) THEN <<>>
        ELSE IF IsRecord(file, at)
        THEN SubSeq(file, at, at + Length[file[at].value] - 1) \o from[at + Length[file[at].value]]
        ELSE from[at + 1]
  IN from[1]

\* A torn tail is cut off; a damaged file is rewritten.
Recovered(file) == IF Corrupt(file) THEN Kept(file) ELSE SubSeq(file, 1, Stop(file) - 1)

\* The last record of k over all segments decides.
Records(files, k) ==
  UNION {{<<i, at>> : at \in {at \in Scanned(files[i]) : IsRecord(files[i], at) /\ files[i][at].key = k}} :
           i \in DOMAIN files}

Located(files, k) ==
  LET all == Records(files, k)
      last == CHOOSE x \in all : \A y \in all : y[1] < x[1] \/ (y[1] = x[1] /\ y[2] <= x[2])
      v == files[last[1]][last[2]].value IN
  IF all = {} THEN Nowhere
  ELSE IF v = Tombstone THEN Nowhere
  ELSE [segment |-> last[1], offset |-> last[2] - 1, length |-> Length[v]]

\* Where the cells are, and how many: the sizes of the files, added up.
Places(files) == UNION {{i} \X DOMAIN files[i] : i \in DOMAIN files}
Sizes(files) == Cardinality(Places(files))

Reopens(files) ==
  LET recovered == [i \in DOMAIN files |-> Recovered(files[i])] IN
  /\ segments' = recovered
  /\ index' = [k \in ColdKeys |-> Located(recovered, k)]
  /\ writer' = NotOpened
  /\ used' = Sizes(recovered)

\* The process ends between two appends, and a new one opens the store.
ReopenStore == Reopens(segments) /\ UNCHANGED <<broken, expected, rotten>>

\* It dies in an append, after some cells; after a power failure a zero may
\* stand where the next cell was to be.
DiesAppending(k, v) ==
  LET w == WriterFor(Length[v]) IN
  /\ InBounds(w, Length[v])
  /\ v = Tombstone \/ InQuota(v)
  /\ v = Tombstone => index[k] # Nowhere
  /\ \E n \in 0 .. Length[v], zeros \in {<<>>, <<Bad>>} :
       /\ zeros # <<>> => MayBreak("power")
       /\ broken' = IF zeros = <<>> THEN broken ELSE broken \cup {"power"}
       /\ Reopens(Append2(w, SubSeq(Cells(k, v), 1, n) \o zeros))
       /\ expected' = [expected EXCEPT ![k] = IF n < Length[v] THEN @
                                              ELSE {IF v = Tombstone THEN Absent ELSE v}]
  /\ UNCHANGED rotten

\* A cell goes bad.
Rots ==
  /\ MayBreak("rot")
  /\ \E s \in DOMAIN segments : \E at \in DOMAIN segments[s] :
       /\ segments' = [segments EXCEPT ![s][at] = Bad]
       /\ rotten' = {segments[s][at].key}
  /\ broken' = broken \cup {"rot"}
  /\ UNCHANGED <<index, writer, used, expected>>

ColdNext ==
  \/ \E k \in ColdKeys : \/ ColdRemove(k) \/ DiesAppending(k, Tombstone)
                     \/ \E v \in ColdValues : ColdPut(k, v) \/ DiesAppending(k, v)
  \/ ReopenStore \/ Rots

ColdSpec == ColdInit /\ [][ColdNext]_coldVars

----------------------------------------------------------------------------
(* Properties *)

\* put, remove, open_with_limit: a read returns the last value acknowledged,
\* or nothing if that was a removal, through rotations, torn writes, restarts
\* and the salvage of a segment; when a cell has rotted, of every key but the
\* one whose record it was in ("registros validos antes y despues del hueco").
ColdReads == broken \subseteq {"rot"} => \A k \in ColdKeys \ rotten : Read(k) \in expected[k]

\* max_disk_bytes: what the store counts is what the files hold, after a write
\* that failed once the store is opened again; and only tombstones, or what
\* failed writes left, take it past the quota.
DiskAccounted ==
  /\ "write" \notin broken \/ writer = NotOpened => used = Sizes(segments)
  /\ "write" \notin broken =>
       used <= Quota + Cardinality({x \in Places(segments) : segments[x[1]][x[2]].value = Tombstone})

\* The store answers for its disk: what it reads and how much it uses.
ColdIsSound == ColdReads /\ DiskAccounted

=============================================================================
