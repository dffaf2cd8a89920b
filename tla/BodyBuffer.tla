------------------------------ MODULE BodyBuffer ------------------------------
(***************************************************************************)
(* The buffer of a body (internal/corazawaf/body_buffer.go): in memory up to *)
(* MemoryLimit, then in a temporary file, read by any number of readers that *)
(* connectors keep while the buffer is written and after it was reset for     *)
(* the next transaction.  Operations on the file may fail.                    *)
(***************************************************************************)
EXTENDS Integers, Sequences, SequencesExt

CONSTANTS
  Options,     \* BodyBufferOptions, with environment.HasAccessToFS
  Readers,     \* identities of readers
  MaxChunk,    \* bound: bytes of one Write or Read
  MaxOffered,  \* bound: bytes offered to Write in one transaction
  MaxEpoch     \* bound: transactions that use the buffer

ASSUME BodyBufferAssumption ==
  /\ Options \subseteq [Limit : Nat, MemoryLimit : Nat, HasAccessToFS : BOOLEAN]
  /\ {MaxChunk, MaxOffered, MaxEpoch} \subseteq Nat \ {0}

VARIABLES
  options,
  memory,     \* buffer: the bytes in memory
  writer,     \* the temporary file: its bytes, if any
  length,
  readers,    \* of a reader: is it open (br # nil), pos, and the history below
  epoch,      \* which transaction uses the buffer
  offered,    \* bytes offered to Write in this transaction
  accepted,   \* history: bytes that Write reported as written
  failed,     \* history: a file operation of Write failed in this transaction
  disk,       \* temporary files in TmpPath
  resetErrors \* how many times Reset reported an error

vars == <<options, memory, writer, length, readers, epoch, offered, accepted,
          failed, disk, resetErrors>>

\* A byte is known by its transaction and its place in the body.
Bytes == (1..MaxEpoch) \X (1..MaxOffered)
NoFile == <<<<0, 0>>>>

\* got: what Read returned so far; epoch: the transaction that opened the reader;
\* eof: the last Read returned io.EOF.
Unused == [open |-> FALSE, pos |-> 0, got |-> <<>>, epoch |-> 0, eof |-> FALSE]

Init ==
  /\ options \in Options
  /\ memory = <<>> /\ writer = NoFile /\ length = 0
  /\ readers = [r \in Readers |-> Unused]
  /\ epoch = 1 /\ offered = 0 /\ accepted = <<>> /\ failed = FALSE
  /\ disk = 0 /\ resetErrors = 0

-----------------------------------------------------------------------------
(* Write *)

BugOverLimit(n) == length > options.Limit

OverLimit(n) == length > options.Limit - n
OverMemory(n) == length + n > options.MemoryLimit

Data(n) == [i \in 1..n |-> <<epoch, offered + i>>]

Refuse(n) ==
  /\ OverLimit(n) \/ (OverMemory(n) /\ ~options.HasAccessToFS)
  /\ UNCHANGED <<memory, writer, length, accepted, failed, disk>>

BugToMemory(n) ==
  /\ ~OverLimit(n) /\ (OverMemory(n) => writer = NoFile)
  /\ length' = length + n
  /\ memory' = memory \o Data(n) /\ accepted' = accepted \o Data(n)
  /\ UNCHANGED <<writer, failed, disk>>

ToMemory(n) ==
  /\ ~OverLimit(n) /\ ~OverMemory(n)
  /\ length' = length + n
  /\ memory' = memory \o Data(n) /\ accepted' = accepted \o Data(n)
  /\ UNCHANGED <<writer, failed, disk>>

\* The file is created when the first byte does not fit in memory.
Spills(n) == ~OverLimit(n) /\ OverMemory(n) /\ options.HasAccessToFS

CreateFails(n) ==
  /\ Spills(n) /\ writer = NoFile
  /\ failed' = TRUE
  /\ UNCHANGED <<memory, writer, length, accepted, disk>>

\* The file exists from here on, with a part of the buffer that stays in memory.
DumpFails(n) ==
  /\ Spills(n) /\ writer = NoFile
  /\ \E j \in 0..(Len(memory) - 1) : writer' = SubSeq(memory, 1, j)
  /\ failed' = TRUE /\ disk' = disk + 1
  /\ UNCHANGED <<memory, length, accepted>>

BugDumped == IF writer = NoFile THEN <<>> ELSE writer

\* The content of the file before the new data: the buffer is dumped into it once.
Dumped == IF writer = NoFile THEN memory ELSE writer

\* br.length counts the data before it is written, whether or not all of it is.
ToFile(n) ==
  /\ Spills(n)
  /\ \E j \in 0..n :
       /\ writer' = Dumped \o SubSeq(Data(n), 1, j)
       /\ accepted' = IF j = n THEN accepted \o Data(n) ELSE accepted
       /\ failed' = (failed \/ j < n)
  /\ length' = length + n
  /\ memory' = IF writer = NoFile THEN <<>> ELSE memory
  /\ disk' = IF writer = NoFile THEN disk + 1 ELSE disk

Write(n) ==
  /\ offered + n <= MaxOffered
  /\ Refuse(n) \/ ToMemory(n) \/ CreateFails(n) \/ DumpFails(n) \/ ToFile(n)
  /\ offered' = offered + n
  /\ UNCHANGED <<options, readers, epoch, resetErrors>>

-----------------------------------------------------------------------------
(* Readers *)

Reader(r) ==
  /\ readers[r] = Unused
  /\ readers' = [readers EXCEPT ![r] = [Unused EXCEPT !.open = TRUE, !.epoch = epoch]]
  /\ UNCHANGED <<options, memory, writer, length, epoch, offered, accepted, failed,
                 disk, resetErrors>>

BugSource == memory

\* Where a reader reads.
Source == IF writer = NoFile THEN memory ELSE writer

\* Read returns up to n bytes; memory reports the end with no bytes, the file
\* already with the last ones.  A closed reader is at the end.  ReaderInBounds
\* shows that a reader of the memory is never behind its end, where the slice
\* expression would panic.
ReadOpen(rd, n) ==
  LET left == IF rd.pos > Len(Source) THEN 0 ELSE Len(Source) - rd.pos
      m == IF n > left THEN left ELSE n
  IN [rd EXCEPT !.pos = @ + m,
                !.got = @ \o SubSeq(Source, rd.pos + 1, rd.pos + m),
                !.eof = IF writer = NoFile THEN m = 0 ELSE m < n]

Read(r, n) ==
  /\ readers[r] # Unused
  /\ readers' = [readers EXCEPT ![r] = IF @.open THEN ReadOpen(@, n) ELSE [@ EXCEPT !.eof = TRUE]]
  /\ UNCHANGED <<options, memory, writer, length, epoch, offered, accepted, failed,
                 disk, resetErrors>>

-----------------------------------------------------------------------------
(* Reset, by Close of the transaction *)

BugClosed(rd) == rd

\* bodyBufferReader.Close
Closed(rd) == [rd EXCEPT !.open = FALSE, !.pos = 0]

BugAfterReset == writer

\* br.writer after Reset
AfterReset == NoFile

BugRemoved(ok) == 0

\* The file is removed from disk only after it was closed without an error.
Removed(ok) == IF ok /\ writer # NoFile THEN 1 ELSE 0

\* ok: neither Close of the file nor os.Remove fails.
Reset(ok) ==
  /\ epoch < MaxEpoch
  /\ ok \/ writer # NoFile
  /\ memory' = <<>> /\ length' = 0 /\ writer' = AfterReset
  /\ readers' = [r \in Readers |-> IF readers[r].open THEN Closed(readers[r]) ELSE readers[r]]
  /\ disk' = disk - Removed(ok)
  /\ resetErrors' = IF ok THEN resetErrors ELSE resetErrors + 1
  /\ epoch' = epoch + 1 /\ offered' = 0 /\ accepted' = <<>> /\ failed' = FALSE
  /\ UNCHANGED options

-----------------------------------------------------------------------------
(* Specification *)

Next ==
  \/ \E n \in 1..MaxChunk : Write(n)
  \/ \E r \in Readers : Reader(r) \/ \E n \in 1..MaxChunk : Read(r, n)
  \/ \E ok \in BOOLEAN : Reset(ok)

Spec == Init /\ [][Next]_vars

-----------------------------------------------------------------------------
(* Properties *)

\* The state is typed, and Size never exceeds the limit of the buffer.
TypeOK ==
  /\ options \in Options /\ length \in 0..options.Limit
  /\ memory \in Seq(Bytes) /\ writer \in Seq(Bytes) \cup {NoFile}
  /\ readers \in [Readers -> [open : BOOLEAN, pos : Nat, got : Seq(Bytes),
                              epoch : 0..MaxEpoch, eof : BOOLEAN]]
  /\ epoch \in 1..MaxEpoch /\ offered \in 0..MaxOffered /\ accepted \in Seq(Bytes)
  /\ failed \in BOOLEAN /\ disk \in Nat /\ resetErrors \in Nat

\* Memory holds at most MemoryLimit bytes, also after a failed dump of the buffer,
\* and Size is what is stored unless an operation on the file failed.
MemoryBounded ==
  /\ Len(memory) <= options.MemoryLimit
  /\ ~failed => length = Len(Source) /\ Source = accepted

\* A reader that was opened in this transaction has read the beginning of the
\* accepted bytes, once and in order, also if the buffer moved to the file between
\* two reads.
ReadsInOrder ==
  \A r \in Readers :
    readers[r].open /\ ~failed => IsPrefix(readers[r].got, accepted)

\* A reader never returns bytes of another transaction: what a connector kept
\* from the last one is closed by Reset, and a new reader sees no old bytes.
OwnTransactionOnly ==
  \A r \in Readers : \A i \in DOMAIN readers[r].got :
    readers[r].got[i][1] = readers[r].epoch

\* A reader of the memory is never behind the end of the buffer.
ReaderInBounds ==
  \A r \in Readers : readers[r].open /\ writer = NoFile => readers[r].pos <= Len(memory)

\* Every temporary file on disk is the one in use, or Reset reported an error.
FilesRemoved == disk = resetErrors + (IF writer = NoFile THEN 0 ELSE 1)

\* A reader that reports the end has returned all the accepted bytes.
EofAfterAll ==
  [][\A r \in Readers :
       readers[r].open /\ readers'[r] # readers[r] /\ readers'[r].open /\ readers'[r].eof /\ ~failed
         => readers'[r].got = accepted]_vars

=============================================================================
