----------------------------- MODULE AsyncFile ------------------------------
(* OsclAsyncFile, the read-ahead beneath an Oscl_File opened for reading      *)
(* only. The caller's thread, which is also the scheduler's, takes bytes out  *)
(* of four buffers or reads them itself; a thread of its own fills the next   *)
(* buffer, and Run of the active object goes on from what it brought.         *)
EXTENDS Integers, Sequences, FiniteSets, SequencesExt, FiniteSetsExt

CONSTANTS
    FileSize,      \* iFileSize
    BufferSize,    \* iTotalCacheSize, the size of each buffer
    BufferCount,   \* iKCacheBufferCount, 4 in the code
    ReadSize,      \* iKAsyncReadBufferSize, what the thread reads at a time
    ElementSizes,  \* sizes of an element the caller reads
    MaxElements,   \* bound on the elements of one call
    Targets,       \* positions it seeks to
    Faults,        \* the native calls that may fail
    NDebug         \* a release build, in which OSCL_ASSERT is nothing

ASSUME AsyncAssumption ==
    /\ FileSize \in Nat /\ MaxElements \in Nat /\ BufferCount \in Nat /\ BufferCount >= 3
    /\ ReadSize \in Nat \ {0} /\ BufferSize \in Nat /\ ReadSize <= BufferSize
    /\ ElementSizes \subseteq Nat \ {0} /\ Targets \subseteq 0 .. FileSize
    /\ NDebug \in BOOLEAN

VARIABLES
    file,          \* the object: buffers, positions, what is given to the thread
    request,       \* of the active object: idle, pending (iBusy) or ready to run
    thread,        \* the reading thread, with its semaphores and exit flag
    client,        \* the call in progress in the caller's thread
    gave           \* history: bytes the last turn gave to the caller, by position

vars == <<file, request, thread, client, gave>>

(* A byte of the file is known by its position, so that one from the wrong    *)
(* place shows; what lies past the length of a buffer is Junk.                *)
Junk      == -1
Positions == 0 .. FileSize
Slots     == 0 .. BufferSize - 1
Ids       == 0 .. BufferCount - 1
NoBuffer  == -1
MinBytesReadAhead == 3 * BufferSize

Least(a, b) == IF a < b THEN a ELSE b

Buffer ==
    [offset : Positions, length : 0 .. BufferSize, valid : BOOLEAN, inUse : BOOLEAN,
     data : [Slots -> Positions \cup {Junk}]]

File ==
    [buffers : [Ids -> Buffer],
     linked : Seq(Ids),                    \* iLinkedDataBufferArray
     filling : Ids \cup {NoBuffer},        \* iDataBufferInUse
     slot : 0 .. BufferSize,               \* iReadPtr, in the buffer it is filling
     filePosition : Positions, lastUserFileRead : Positions,
     syncFilePosition : Positions, asyncFilePosition : Positions,
     nativePosition : Positions,           \* of iNativeFile, the thread's handle
     startAsyncRead : BOOLEAN,
     issue : BOOLEAN,                      \* this step starts a read of the thread
     trouble : {"none", "assert", "wild"}] \* history: see StartNextRead

Thread ==
    [state : {"active", "notActive"},      \* iAsyncReadThreadState
     pc : {"none", "top", "wait", "woken", "read", "complete", "gone"},
     readSem : Nat, exitSem : 0 .. 1, exitFlag : BOOLEAN, numBytes : 0 .. ReadSize]

Client == [op : {"closed", "idle", "stopping"}]
          \cup [op : {"read"}, size : ElementSizes, left : Nat]

EmptyBuffer == [offset |-> 0, length |-> 0, valid |-> FALSE, inUse |-> FALSE,
                data |-> [j \in Slots |-> Junk]]
NewFile ==
    [buffers |-> [i \in Ids |-> EmptyBuffer], linked |-> <<>>, filling |-> NoBuffer,
     slot |-> 0, filePosition |-> 0, lastUserFileRead |-> 0, syncFilePosition |-> 0,
     asyncFilePosition |-> 0, nativePosition |-> 0, startAsyncRead |-> FALSE,
     issue |-> FALSE, trouble |-> "none"]
NoThread ==
    [state |-> "notActive", pc |-> "none", readSem |-> 0, exitSem |-> 0,
     exitFlag |-> FALSE, numBytes |-> 0]

Init ==
    /\ file = NewFile /\ request = "idle" /\ thread = NoThread
    /\ client = [op |-> "closed"] /\ gave = {}

(* How the native calls of one step go.                                       *)
Works(k)      == IF k \in Faults THEN BOOLEAN ELSE {TRUE}
Amounts(k, n) == IF k \in Faults THEN 0 .. n ELSE {n}
Native == [seek : Works("seek"), seekAhead : Works("seek"),
           got : Amounts("syncRead", BufferSize)]

-----------------------------------------------------------------------------
(* The buffers.                                                               *)

End(b) == b.offset + b.length

HasThisOffset(b, pos) == b.valid /\ b.offset <= pos /\ pos < End(b)

IsLinkedDataBuffer(f, i) == \E k \in DOMAIN f.linked : f.linked[k] = i

CanBeLinked(f, i) ==
    f.linked # <<>> /\ End(f.buffers[i]) = f.buffers[f.linked[1]].offset

(* The buffers an offset may be read from: FindDataBuffer takes the first.    *)
Holders(f, pos) == {i \in Ids : HasThisOffset(f.buffers[i], pos)}
Readable(f, pos) == {i \in Holders(f, pos) : IsLinkedDataBuffer(f, i) \/ CanBeLinked(f, i)}

\* mutant: the buffer may begin before it
ContinuedAnywhere(f, i, pos, n) ==
    LET holders == Holders(f, End(f.buffers[i]))
    IN  holders # {} /\ End(f.buffers[Min(holders)]) >= pos + n

(* The buffer that has the byte after buffer i must begin there.              *)
Continued(f, i, pos, n) ==
    LET holders == Holders(f, End(f.buffers[i]))
        b == f.buffers[Min(holders)]
    IN  /\ holders # {} /\ b.offset = End(f.buffers[i])
        /\ End(b) >= pos + n

FindDataBuffer(f, pos, n) ==
    /\ Readable(f, pos) # {}
    /\ LET i == Min(Readable(f, pos))
       IN  pos + n <= End(f.buffers[i]) \/ Continued(f, i, pos, n)

(* The n bytes at pos, from one buffer or joined with the first of another.   *)
Bytes(f, pos, n) ==
    LET asked  == pos .. pos + n - 1
        b      == f.buffers[Min(Readable(f, pos))]
        behind == {p \in asked : p >= End(b)}
    IN  {<<p, b.data[p - b.offset]>> : p \in asked \ behind}
        \cup {<<p, f.buffers[Min(Holders(f, End(b)))].data[p - End(b)]>> : p \in behind}

(* The first of the buffers, sorted by offset, that begins where i ends; those *)
(* of one offset stay in the order of the array.                              *)
Followers(f, i) ==
    {j \in Ids : /\ f.buffers[j].valid /\ f.buffers[j].offset = End(f.buffers[i])
                 /\ f.buffers[i].length = 0 => j > i}

(* From the buffer that was read on, each buffer that begins where the last   *)
(* one ends.                                                                  *)
ReOrderBuffersQueue(f, first) ==
    LET queue[k \in 0 .. BufferCount] ==
            IF k = 0 THEN <<first>>
            ELSE LET q == queue[k - 1]
                     next == Followers(f, Last(q))
                 IN  IF next = {} THEN q ELSE q \o <<Min(next)>>
    IN  queue[BufferCount]

(* A buffer never used, or else the lowest of those that are not linked, not  *)
(* read from and not being filled. The option that is remembered for want of  *)
(* another, one that can be linked, is never one: it is still NULL then.      *)
GetNextDataBuffer(f) ==
    LET unused == {i \in Ids : ~f.buffers[i].valid}
        free   == {i \in Ids : /\ ~f.buffers[i].inUse /\ ~IsLinkedDataBuffer(f, i)
                               /\ i # f.filling /\ ~CanBeLinked(f, i)}
        lowest == {i \in free : \A j \in free : f.buffers[i].offset <= f.buffers[j].offset}
    IN  IF unused # {} THEN Min(unused) ELSE IF free # {} THEN Min(lowest) ELSE NoBuffer

BytesReadAhead(f) ==
    IF f.linked = <<>> THEN 0 ELSE End(f.buffers[Last(f.linked)]) - f.lastUserFileRead

-----------------------------------------------------------------------------
(* Starting a read of the thread.                                             *)

(* A place without room for what the thread reads is outside of the buffer.   *)
Place(f, slot) ==
    IF slot + ReadSize <= BufferSize THEN [f EXCEPT !.slot = slot, !.issue = TRUE]
    ELSE [f EXCEPT !.trouble = "wild"]

(* The next buffer, linked and empty, is the one to fill.                     *)
FillNew(f, pos) ==
    LET i == GetNextDataBuffer(f)
    IN  Place([f EXCEPT !.linked = @ \o <<i>>, !.filling = i,
                        !.buffers[i] = [EmptyBuffer EXCEPT !.offset = pos, !.valid = TRUE,
                                                           !.inUse = f.buffers[i].inUse]], 0)

RoomLeft(f) ==
    LET b == f.buffers[f.filling]
    IN  End(b) # f.asyncFilePosition \/ BufferSize - b.length >= ReadSize

(* Read on where the thread stopped. Before the first read iDataBufferInUse   *)
(* is not set; what follows is undefined there too ("wild").                  *)
ReadOn(f, pos) ==
    IF f.filling = NoBuffer THEN [f EXCEPT !.trouble = "wild"]
    ELSE IF RoomLeft(f) THEN Place(f, f.buffers[f.filling].length)
    ELSE IF GetNextDataBuffer(f) = NoBuffer THEN f
    ELSE FillNew(f, pos)

(* Read on where the caller's own read stopped: the positions are swapped.    *)
ReadOnFromSync(f, pos, works) ==
    LET swapped == [f EXCEPT !.nativePosition = pos, !.asyncFilePosition = pos,
                             !.syncFilePosition = f.asyncFilePosition]
    IN  IF ~works THEN f
        ELSE IF GetNextDataBuffer(swapped) = NoBuffer THEN [swapped EXCEPT !.trouble = "assert"]
        ELSE FillNew(swapped, pos)

(* "This case should never happen.. check it out": OSCL_ASSERT(0), nothing    *)
(* in a release build.                                                        *)
StartNextRead(f, pos, works) ==
    IF pos = f.asyncFilePosition THEN ReadOn(f, pos)
    ELSE IF pos = f.syncFilePosition THEN ReadOnFromSync(f, pos, works)
    ELSE [f EXCEPT !.trouble = "assert"]

ReadAhead(f, pos, works) ==
    LET ahead == BytesReadAhead(f)
    IN  IF ahead >= MinBytesReadAhead \/ pos + ahead = FileSize THEN f
        ELSE StartNextRead(f, pos + ahead, works)

(* StartNonNativeAsyncRead: the object is activated and the thread woken.     *)
Issued(f) ==
    IF f.issue THEN "pending" ELSE request
Woken(f) ==
    IF f.issue THEN [thread EXCEPT !.readSem = @ + 1] ELSE thread

-----------------------------------------------------------------------------
(* The caller's thread.                                                       *)

(* OpenFileCacheOrAsyncBuffer makes a new object, and Open of it opens the    *)
(* second handle and launches the thread.                                     *)
Open ==
    /\ client.op = "closed" /\ thread.state = "notActive"
    /\ \E opened \in Works("open"), launched \in Works("thread") :
          /\ thread' = IF launched THEN [NoThread EXCEPT !.state = "active", !.pc = "top"]
                       ELSE NoThread
          /\ file' = [NewFile EXCEPT !.startAsyncRead = opened /\ launched]
          /\ client' = [op |-> IF opened /\ launched THEN "idle" ELSE "closed"]
    /\ request' = "idle" /\ gave' = {}

\* mutant: the thread is not woken
StopUnsignalled ==
    /\ thread' = [thread EXCEPT !.exitFlag = TRUE]
    /\ client' = [op |-> "stopping"] /\ gave' = {} /\ UNCHANGED request

(* StopAsyncReadThread: told to exit and woken, then waited for. Close does   *)
(* it, and so does the destructor after an Open that failed.                  *)
StopAsyncReadThread ==
    /\ thread' = [thread EXCEPT !.exitFlag = TRUE, !.readSem = @ + 1]
    /\ client' = [op |-> "stopping"] /\ gave' = {} /\ UNCHANGED request

Close ==
    /\ client.op = "idle"
    /\ file' = [file EXCEPT !.startAsyncRead = FALSE]
    /\ StopAsyncReadThread

Discard ==
    /\ client.op = "closed" /\ thread.state = "active"
    /\ StopAsyncReadThread /\ UNCHANGED file

Stopped ==
    /\ client.op = "stopping" /\ thread.exitSem > 0
    /\ thread' = NoThread /\ file' = NewFile
    /\ client' = [op |-> "closed"] /\ gave' = {} /\ UNCHANGED request

Seek(pos) ==
    /\ client.op = "idle"
    /\ file' = [file EXCEPT !.filePosition = pos]
    /\ gave' = {} /\ UNCHANGED <<request, thread, client>>

Read(size, n) ==
    /\ client.op = "idle"
    /\ client' = [op |-> "read", size |-> size, left |-> size * n]
    /\ gave' = {} /\ UNCHANGED <<file, request, thread>>

(* The caller reads a whole buffer itself, at its position.                   *)
SyncRead(f, got) ==
    LET pos   == f.filePosition
        reset == [f EXCEPT !.linked = <<>>]
        i     == GetNextDataBuffer(reset)
        k     == Least(got, FileSize - pos)
    IN  [reset EXCEPT
           !.buffers[i] = [offset |-> pos, length |-> k, valid |-> TRUE, inUse |-> TRUE,
                           data |-> [j \in Slots |-> IF j < k THEN pos + j ELSE Junk]],
           !.syncFilePosition = pos + k,
           !.linked = <<i>>]

Found(f, n) ==
    LET i == Min(Readable(f, f.filePosition))
    IN  [f EXCEPT !.buffers[i].inUse = f.filePosition + n <= End(f.buffers[i]),
                  !.linked = ReOrderBuffersQueue(f, i)]

\* mutant: the thread's request is not looked at
AdvanceAlways(f, got, works) ==
    LET moved == [f EXCEPT !.filePosition = @ + got, !.lastUserFileRead = f.filePosition + got]
    IN  IF f.startAsyncRead THEN ReadAhead(moved, moved.filePosition, works) ELSE moved

(* The end of doRead: the position moves, and the thread goes on reading      *)
(* unless it still has a request.                                             *)
Advance(f, got, works) ==
    LET moved == [f EXCEPT !.filePosition = @ + got, !.lastUserFileRead = f.filePosition + got]
    IN  IF f.startAsyncRead /\ request = "idle"
        THEN ReadAhead(moved, moved.filePosition, works) ELSE moved

(* A turn of the loop of Read, with doRead.                                   *)
ReadTurn ==
    /\ client.op = "read" /\ client.left > 0
    /\ LET n    == (Least(client.left, BufferSize) \div client.size) * client.size
           f    == [file EXCEPT !.buffers = [i \in Ids |-> [@[i] EXCEPT !.inUse = FALSE]],
                                !.issue = FALSE]
           pos  == f.filePosition
       IN  \E native \in Native :
             LET hit   == FindDataBuffer(f, pos, n)
                 read  == SyncRead(f, native.got)
                 got   == IF hit THEN n
                          ELSE IF native.seek THEN Least(n, read.syncFilePosition - pos) ELSE 0
                 after == IF hit THEN Advance(Found(f, n), n, native.seekAhead)
                          ELSE IF native.seek THEN Advance(read, got, native.seekAhead)
                          ELSE f
             IN  /\ file' = [after EXCEPT !.issue = FALSE]
                 /\ request' = Issued(after) /\ thread' = Woken(after)
                 /\ client' = IF got = 0 THEN [op |-> "idle"] ELSE [client EXCEPT !.left = @ - got]
                 /\ gave' = Bytes(IF hit THEN f ELSE read, pos, got)

ReadReturns ==
    /\ client.op = "read" /\ client.left = 0
    /\ client' = [op |-> "idle"]
    /\ gave' = {} /\ UNCHANGED <<file, request, thread>>

(* Run, when the scheduler has the caller's thread: what the thread brought   *)
(* is counted, and the next read started. A Run after the thread stopped does *)
(* nothing.                                                                   *)
Run ==
    /\ request = "ready" /\ client.op \in {"idle", "closed"}
    /\ \E works \in Works("seek") :
          LET k == thread.numBytes
              counted == [file EXCEPT !.buffers[file.filling].length = @ + k,
                                      !.asyncFilePosition = @ + k]
              after == IF thread.state = "active"
                       THEN ReadAhead(counted, counted.lastUserFileRead, works) ELSE file
          IN  /\ file' = [after EXCEPT !.issue = FALSE]
              /\ request' = IF after.issue THEN "pending" ELSE "idle"
              /\ thread' = Woken(after)
    /\ gave' = {} /\ UNCHANGED client

-----------------------------------------------------------------------------
(* The reading thread, InThread.                                              *)

ThreadStep(pc, new) ==
    /\ thread.pc = pc /\ thread' = [thread EXCEPT !.pc = new] /\ UNCHANGED <<file, request>>

ThreadTop   == ThreadStep("top", IF thread.exitFlag THEN "gone" ELSE "wait")

ThreadWakes ==
    /\ thread.pc = "wait" /\ thread.readSem > 0
    /\ thread' = [thread EXCEPT !.pc = "woken", !.readSem = @ - 1]
    /\ UNCHANGED <<file, request>>

ThreadChecks == ThreadStep("woken", IF thread.exitFlag THEN "gone" ELSE "read")

ThreadReads ==
    /\ thread.pc = "read"
    /\ \E got \in Amounts("read", ReadSize) :
          LET k == Least(got, FileSize - file.nativePosition)
          IN  /\ file' = [file EXCEPT
                     !.buffers[file.filling].data =
                         [j \in Slots |-> IF file.slot <= j /\ j < file.slot + k
                                          THEN file.nativePosition + (j - file.slot) ELSE @[j]],
                     !.nativePosition = @ + k]
              /\ thread' = [thread EXCEPT !.pc = "complete", !.numBytes = k]
    /\ UNCHANGED request

ThreadCompletes ==
    /\ thread.pc = "complete"
    /\ request' = IF request = "pending" THEN "ready" ELSE request
    /\ thread' = [thread EXCEPT !.pc = "top"] /\ UNCHANGED file

(* Out of the loop: the flag is reset, and who waits is told.                 *)
ThreadLeaves ==
    /\ thread.pc = "gone" /\ thread.exitSem = 0
    /\ thread' = [thread EXCEPT !.exitFlag = FALSE, !.exitSem = 1]
    /\ UNCHANGED <<file, request>>

-----------------------------------------------------------------------------
ThreadNext ==
    /\ ThreadTop \/ ThreadWakes \/ ThreadChecks \/ ThreadReads \/ ThreadCompletes
       \/ ThreadLeaves
    /\ gave' = {} /\ UNCHANGED client

CallerNext ==
    \/ Open \/ Close \/ Discard \/ Stopped
    \/ \E pos \in Targets : Seek(pos)
    \/ \E size \in ElementSizes, n \in 1 .. MaxElements : Read(size, n)
    \/ ReadTurn \/ ReadReturns \/ Run

(* An assertion that fails ends the process, in a debug build.                *)
Ended == file.trouble = "wild" \/ (file.trouble = "assert" /\ ~NDebug)

Next == ~Ended /\ (ThreadNext \/ CallerNext)

(* The reading thread goes on, and so does who is told that it exits; nothing *)
(* makes the caller call.                                                     *)
Spec == Init /\ [][Next]_vars
        /\ WF_vars(~Ended /\ ThreadNext) /\ WF_vars(~Ended /\ Stopped)

-----------------------------------------------------------------------------
(* Properties.                                                                *)

TypeOK ==
    /\ file \in File /\ request \in {"idle", "pending", "ready"}
    /\ thread \in Thread /\ client \in Client

IsOpen == client.op \in {"idle", "read"}

(* The thread reads without a lock into a buffer the caller reads from: while *)
(* it has a request, what it will read goes right behind what the buffer has, *)
(* within it, and is the continuation of it in the file, whatever the caller  *)
(* reads and seeks in the meantime.                                           *)
ThreadHasItsPlace ==
    /\ file.trouble # "wild"
    /\ request = "pending" /\ IsOpen =>
        LET b == file.buffers[file.filling]
        IN  /\ file.filling # NoBuffer /\ b.valid /\ file.slot = b.length
            /\ End(b) = file.asyncFilePosition
            /\ thread.pc # "complete" => file.nativePosition = End(b)

(* All is of its type, lengths within the buffers, and the thread in place.   *)
WellPlaced == TypeOK /\ ThreadHasItsPlace

StoredFile ==
    INSTANCE StoredFile WITH
        Byte <- 0 .. FileSize, MaxSize <- FileSize, isOpen <- IsOpen,
        bytes <- [i \in 0 .. FileSize - 1 |-> i], length <- FileSize,
        stored <- [i \in 0 .. FileSize - 1 |-> i], storedLength <- FileSize,
        pos <- IF IsOpen THEN file.filePosition ELSE 0, gave <- gave,
        failed <- FALSE

(* Each call is that call of the plain file.                                  *)
ActsAsCalled ==
    /\ Open => StoredFile!Open(FALSE)
    /\ Close => StoredFile!Close
    /\ \A pos \in Targets : Seek(pos) => StoredFile!Seek(pos)
    /\ ReadTurn => StoredFile!Take(file'.filePosition - file.filePosition)

(* Until an assertion fails, the caller sees the plain file: a read gives the *)
(* bytes at its position, from whichever buffers, and moves it past them; a   *)
(* seek goes to its target; and no step of the thread or of Run shows.        *)
IsStoredFile == StoredFile!Spec /\ [][ActsAsCalled]_vars

(* Close ends, wherever the thread is as it is told to exit: it never waits   *)
(* for a signal that is gone, and it is waited for only when it runs.         *)
CloseReturns == client.op = "stopping" ~> client.op = "closed" \/ Ended

(* "verify the data", OSCL_ASSERT(0) if a byte given to the caller is not the *)
(* one the file has there: in a release build, where the assertion before it  *)
(* is nothing.                                                                *)
GivesFile == \A g \in gave : g[1] = g[2]
==============================================================================
