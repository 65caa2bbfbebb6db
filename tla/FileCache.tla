----------------------------- MODULE FileCache ------------------------------
(* OsclFileCache, the read and write cache of Oscl_File, over the native      *)
(* file (a FILE* of the C library). One thread uses the file; a call of Read  *)
(* or Write is a step for each turn of its loop, the other calls are a step.  *)
EXTENDS Integers, FiniteSets

CONSTANTS
    Byte,          \* values of a byte
    Junk,          \* what memory from malloc holds
    MaxSize,       \* room for a file, in bytes: bounds every position
    CacheSize,     \* iPVCacheSize, the size of the cache's buffer
    Modes,         \* modes the caller opens files in
    ElementSizes,  \* sizes of an element it reads or writes
    MaxElements,   \* bound on the elements of one call
    Contents,      \* what the file may hold at first
    Faults,        \* the native calls that may fail
    ReadAhead      \* the C library leaves its read-ahead in place when a write
                   \* directly follows a read

ASSUME SizesAssumption ==
    /\ MaxSize \in Nat /\ CacheSize \in Nat \ {0} /\ MaxElements \in Nat
    /\ ElementSizes \subseteq Nat \ {0}
ASSUME BytesAssumption == Junk \in Byte /\ Contents \subseteq [0 .. MaxSize - 1 -> Byte]
ASSUME ModesAssumption == Modes \subseteq {"read", "append", "readwrite", "readplus"}
ASSUME ReadAheadAssumption == ReadAhead \in BOOLEAN

VARIABLES
    cache,         \* the cache with the native file beneath it
    call,          \* the call of Read or Write in progress
    gave           \* history: bytes the last step gave to the reader, by position

vars == <<cache, call, gave>>

Least(a, b) == IF a < b THEN a ELSE b
Positions   == 0 .. MaxSize - 1
Slots       == 0 .. CacheSize - 1

Cache ==
    [isOpen : BOOLEAN, mode : Modes \cup {"none"}, buffer : [Slots -> Byte],
     cacheFilePosition : Int, currentCachePos : Nat, endCachePos : Nat,
     cacheUpdateStart : Nat, cacheUpdateEnd : Nat,
     fileSize : Int, nativePosition : Int,
     file : [Positions -> Byte], size : 0 .. MaxSize, filePos : Nat,
     lastRead : BOOLEAN,     \* the last native call was a read, not at the end
     err : {0, -1},          \* what the last helper returned
     lost : BOOLEAN]         \* history: a native write of the last step fell short

(* How the native calls of one step go: a seek works, or the size query, and  *)
(* a write or a read moves that many bytes at most.                           *)
Works(k)   == IF k \in Faults THEN BOOLEAN ELSE {TRUE}
Amounts(k) == IF k \in Faults THEN 0 .. CacheSize ELSE {CacheSize}
Native ==
    [seek : Works("seek"), seekToWrite : Works("seek"),
     size : Works("size"), wrote : Amounts("write"), got : Amounts("read"),
     ahead : {FALSE, ReadAhead}]

Returns(s, e) == [s EXCEPT !.err = e]

Tell(s) == s.cacheFilePosition + s.currentCachePos

Dirty(s) == s.cacheUpdateEnd > s.cacheUpdateStart

-----------------------------------------------------------------------------
(* The native file.                                                           *)

NativeSeek(s, pos) == [s EXCEPT !.filePos = pos, !.lastRead = FALSE]

(* A write in append mode goes to the end. One that directly follows a read   *)
(* is undefined in C: it may land where the read-ahead of the buffer stopped. *)
WritePlace(s, f) ==
    IF s.mode = "append" \/ (s.lastRead /\ f.ahead) THEN s.size ELSE s.filePos

NativeWrite(s, f, from, n) ==
    LET at == WritePlace(s, f)
        k  == Least(f.wrote, n)
    IN  [s EXCEPT
           !.file    = [i \in Positions |->
                           IF at <= i /\ i < at + k THEN s.buffer[from + (i - at)]
                           ELSE s.file[i]],
           !.size    = IF k > 0 /\ at + k > s.size THEN at + k ELSE s.size,
           !.filePos = at + k,
           !.lastRead = FALSE,
           !.lost = k < n]

NativeRead(s, f) ==
    LET there == IF s.filePos < s.size THEN s.size - s.filePos ELSE 0
        k == Least(Least(f.got, CacheSize), there)
    IN  [s EXCEPT
           !.buffer = [j \in Slots |-> IF j < k THEN s.file[s.filePos + j] ELSE s.buffer[j]],
           !.filePos = s.filePos + k,
           !.lastRead = k = CacheSize,
           !.endCachePos = k]

NativeSize(s, f) == IF f.size THEN s.size ELSE -1

-----------------------------------------------------------------------------
(* The helpers of the cache.                                                  *)

(* The reset that ends SetCachePosition.                                      *)
Relocate(s, pos) ==
    [s EXCEPT !.cacheFilePosition = pos, !.currentCachePos = 0, !.endCachePos = 0,
              !.cacheUpdateStart = 0, !.cacheUpdateEnd = 0, !.err = 0]

\* mutant: the cache is kept as it is
RecoverSizeOnly(s, f) ==
    [s EXCEPT !.fileSize = NativeSize(s, f), !.nativePosition = s.filePos, !.err = -1]

(* After a short write: the true size and position, and an empty cache.       *)
Recover(s, f) ==
    LET there  == [s EXCEPT !.fileSize = NativeSize(s, f), !.nativePosition = s.filePos,
                            !.lastRead = FALSE]
        newpos == IF Tell(s) > there.fileSize THEN there.fileSize ELSE Tell(s)
    IN  Returns(Relocate(there, newpos), -1)

WriteCacheToFile(s, f) ==
    LET pos   == s.cacheFilePosition + s.cacheUpdateStart
        n     == s.cacheUpdateEnd - s.cacheUpdateStart
        seeks == s.nativePosition # pos /\ s.mode # "append"
        ready == [(IF seeks THEN NativeSeek(s, pos) ELSE s) EXCEPT !.nativePosition = pos]
        wrote == NativeWrite(ready, f, s.cacheUpdateStart, n)
        after == [wrote EXCEPT !.nativePosition = pos + Least(f.wrote, n),
                               !.cacheUpdateStart = 0, !.cacheUpdateEnd = 0]
    IN  IF seeks /\ ~f.seekToWrite THEN Returns(s, -1)
        ELSE IF wrote.lost THEN Recover(after, f)
        ELSE Returns(after, 0)

SetCachePosition(s, f, pos) ==
    LET flushed == IF Dirty(s) THEN WriteCacheToFile(s, f) ELSE Returns(s, 0)
    IN  IF flushed.err # 0 THEN flushed ELSE Relocate(flushed, pos)

\* mutant: the bytes read are not counted
AtReadStart(s, pos) == [s EXCEPT !.nativePosition = pos]

AfterRead(s, pos) == [s EXCEPT !.nativePosition = pos + s.endCachePos]

FillCacheFromFile(s, f) ==
    LET newpos == Tell(s)
        moved  == IF s.cacheFilePosition # newpos \/ Dirty(s)
                  THEN SetCachePosition(s, f, newpos) ELSE Returns(s, 0)
        seeks  == moved.nativePosition # newpos
        ready  == [(IF seeks THEN NativeSeek(moved, newpos) ELSE moved)
                      EXCEPT !.nativePosition = newpos]
    IN  IF moved.err # 0 THEN moved
        ELSE IF seeks /\ ~f.seek THEN Returns(moved, -1)
        ELSE AfterRead(NativeRead(ready, f), newpos)

-----------------------------------------------------------------------------
(* Oscl_File: what the caller does.                                           *)

Idle == [op |-> "idle"]
Calls ==
    [op : {"idle"}]
    \cup [op : {"read", "done"}, size : ElementSizes, want : 1 .. MaxElements,
          left : Nat, here : Int, ok : BOOLEAN]
    \cup [op : {"write"}, size : ElementSizes, left : Nat, byte : Byte]

Free   == call.op \in {"idle", "done"}
Usable == cache.isOpen /\ Free

Init ==
    /\ cache \in [isOpen : {FALSE}, mode : {"none"}, buffer : {[j \in Slots |-> Junk]},
                  cacheFilePosition : {0}, currentCachePos : {0}, endCachePos : {0},
                  cacheUpdateStart : {0}, cacheUpdateEnd : {0}, fileSize : {0},
                  nativePosition : {0}, file : Contents, size : 0 .. MaxSize,
                  filePos : {0}, lastRead : {FALSE}, err : {0}, lost : {FALSE}]
    /\ call = Idle /\ gave = {}

(* fopen: "w+" empties the file; "a+" may start at either end.                *)
NativeOpen(m, at) ==
    [cache EXCEPT !.mode = m, !.size = IF m = "readwrite" THEN 0 ELSE cache.size,
                  !.filePos = at, !.lastRead = FALSE, !.err = 0, !.lost = FALSE]
OpenPlaces(m) == IF m = "append" THEN {0, cache.size} ELSE {0}

(* The cache object outlives a close: Open empties it as it is.               *)
CacheOpen(s, f) ==
    LET fresh   == [s EXCEPT !.buffer = [j \in Slots |-> Junk]]
        emptied == SetCachePosition(fresh, f, 0)
    IN  [emptied EXCEPT !.isOpen = TRUE, !.err = 0,
                        !.fileSize = NativeSize(emptied, f),
                        !.nativePosition = emptied.filePos, !.lastRead = FALSE]

Open ==
    /\ ~cache.isOpen
    /\ \E m \in Modes : \E at \in OpenPlaces(m), f \in Native :
          cache' = CacheOpen(NativeOpen(m, at), f)
    /\ call' = Idle /\ gave' = {}

(* malloc of the buffer fails: Open returns an error, the native file stays   *)
(* open beneath an object that says it is closed.                             *)
OpenWithoutMemory ==
    /\ "memory" \in Faults /\ ~cache.isOpen
    /\ \E m \in Modes : \E at \in OpenPlaces(m) : cache' = NativeOpen(m, at)
    /\ call' = Idle /\ gave' = {}

\* mutant: the buffer is freed with what it has for the file
CacheDrop(s, f) == [s EXCEPT !.buffer = [j \in Slots |-> Junk]]

(* What the flush returns is dropped.                                         *)
CacheClose(s, f) ==
    [SetCachePosition(s, f, 0) EXCEPT !.buffer = [j \in Slots |-> Junk]]

Close ==
    /\ Usable
    /\ \E f \in Native :
          cache' = [CacheClose([cache EXCEPT !.lost = FALSE], f) EXCEPT !.isOpen = FALSE]
    /\ call' = Idle /\ gave' = {}

InCache(s, pos) ==
    s.cacheFilePosition <= pos /\ pos <= s.cacheFilePosition + s.endCachePos

(* An offset from any of the three origins comes down to a position.          *)
Seek(pos) ==
    /\ Usable
    /\ LET s == [cache EXCEPT !.lost = FALSE]
       IN  \/ (pos < 0 \/ pos > s.fileSize) /\ cache' = Returns(s, -1)
           \/ /\ 0 <= pos /\ pos <= s.fileSize /\ InCache(s, pos)
              /\ cache' = [s EXCEPT !.currentCachePos = pos - s.cacheFilePosition, !.err = 0]
           \/ /\ 0 <= pos /\ pos <= s.fileSize /\ ~InCache(s, pos)
              /\ \E f \in Native :
                    cache' = IF f.seek
                             THEN SetCachePosition([NativeSeek(s, pos) EXCEPT
                                                       !.nativePosition = pos], f, pos)
                             ELSE Returns(s, -1)
    /\ call' = Idle /\ gave' = {}

Flush ==
    /\ Usable
    /\ \E f \in Native, works \in Works("flush") :
          LET s       == [cache EXCEPT !.lost = FALSE]
              written == WriteCacheToFile(s, f)
          IN  cache' = IF ~Dirty(s) THEN Returns(s, 0)
                       ELSE IF written.err # 0 THEN written
                       ELSE [written EXCEPT !.nativePosition = written.filePos,
                                            !.err = IF works THEN 0 ELSE -1]
    /\ call' = Idle /\ gave' = {}

-----------------------------------------------------------------------------
(* Read: its loop takes what the cache has and refills it when it is used up. *)

Left(s) == s.fileSize - Tell(s)

Read(size, n) ==
    /\ Usable
    /\ cache' = [cache EXCEPT !.err = 0, !.lost = FALSE]
    /\ call' = [op |-> "read", size |-> size, want |-> n, left |-> n * size,
                here |-> Left(cache), ok |-> TRUE]
    /\ gave' = {}

(* Less than an element left, as an unsigned number.                          *)
TooLittle(s, size) == 0 <= Left(s) /\ Left(s) < size

Reading == call.op = "read" /\ call.left > 0 /\ ~TooLittle(cache, call.size)

ReadFromCache ==
    /\ Reading /\ cache.endCachePos > cache.currentCachePos
    /\ LET k == Least(cache.endCachePos - cache.currentCachePos, call.left)
       IN  /\ cache' = [cache EXCEPT !.currentCachePos = @ + k, !.lost = FALSE]
           /\ call'  = [call EXCEPT !.left = @ - k]
           /\ gave'  = {<<Tell(cache) + j, cache.buffer[cache.currentCachePos + j]>> :
                            j \in 0 .. k - 1}

NothingMore(s) == s.err # 0 \/ s.endCachePos = s.currentCachePos

ReadFill ==
    /\ Reading /\ cache.endCachePos = cache.currentCachePos
    /\ \E f \in Native :
          LET filled == FillCacheFromFile([cache EXCEPT !.lost = FALSE], f)
          IN  /\ cache' = filled
              /\ call' = IF NothingMore(filled)
                         THEN [call EXCEPT !.op = "done", !.ok = FALSE] ELSE call
    /\ gave' = {}

ReadReturns ==
    /\ call.op = "read" /\ ~Reading
    /\ call'  = [call EXCEPT !.op = "done"]
    /\ cache' = [cache EXCEPT !.lost = FALSE] /\ gave' = {}

-----------------------------------------------------------------------------
(* Write: its loop fills the buffer and flushes it when it is full.           *)

MayWrite(s) == s.mode \in {"readwrite", "append", "readplus"}

(* In append mode the cache is first moved to the end.                        *)
Write(size, n, b) ==
    LET s == [cache EXCEPT !.err = 0, !.lost = FALSE]
        appends == s.mode = "append" /\ Tell(s) # s.fileSize
    IN  /\ Usable /\ MayWrite(s)
        /\ (IF appends THEN s.fileSize ELSE Tell(s)) + size * n <= MaxSize
        /\ \E f \in Native :
              LET ready == IF appends THEN SetCachePosition(s, f, s.fileSize) ELSE s
              IN  /\ cache' = ready
                  /\ call' = IF ready.err # 0 THEN Idle
                             ELSE [op |-> "write", size |-> size, left |-> n * size,
                                   byte |-> b]
        /\ gave' = {}

Writing == call.op = "write" /\ call.left > 0

\* mutant: the end stays where it was
OldEnd(s, end) == s.endCachePos

NewEnd(s, end) == IF s.endCachePos < end THEN end ELSE s.endCachePos

(* The bytes copied widen the range that is to be written to the file.        *)
CopyToCache(s, k, b) ==
    LET here == s.currentCachePos
        end  == here + k
        last == NewEnd(s, end)
    IN  [s EXCEPT
           !.buffer = [j \in Slots |-> IF here <= j /\ j < end THEN b ELSE s.buffer[j]],
           !.cacheUpdateStart = IF Dirty(s) THEN Least(@, here) ELSE here,
           !.cacheUpdateEnd   = IF Dirty(s) /\ @ > end THEN @ ELSE end,
           !.currentCachePos = end,
           !.endCachePos = last,
           !.fileSize = IF @ < s.cacheFilePosition + last
                        THEN s.cacheFilePosition + last ELSE @]

WriteToCache ==
    /\ Writing /\ cache.currentCachePos < CacheSize
    /\ LET k == Least(CacheSize - cache.currentCachePos, call.left)
       IN  /\ cache' = CopyToCache([cache EXCEPT !.lost = FALSE], k, call.byte)
           /\ call'  = [call EXCEPT !.left = @ - k]
    /\ gave' = {}

\* mutant: the buffer is flushed and stays full
FlushOnly(s, f) == WriteCacheToFile(s, f)

MakeRoom(s, f) == SetCachePosition(s, f, Tell(s))

WriteWhenFull ==
    /\ Writing /\ cache.currentCachePos >= CacheSize
    /\ \E f \in Native :
          LET moved == MakeRoom([cache EXCEPT !.lost = FALSE], f)
          IN  cache' = moved /\ call' = IF moved.err # 0 THEN Idle ELSE call
    /\ gave' = {}

WriteReturns ==
    /\ call.op = "write" /\ call.left = 0
    /\ call'  = Idle
    /\ cache' = [cache EXCEPT !.lost = FALSE] /\ gave' = {}

-----------------------------------------------------------------------------
Turn ==
    \/ ReadFromCache \/ ReadFill \/ ReadReturns
    \/ WriteToCache \/ WriteWhenFull \/ WriteReturns

Caller ==
    \/ Open \/ OpenWithoutMemory \/ Close \/ Flush
    \/ \E pos \in -1 .. MaxSize + 1 : Seek(pos)
    \/ \E size \in ElementSizes, n \in 1 .. MaxElements :
          Read(size, n) \/ \E b \in Byte \ {Junk} : Write(size, n, b)

Next == Turn \/ Caller

(* A loop goes on running; nothing makes the caller call.                     *)
Spec == Init /\ [][Next]_vars /\ WF_vars(Turn)

-----------------------------------------------------------------------------
(* Properties.                                                                *)

TypeOK == cache \in Cache /\ call \in Calls /\ gave \subseteq Positions \X Byte

InRange(s, i) == s.cacheFilePosition + s.cacheUpdateStart <= i
                 /\ i < s.cacheFilePosition + s.cacheUpdateEnd

(* The file as the caller sees it: the native file, with the range of the     *)
(* buffer that is still to be written over it.                                *)
Visible(s) ==
    [i \in Positions |-> IF Dirty(s) /\ InRange(s, i) THEN s.buffer[i - s.cacheFilePosition]
                         ELSE s.file[i]]
VisibleLength(s) ==
    IF Dirty(s) /\ s.cacheFilePosition + s.cacheUpdateEnd > s.size
    THEN s.cacheFilePosition + s.cacheUpdateEnd ELSE s.size

(* The cursors stay in order through every loop, flush and recovery, as the   *)
(* assertions of Write demand, and the position stays in the file.            *)
CursorsInOrder ==
    /\ cache.cacheUpdateStart <= cache.cacheUpdateEnd
    /\ cache.cacheUpdateEnd <= cache.endCachePos
    /\ cache.currentCachePos <= cache.endCachePos /\ cache.endCachePos <= CacheSize
    /\ cache.isOpen => /\ 0 <= cache.cacheFilePosition
                       /\ Tell(cache) <= cache.fileSize
                       /\ cache.fileSize = VisibleLength(cache)

(* The cache is of its type and its cursors are in order.                     *)
WellFormed == TypeOK /\ CursorsInOrder

(* _nativePosition is where the native file really is, through every partial  *)
(* write, short read and recovery. No more: that a seek to where the file is  *)
(* already may be left out holds only between calls of one kind, see          *)
(* WritePlace.                                                                *)
NativePositionIsTrue == cache.isOpen => cache.nativePosition = cache.filePos

(* What the cache holds of the file and has not changed is what the file has. *)
CacheAgrees ==
    cache.isOpen =>
        \A j \in 0 .. cache.endCachePos - 1 :
            \/ cache.cacheUpdateStart <= j /\ j < cache.cacheUpdateEnd
            \/ /\ cache.cacheFilePosition + j < cache.size
               /\ cache.buffer[j] = cache.file[cache.cacheFilePosition + j]

StoredFile ==
    INSTANCE StoredFile WITH
        isOpen <- cache.isOpen,
        bytes <- Visible(cache), length <- VisibleLength(cache),
        stored <- cache.file, storedLength <- cache.size,
        pos <- IF cache.isOpen THEN Tell(cache) ELSE 0,
        failed <- cache.lost

(* Each call is that call of the plain file.                                  *)
ActsAsCalled ==
    /\ Open \/ OpenWithoutMemory => StoredFile!Open(cache'.mode = "readwrite")
    /\ Close => StoredFile!Close
    /\ Flush => StoredFile!Flush
    /\ \A pos \in -1 .. MaxSize + 1 : Seek(pos) => StoredFile!Seek(pos)
    /\ ReadFromCache => StoredFile!Take(call.left - call'.left)
    /\ WriteToCache  => StoredFile!Put(call.left - call'.left, call.byte)

(* Through all of it the caller has a plain file: bytes read are the bytes    *)
(* at the position, a write changes those and no others, a seek goes to its   *)
(* target, a flush and a close store all, and only a native write that fails  *)
(* loses anything.                                                            *)
IsStoredFile == StoredFile!Spec /\ [][ActsAsCalled]_vars

(* Read returns fewer elements than asked for only at the end of the file or  *)
(* on an error.                                                               *)
ReadsWholeElements ==
    call.op = "done" /\ call.ok =>
        (call.size * call.want - call.left) \div call.size
            = Least(call.want, call.here \div call.size)

(* No call of Read or Write loops for ever, whatever the native calls return. *)
CallsReturn == call.op \in {"read", "write"} ~> Free
==============================================================================
