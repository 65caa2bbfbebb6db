-------------------------- MODULE FileCacheProofs --------------------------
(* Proofs about FileCache, for any sizes of file, cache and elements, and any  *)
(* native reads, writes and flushes that fail: its invariants, and that it     *)
(* implements StoredFile.                                                      *)
EXTENDS FileCache, TLAPS

(* The premise: seeks and the size query do not fail, and the C library puts a *)
(* write that follows a read where the file is.                                *)
Positioned == "seek" \notin Faults /\ "size" \notin Faults /\ ReadAhead = FALSE

(* The cursors are in order and the dirty range has room in the file; in       *)
(* append mode it begins where the native file ends, so that a native write,   *)
(* which goes to the end, puts it where it belongs.                            *)
Ordered(s) ==
    /\ s \in Cache
    /\ s.cacheUpdateStart <= s.cacheUpdateEnd /\ s.cacheUpdateEnd <= s.endCachePos
    /\ s.currentCachePos <= s.endCachePos /\ s.endCachePos <= CacheSize
    /\ 0 <= s.cacheFilePosition
    /\ Dirty(s) => s.cacheFilePosition + s.cacheUpdateEnd <= MaxSize
    /\ Dirty(s) /\ s.mode = "append" => s.cacheFilePosition + s.cacheUpdateStart = s.size

(* The positions and the size the cache remembers are true.                    *)
Knows(s) ==
    /\ s.nativePosition = s.filePos
    /\ s.fileSize = VisibleLength(s)
    /\ Tell(s) <= s.fileSize

(* Unchanged bytes in the buffer are those of the native file.                 *)
Agrees(s) ==
    \A j \in 0 .. s.endCachePos - 1 :
        \/ s.cacheUpdateStart <= j /\ j < s.cacheUpdateEnd
        \/ /\ s.cacheFilePosition + j < s.size
           /\ s.buffer[j] = s.file[s.cacheFilePosition + j]

Empty(s) ==
    /\ s.currentCachePos = 0 /\ s.endCachePos = 0
    /\ s.cacheUpdateStart = 0 /\ s.cacheUpdateEnd = 0

CacheRight(s) ==
    /\ Ordered(s)
    /\ IF s.isOpen THEN Knows(s) /\ Agrees(s) ELSE Empty(s)

(* A call in progress is on an open file; what it still writes has room, and   *)
(* in append mode goes to the end.                                             *)
CallRight ==
    /\ call \in Calls
    /\ ~Free => cache.isOpen
    /\ call.op = "write" => /\ Tell(cache) + call.left <= MaxSize
                            /\ cache.mode = "append" => Tell(cache) = cache.fileSize

FileInv == CacheRight(cache) /\ CallRight /\ gave \subseteq Positions \X Byte
-----------------------------------------------------------------------------
(* The fields of a cache are of their types.                                   *)
LEMMA CacheFields ==
  ASSUME NEW s \in Cache
  PROVE  /\ s.isOpen \in BOOLEAN /\ s.mode \in Modes \cup {"none"} /\ s.buffer \in [Slots -> Byte]
         /\ s.cacheFilePosition \in Int /\ s.currentCachePos \in Nat /\ s.endCachePos \in Nat
         /\ s.cacheUpdateStart \in Nat /\ s.cacheUpdateEnd \in Nat
         /\ s.fileSize \in Int /\ s.nativePosition \in Int /\ s.file \in [Positions -> Byte]
         /\ s.size \in 0 .. MaxSize /\ s.size \in Nat /\ s.filePos \in Nat
         /\ s.lastRead \in BOOLEAN /\ s.err \in {0, -1} /\ s.lost \in BOOLEAN
         /\ MaxSize \in Nat /\ CacheSize \in Nat \ {0}
BY SizesAssumption DEF SizesAssumption, Cache

(* What the native calls of a step can be, by the premise.                     *)
LEMMA NativeFields ==
  ASSUME Positioned, NEW f \in Native
  PROVE  /\ f.seek = TRUE /\ f.seekToWrite = TRUE /\ f.size = TRUE /\ f.ahead = FALSE
         /\ f.wrote \in 0 .. CacheSize /\ f.got \in 0 .. CacheSize
         /\ "write" \notin Faults => f.wrote = CacheSize
<1>1. Works("seek") = {TRUE} /\ Works("size") = {TRUE} /\ {FALSE, ReadAhead} = {FALSE}
  BY DEF Positioned, Works
<1>2. f.seek = TRUE /\ f.seekToWrite = TRUE /\ f.size = TRUE /\ f.ahead = FALSE
      /\ f.wrote \in Amounts("write") /\ f.got \in Amounts("read")
  BY <1>1 DEF Native
<1>3. Amounts("write") \subseteq 0 .. CacheSize /\ Amounts("read") \subseteq 0 .. CacheSize
      /\ ("write" \notin Faults => Amounts("write") = {CacheSize})
  BY SizesAssumption DEF SizesAssumption, Amounts
<1> QED BY <1>2, <1>3

(* The reset of SetCachePosition.                                              *)
LEMMA Relocated ==
  ASSUME NEW s \in Cache, NEW pos \in Int, NEW t, t = Relocate(s, pos)
  PROVE  /\ t \in Cache /\ Empty(t) /\ ~Dirty(t)
         /\ t.cacheFilePosition = pos /\ Tell(t) = pos /\ t.err = 0
         /\ t.isOpen = s.isOpen /\ t.mode = s.mode /\ t.buffer = s.buffer
         /\ t.fileSize = s.fileSize /\ t.nativePosition = s.nativePosition
         /\ t.file = s.file /\ t.size = s.size /\ t.filePos = s.filePos /\ t.lost = s.lost
<1>1. t \in Cache
  BY DEF Relocate, Cache
<1>2. t.cacheFilePosition = pos /\ t.currentCachePos = 0 /\ t.endCachePos = 0
      /\ t.cacheUpdateStart = 0 /\ t.cacheUpdateEnd = 0 /\ t.err = 0
  BY DEF Relocate, Cache
<1>3. /\ t.isOpen = s.isOpen /\ t.mode = s.mode /\ t.buffer = s.buffer
      /\ t.fileSize = s.fileSize /\ t.nativePosition = s.nativePosition
      /\ t.file = s.file /\ t.size = s.size /\ t.filePos = s.filePos /\ t.lost = s.lost
  BY DEF Relocate, Cache
<1>4. Empty(t) /\ ~Dirty(t) /\ Tell(t) = pos
  BY <1>2 DEF Empty, Dirty, Tell
<1> QED BY <1>1, <1>2, <1>3, <1>4

(* The native write puts its k bytes at a place, here where the range of the   *)
(* buffer belongs.                                                             *)
RangeAt(s, f, from, n, at) ==
    /\ s \in Cache /\ from \in Nat /\ n \in Nat /\ at \in Nat
    /\ from + n <= CacheSize /\ at + n <= MaxSize
    /\ f.ahead = FALSE /\ f.wrote \in 0 .. CacheSize
    /\ IF s.mode = "append" THEN s.size = at ELSE s.filePos = at

WrittenAt(s, t, from, at, n, k) ==
    /\ t \in Cache /\ k \in 0 .. n
    /\ \A i \in Positions :
           t.file[i] = IF at <= i /\ i < at + k THEN s.buffer[from + (i - at)] ELSE s.file[i]
    /\ t.size = (IF k > 0 /\ at + k > s.size THEN at + k ELSE s.size)
    /\ t.filePos = at + k /\ t.lost = (k < n)
    /\ t.isOpen = s.isOpen /\ t.mode = s.mode /\ t.buffer = s.buffer /\ t.err = s.err
    /\ t.fileSize = s.fileSize /\ t.nativePosition = s.nativePosition
    /\ t.cacheFilePosition = s.cacheFilePosition /\ t.currentCachePos = s.currentCachePos
    /\ t.endCachePos = s.endCachePos /\ t.cacheUpdateStart = s.cacheUpdateStart
    /\ t.cacheUpdateEnd = s.cacheUpdateEnd

LEMMA NativelyWritten ==
  ASSUME NEW s, NEW f, NEW from, NEW n, NEW at, RangeAt(s, f, from, n, at)
  PROVE  WrittenAt(s, NativeWrite(s, f, from, n), from, at, n, Least(f.wrote, n))
<1> DEFINE t == NativeWrite(s, f, from, n)
           k == Least(f.wrote, n)
<1> USE CacheFields DEF RangeAt
<1> DEFINE file == [i \in Positions |->
                       IF at <= i /\ i < at + k THEN s.buffer[from + (i - at)] ELSE s.file[i]]
           size == IF k > 0 /\ at + k > s.size THEN at + k ELSE s.size
           short == k < n
<1>1. WritePlace(s, f) = at
  BY DEF WritePlace
<1>2. k \in 0 .. n
  BY DEF Least
<1>3. file \in [Positions -> Byte]
  <2>1. ASSUME NEW i \in Positions
        PROVE  (IF at <= i /\ i < at + k THEN s.buffer[from + (i - at)] ELSE s.file[i]) \in Byte
    <3>1. CASE at <= i /\ i < at + k
      <4>1. from + (i - at) \in Slots
        BY <1>2, <3>1 DEF Slots, Positions
      <4> QED BY <3>1, <4>1
    <3>2. CASE ~(at <= i /\ i < at + k)
      BY <3>2
    <3> QED BY <3>1, <3>2
  <2> QED BY <2>1
<1>4. size \in 0 .. MaxSize
  BY <1>2
<1>5. t = [s EXCEPT !.file = file, !.size = size, !.filePos = at + k, !.lastRead = FALSE,
                    !.lost = short]
  BY <1>1 DEF NativeWrite
<1>6. at + k \in Nat /\ short \in BOOLEAN
  BY <1>2
<1> HIDE DEF file, size, short, t, k
<1>7. t \in Cache
  BY <1>3, <1>4, <1>5, <1>6 DEF Cache
<1>8. t.file = file /\ t.size = size /\ t.filePos = at + k /\ t.lost = short
  BY <1>5 DEF Cache
<1>9. /\ t.isOpen = s.isOpen /\ t.mode = s.mode /\ t.buffer = s.buffer /\ t.err = s.err
      /\ t.fileSize = s.fileSize /\ t.nativePosition = s.nativePosition
      /\ t.cacheFilePosition = s.cacheFilePosition /\ t.currentCachePos = s.currentCachePos
      /\ t.endCachePos = s.endCachePos /\ t.cacheUpdateStart = s.cacheUpdateStart
      /\ t.cacheUpdateEnd = s.cacheUpdateEnd
  BY <1>5 DEF Cache
<1>10. WrittenAt(s, t, from, at, n, k)
  BY ONLY <1>2, <1>7, <1>8, <1>9 DEF file, size, short, WrittenAt
<1> QED BY <1>10 DEF t, k

(* What the caller sees, while nothing is to be written and while something is. *)
LEMMA SeenClean ==
  ASSUME NEW s \in Cache, ~Dirty(s)
  PROVE  Visible(s) = s.file /\ VisibleLength(s) = s.size
BY CacheFields DEF Visible, VisibleLength

LEMMA Cursors ==
  ASSUME NEW s \in Cache, Ordered(s)
  PROVE  /\ s.cacheFilePosition \in Nat /\ s.currentCachePos \in Nat /\ s.endCachePos \in Nat
         /\ s.cacheUpdateStart \in Nat /\ s.cacheUpdateEnd \in Nat
         /\ s.cacheUpdateStart <= s.cacheUpdateEnd /\ s.cacheUpdateEnd <= s.endCachePos
         /\ s.currentCachePos <= s.endCachePos /\ s.endCachePos <= CacheSize
         /\ Dirty(s) => s.cacheFilePosition + s.cacheUpdateEnd <= MaxSize
         /\ s.size \in Nat /\ s.size <= MaxSize /\ MaxSize \in Nat /\ CacheSize \in Nat
<1>1. /\ s.cacheFilePosition \in Int /\ s.currentCachePos \in Nat /\ s.endCachePos \in Nat
      /\ s.cacheUpdateStart \in Nat /\ s.cacheUpdateEnd \in Nat
      /\ s.size \in 0 .. MaxSize /\ MaxSize \in Nat /\ CacheSize \in Nat
  BY CacheFields
<1> QED BY ONLY <1>1, Ordered(s) DEF Ordered

LEMMA SeenType ==
  ASSUME NEW s \in Cache, Ordered(s)
  PROVE  /\ Visible(s) \in [Positions -> Byte] /\ VisibleLength(s) \in 0 .. MaxSize
         /\ s.size <= VisibleLength(s)
         /\ Dirty(s) => s.cacheFilePosition + s.cacheUpdateEnd <= VisibleLength(s)
<1>1. ASSUME NEW i \in Positions
      PROVE  (IF Dirty(s) /\ InRange(s, i) THEN s.buffer[i - s.cacheFilePosition]
              ELSE s.file[i]) \in Byte
  <2>1. CASE Dirty(s) /\ InRange(s, i)
    <3>1. i - s.cacheFilePosition \in Slots
      BY ONLY <2>1, i \in Positions, Ordered(s), s \in Cache, Cursors
         DEF InRange, Positions, Slots
    <3> QED BY <2>1, <3>1, CacheFields
  <2>2. CASE ~(Dirty(s) /\ InRange(s, i))
    BY <2>2, CacheFields
  <2> QED BY <2>1, <2>2
<1>2. Visible(s) \in [Positions -> Byte]
  BY <1>1 DEF Visible
<1>3. VisibleLength(s) \in 0 .. MaxSize /\ s.size <= VisibleLength(s)
      /\ (Dirty(s) => s.cacheFilePosition + s.cacheUpdateEnd <= VisibleLength(s))
  BY Cursors DEF VisibleLength
<1> QED BY <1>2, <1>3

(* What a native write of the dirty range that falls short leaves of the file: *)
(* each byte is what the caller saw or what the file had.                      *)
PartOf(s, t) ==
    /\ t.size \in s.size .. VisibleLength(s)
    /\ \A i \in 0 .. t.size - 1 :
          \/ i < VisibleLength(s) /\ t.file[i] = Visible(s)[i]
          \/ i < s.size /\ t.file[i] = s.file[i]

(* The file stays the same one.                                                *)
Same(s, t) == t.isOpen = s.isOpen /\ t.mode = s.mode

(* A move of the cache to pos that stored what was to be written, and one that *)
(* failed to and went to what position there is left.                          *)
Moved(s, t, pos) ==
    /\ t \in Cache /\ Empty(t) /\ Same(s, t) /\ t.err = 0 /\ t.lost = FALSE
    /\ t.cacheFilePosition = pos /\ t.nativePosition = t.filePos
    /\ t.file = Visible(s) /\ t.size = VisibleLength(s) /\ t.fileSize = s.fileSize

Lost(s, t) ==
    /\ t \in Cache /\ Empty(t) /\ Same(s, t) /\ t.err = -1 /\ t.lost = TRUE
    /\ t.cacheFilePosition = (IF Tell(s) <= t.size THEN Tell(s) ELSE t.size)
    /\ t.nativePosition = t.filePos /\ t.fileSize = t.size /\ PartOf(s, t)

(* What WriteCacheToFile may rely on.                                          *)
Writable(s) == Ordered(s) /\ s.nativePosition = s.filePos /\ s.lost = FALSE

Recoverable(s, f) == s \in Cache /\ f.size = TRUE /\ s.lost = TRUE

AfterLoss(s, t) ==
    /\ t \in Cache /\ Empty(t) /\ Same(s, t) /\ t.err = -1 /\ t.lost = TRUE
    /\ t.cacheFilePosition = (IF Tell(s) <= t.size THEN Tell(s) ELSE t.size)
    /\ t.nativePosition = t.filePos /\ t.fileSize = t.size
    /\ t.file = s.file /\ t.size = s.size

LEMMA Recovered ==
  ASSUME NEW s, NEW f, Recoverable(s, f)
  PROVE  AfterLoss(s, Recover(s, f))
<1> DEFINE t == Recover(s, f)
<1> USE DEF Recoverable
<1> USE CacheFields
<1> DEFINE there == [s EXCEPT !.fileSize = NativeSize(s, f), !.nativePosition = s.filePos,
                              !.lastRead = FALSE]
           newpos == IF Tell(s) > there.fileSize THEN there.fileSize ELSE Tell(s)
           moved == Relocate(there, newpos)
<1>1. NativeSize(s, f) = s.size /\ s.size \in Int /\ s.filePos \in Int
  BY DEF NativeSize
<1>2. there \in Cache
  BY <1>1 DEF Cache
<1>3. there.fileSize = s.size /\ there.nativePosition = s.filePos /\ there.filePos = s.filePos
      /\ there.file = s.file /\ there.size = s.size /\ there.lost = s.lost /\ Same(s, there)
  BY <1>1 DEF Cache, Same
<1>4. t = Returns(moved, -1)
  BY DEF Recover
<1> HIDE DEF there
<1>5. newpos \in Int /\ newpos = (IF Tell(s) <= s.size THEN Tell(s) ELSE s.size)
  <2>1. Tell(s) \in Int /\ s.size \in Int
    BY DEF Tell
  <2> QED BY <1>3, <2>1
<1> HIDE DEF newpos
<1>6. /\ moved \in Cache /\ Empty(moved) /\ moved.cacheFilePosition = newpos
      /\ moved.isOpen = there.isOpen /\ moved.mode = there.mode
      /\ moved.fileSize = there.fileSize /\ moved.nativePosition = there.nativePosition
      /\ moved.file = there.file /\ moved.size = there.size /\ moved.filePos = there.filePos
      /\ moved.lost = there.lost
  <2>1. moved = Relocate(there, newpos)
    OBVIOUS
  <2> HIDE DEF moved
  <2> QED BY ONLY <1>2, <1>5, <2>1, Relocated
<1> HIDE DEF moved, t
<1>7. /\ t \in Cache /\ t.err = -1 /\ t.cacheFilePosition = moved.cacheFilePosition
      /\ t.isOpen = moved.isOpen /\ t.mode = moved.mode
      /\ t.fileSize = moved.fileSize /\ t.nativePosition = moved.nativePosition
      /\ t.file = moved.file /\ t.size = moved.size /\ t.filePos = moved.filePos
      /\ t.lost = moved.lost
  BY <1>4, <1>6 DEF Returns, Cache
<1>8. Empty(t)
  BY <1>4, <1>6 DEF Returns, Cache, Empty
<1>9. Same(s, t) /\ t.lost = TRUE /\ t.nativePosition = t.filePos /\ t.fileSize = t.size
      /\ t.file = s.file /\ t.size = s.size
      /\ t.cacheFilePosition = (IF Tell(s) <= t.size THEN Tell(s) ELSE t.size)
  BY <1>3, <1>5, <1>6, <1>7 DEF Same
<1> QED BY <1>7, <1>8, <1>9 DEF AfterLoss, t

(* A flush of the dirty range stores what the caller sees and leaves the rest  *)
(* of the cache as it is; or it falls short.                                   *)
Flushed(s, t) ==
    /\ t \in Cache /\ Same(s, t) /\ t.err = 0 /\ t.lost = FALSE
    /\ t.cacheFilePosition = s.cacheFilePosition /\ t.currentCachePos = s.currentCachePos
    /\ t.endCachePos = s.endCachePos /\ t.cacheUpdateStart = 0 /\ t.cacheUpdateEnd = 0
    /\ t.buffer = s.buffer /\ t.fileSize = s.fileSize
    /\ t.nativePosition = t.filePos
    /\ t.file = Visible(s) /\ t.size = VisibleLength(s)

LEMMA CacheWritten ==
  ASSUME Positioned, NEW f \in Native, NEW s \in Cache, Writable(s), Dirty(s),
         NEW t, t = WriteCacheToFile(s, f)
  PROVE  Flushed(s, t) \/ Lost(s, t)
<1> USE CacheFields, NativeFields
<1> DEFINE pos   == s.cacheFilePosition + s.cacheUpdateStart
           n     == s.cacheUpdateEnd - s.cacheUpdateStart
           seeks == s.nativePosition # pos /\ s.mode # "append"
           ready == [(IF seeks THEN NativeSeek(s, pos) ELSE s) EXCEPT !.nativePosition = pos]
           wrote == NativeWrite(ready, f, s.cacheUpdateStart, n)
           k     == Least(f.wrote, n)
           after == [wrote EXCEPT !.nativePosition = pos + k,
                                  !.cacheUpdateStart = 0, !.cacheUpdateEnd = 0]
<1>1. pos \in Nat /\ n \in Nat /\ s.cacheUpdateStart + n <= CacheSize /\ pos + n <= MaxSize
      /\ n > 0 /\ s.cacheUpdateStart + n = s.cacheUpdateEnd
      /\ pos + n = s.cacheFilePosition + s.cacheUpdateEnd
  BY DEF Writable, Ordered, Dirty
<1>2. t = IF wrote.lost THEN Recover(after, f) ELSE Returns(after, 0)
  BY DEF WriteCacheToFile
<1>3. /\ ready \in Cache /\ Same(s, ready) /\ ready.buffer = s.buffer
      /\ ready.file = s.file /\ ready.size = s.size /\ ready.fileSize = s.fileSize
      /\ ready.cacheFilePosition = s.cacheFilePosition
      /\ ready.currentCachePos = s.currentCachePos /\ ready.endCachePos = s.endCachePos
      /\ IF ready.mode = "append" THEN ready.size = pos ELSE ready.filePos = pos
  <2>1. CASE seeks
    <3>1. ready = [NativeSeek(s, pos) EXCEPT !.nativePosition = pos]
      BY <2>1
    <3> HIDE DEF ready, pos, n, k
    <3>2. NativeSeek(s, pos) \in Cache
      BY <1>1 DEF NativeSeek, Cache
    <3>3. s.mode # "append" /\ pos \in Int
      BY <1>1, <2>1 DEF seeks
    <3> HIDE DEF seeks
    <3>4. ready = [s EXCEPT !.filePos = pos, !.lastRead = FALSE, !.nativePosition = pos]
      BY <3>1 DEF NativeSeek, Cache
    <3> QED BY <1>1, <3>3, <3>4 DEF Cache, Same
  <2>2. CASE ~seeks
    <3>1. ready = [s EXCEPT !.nativePosition = pos]
      BY <2>2
    <3>2. IF s.mode = "append" THEN s.size = pos ELSE s.filePos = pos
      BY <2>2 DEF Writable, Ordered
    <3> HIDE DEF ready, pos, n, k
    <3> QED BY <1>1, <3>1, <3>2 DEF Cache, Same
  <2> QED BY <2>1, <2>2
<1> HIDE DEF ready, seeks
<1>4. /\ wrote \in Cache /\ k \in 0 .. n
      /\ \A i \in Positions :
             wrote.file[i] = IF pos <= i /\ i < pos + k
                             THEN ready.buffer[s.cacheUpdateStart + (i - pos)] ELSE ready.file[i]
      /\ wrote.size = (IF k > 0 /\ pos + k > ready.size THEN pos + k ELSE ready.size)
      /\ wrote.filePos = pos + k /\ wrote.lost = (k < n)
      /\ Same(ready, wrote) /\ wrote.buffer = ready.buffer
      /\ wrote.fileSize = ready.fileSize
      /\ wrote.cacheFilePosition = ready.cacheFilePosition
      /\ wrote.currentCachePos = ready.currentCachePos /\ wrote.endCachePos = ready.endCachePos
  <2>1. f.ahead = FALSE /\ f.wrote \in 0 .. CacheSize /\ s.cacheUpdateStart \in Nat
    OBVIOUS
  <2> HIDE DEF pos, n
  <2>2. RangeAt(ready, f, s.cacheUpdateStart, n, pos)
    BY ONLY <1>1, <1>3, <2>1 DEF RangeAt
  <2>3. WrittenAt(ready, wrote, s.cacheUpdateStart, pos, n, k)
    BY ONLY <2>2, NativelyWritten
  <2> QED BY ONLY <2>3 DEF WrittenAt, Same
<1> HIDE DEF wrote, k
<1>5. /\ after \in Cache /\ Same(s, after) /\ after.buffer = s.buffer
      /\ after.file = wrote.file /\ after.size = wrote.size /\ after.fileSize = s.fileSize
      /\ after.filePos = pos + k /\ after.nativePosition = pos + k
      /\ after.lost = wrote.lost
      /\ after.cacheFilePosition = s.cacheFilePosition
      /\ after.currentCachePos = s.currentCachePos /\ after.endCachePos = s.endCachePos
      /\ after.cacheUpdateStart = 0 /\ after.cacheUpdateEnd = 0
  <2> DEFINE place == pos + k
  <2>1. place \in Int /\ wrote \in Cache
    BY <1>1, <1>4
  <2>2. after = [wrote EXCEPT !.nativePosition = place,
                              !.cacheUpdateStart = 0, !.cacheUpdateEnd = 0]
    OBVIOUS
  <2> HIDE DEF pos, n, after, place
  <2>3. after \in Cache
    BY ONLY <2>1, <2>2 DEF Cache
  <2>4. /\ after.isOpen = wrote.isOpen /\ after.mode = wrote.mode /\ after.buffer = wrote.buffer
        /\ after.file = wrote.file /\ after.size = wrote.size /\ after.fileSize = wrote.fileSize
        /\ after.filePos = wrote.filePos /\ after.nativePosition = place
        /\ after.lost = wrote.lost /\ after.cacheFilePosition = wrote.cacheFilePosition
        /\ after.currentCachePos = wrote.currentCachePos
        /\ after.endCachePos = wrote.endCachePos
        /\ after.cacheUpdateStart = 0 /\ after.cacheUpdateEnd = 0
    BY ONLY <2>1, <2>2 DEF Cache
  <2> QED BY <1>3, <1>4, <2>3, <2>4 DEF Same, place
<1> HIDE DEF after
<1>6. ASSUME NEW i \in Positions
      PROVE  wrote.file[i] = IF pos <= i /\ i < pos + k THEN Visible(s)[i] ELSE s.file[i]
  <2>1. CASE pos <= i /\ i < pos + k
    <3>1. InRange(s, i)
      BY <1>1, <1>4, <2>1 DEF InRange, Positions
    <3>2. Visible(s)[i] = s.buffer[i - s.cacheFilePosition]
      BY <3>1 DEF Visible
    <3>3. s.cacheUpdateStart + (i - pos) = i - s.cacheFilePosition
      BY DEF Positions
    <3>4. wrote.file[i] = ready.buffer[s.cacheUpdateStart + (i - pos)]
      BY <1>4, <2>1
    <3> QED BY <1>3, <2>1, <3>2, <3>3, <3>4
  <2>2. CASE ~(pos <= i /\ i < pos + k)
    BY <1>3, <1>4, <2>2
  <2> QED BY <2>1, <2>2
<1>7. CASE wrote.lost = FALSE
  <2>1. k = n
    BY <1>1, <1>4, <1>7
  <2>2. wrote.size = VisibleLength(s)
    BY <1>1, <1>3, <1>4, <2>1 DEF VisibleLength
  <2>3. wrote.file = Visible(s)
    <3>1. ASSUME NEW i \in Positions, ~(pos <= i /\ i < pos + k) PROVE Visible(s)[i] = s.file[i]
      <4>1. ~InRange(s, i)
        BY <1>1, <2>1, <3>1 DEF InRange, Positions
      <4> QED BY <4>1 DEF Visible
    <3>2. wrote.file \in [Positions -> Byte] /\ Visible(s) \in [Positions -> Byte]
      BY <1>4, SeenType DEF Writable
    <3> QED BY <1>6, <3>1, <3>2
  <2>4. t = Returns(after, 0)
    BY <1>2, <1>7
  <2>5. /\ t \in Cache /\ Same(s, t) /\ t.err = 0 /\ t.lost = FALSE
        /\ t.cacheFilePosition = s.cacheFilePosition /\ t.currentCachePos = s.currentCachePos
        /\ t.endCachePos = s.endCachePos /\ t.cacheUpdateStart = 0 /\ t.cacheUpdateEnd = 0
        /\ t.buffer = s.buffer /\ t.fileSize = s.fileSize /\ t.nativePosition = t.filePos
        /\ t.file = wrote.file /\ t.size = wrote.size
    <3> HIDE DEF pos, n
    <3> QED BY <1>5, <1>7, <2>4 DEF Returns, Cache, Same
  <2> QED BY <2>2, <2>3, <2>5 DEF Flushed
<1>8. CASE wrote.lost = TRUE
  <2>1. t = Recover(after, f)
    BY <1>2, <1>8
  <2>2. Tell(after) = Tell(s)
    BY <1>5 DEF Tell
  <2>3. Recoverable(after, f)
    BY <1>5, <1>8 DEF Recoverable
  <2>4. /\ t \in Cache /\ Empty(t) /\ Same(after, t) /\ t.err = -1 /\ t.lost = TRUE
        /\ t.cacheFilePosition = (IF Tell(s) <= t.size THEN Tell(s) ELSE t.size)
        /\ t.nativePosition = t.filePos /\ t.fileSize = t.size
        /\ t.file = wrote.file /\ t.size = wrote.size
    <3>1. AfterLoss(after, t)
      BY ONLY <2>1, <2>3, Recovered
    <3> QED BY ONLY <1>5, <2>2, <3>1 DEF AfterLoss
  <2>5. wrote.size \in s.size .. VisibleLength(s)
    BY <1>1, <1>3, <1>4, SeenType DEF Writable
  <2>6. ASSUME NEW i \in 0 .. wrote.size - 1
        PROVE  \/ i < VisibleLength(s) /\ wrote.file[i] = Visible(s)[i]
               \/ i < s.size /\ wrote.file[i] = s.file[i]
    <3>1. i \in Positions /\ i < VisibleLength(s)
      BY <2>5, SeenType DEF Positions, Writable
    <3>2. CASE pos <= i /\ i < pos + k
      BY <1>6, <3>1, <3>2
    <3>3. CASE ~(pos <= i /\ i < pos + k) /\ i < s.size
      BY <1>6, <3>1, <3>3
    <3>4. CASE ~(pos <= i /\ i < pos + k) /\ i >= s.size
      <4>1. ~InRange(s, i)
        BY <1>1, <1>3, <1>4, <2>6, <3>4 DEF InRange
      <4>2. Visible(s)[i] = s.file[i]
        BY <3>1, <4>1 DEF Visible
      <4> QED BY <1>6, <3>1, <3>4, <4>2
    <3> QED BY <3>1, <3>2, <3>3, <3>4 DEF Positions
  <2>7. PartOf(s, t)
    BY <2>4, <2>5, <2>6 DEF PartOf
  <2>8. Same(s, t)
    BY <1>5, <2>4 DEF Same
  <2> QED BY <2>4, <2>7, <2>8 DEF Lost
<1> QED BY <1>4, <1>7, <1>8

(* SetCachePosition moves the cache, and loses something only when there was   *)
(* something to be written.                                                    *)
LEMMA CachePositioned ==
  ASSUME Positioned, NEW f \in Native, NEW s \in Cache, Writable(s), NEW pos \in Int
  PROVE  \/ Moved(s, SetCachePosition(s, f, pos), pos)
         \/ Dirty(s) /\ Lost(s, SetCachePosition(s, f, pos))
<1> DEFINE flushed == IF Dirty(s) THEN WriteCacheToFile(s, f) ELSE Returns(s, 0)
           t == SetCachePosition(s, f, pos)
<1>1. t = IF flushed.err # 0 THEN flushed ELSE Relocate(flushed, pos)
  BY DEF SetCachePosition
<1>2. ASSUME flushed \in Cache, Same(s, flushed), flushed.err = 0, flushed.lost = FALSE,
             flushed.nativePosition = flushed.filePos, flushed.fileSize = s.fileSize,
             flushed.file = Visible(s), flushed.size = VisibleLength(s)
      PROVE  Moved(s, t, pos)
  <2>1. t = Relocate(flushed, pos)
    BY <1>1, <1>2
  <2> HIDE DEF t, flushed
  <2> QED BY <1>2, <2>1, Relocated DEF Moved, Same
<1>3. CASE Dirty(s)
  <2>1. flushed = WriteCacheToFile(s, f)
    BY <1>3
  <2> HIDE DEF flushed, t
  <2>2. Flushed(s, flushed) \/ Lost(s, flushed)
    BY <1>3, <2>1, CacheWritten
  <2>3. CASE Flushed(s, flushed)
    BY <1>2, <2>3 DEF Flushed, t
  <2>4. CASE Lost(s, flushed)
    BY <1>1, <1>3, <2>4 DEF Lost, t
  <2> QED BY <2>2, <2>3, <2>4 DEF t
<1>4. CASE ~Dirty(s)
  <2>1. flushed = [s EXCEPT !.err = 0]
    BY <1>4 DEF Returns
  <2> HIDE DEF flushed, t
  <2>2. flushed \in Cache
    BY <2>1 DEF Cache
  <2>3. Same(s, flushed) /\ flushed.err = 0 /\ flushed.lost = s.lost
        /\ flushed.nativePosition = s.nativePosition /\ flushed.filePos = s.filePos
        /\ flushed.fileSize = s.fileSize /\ flushed.file = s.file /\ flushed.size = s.size
    BY <2>1 DEF Cache, Same
  <2>4. s.file = Visible(s) /\ s.size = VisibleLength(s)
    BY <1>4, SeenClean
  <2> QED BY <1>2, <2>2, <2>3, <2>4 DEF Writable, t
<1> QED BY <1>3, <1>4

(* What the buffer has up to its end is what the caller sees there.            *)
LEMMA Shown ==
  ASSUME NEW s \in Cache, Ordered(s), Agrees(s), NEW j \in 0 .. s.endCachePos - 1
  PROVE  /\ s.cacheFilePosition + j \in Positions /\ j \in Slots
         /\ s.cacheFilePosition + j < VisibleLength(s)
         /\ Visible(s)[s.cacheFilePosition + j] = s.buffer[j]
<1> DEFINE i == s.cacheFilePosition + j
<1>0. /\ VisibleLength(s) \in 0 .. MaxSize /\ s.size <= VisibleLength(s)
      /\ Dirty(s) => s.cacheFilePosition + s.cacheUpdateEnd <= VisibleLength(s)
      /\ MaxSize \in Nat
  BY SeenType, Cursors
<1>c. /\ s.cacheFilePosition \in Nat /\ s.endCachePos \in Nat /\ s.cacheUpdateStart \in Nat
      /\ s.cacheUpdateEnd \in Nat /\ s.cacheUpdateEnd <= s.endCachePos
      /\ s.endCachePos <= CacheSize /\ CacheSize \in Nat /\ s.size \in Nat
  BY Cursors
<1> j \in Nat /\ i \in Nat /\ j \in Slots
  BY <1>c DEF Slots
<1>1. CASE s.cacheUpdateStart <= j /\ j < s.cacheUpdateEnd
  <2>1. Dirty(s) /\ InRange(s, i)
    BY <1>1, <1>c DEF Dirty, InRange
  <2>2. i \in Positions /\ j \in Slots /\ i < VisibleLength(s)
    BY <1>0, <1>1, <1>c, <2>1 DEF Positions
  <2>3. i - s.cacheFilePosition = j
    BY <1>c
  <2> QED BY <2>1, <2>2, <2>3 DEF Visible
<1>2. CASE ~(s.cacheUpdateStart <= j /\ j < s.cacheUpdateEnd)
  <2>1. i < s.size /\ s.buffer[j] = s.file[i]
    BY <1>2 DEF Agrees
  <2>2. i \in Positions /\ j \in Slots /\ i < VisibleLength(s)
    BY <1>0, <1>c, <2>1 DEF Positions
  <2>3. ~InRange(s, i)
    BY <1>2, <1>c DEF InRange
  <2> QED BY <2>1, <2>2, <2>3 DEF Visible
<1> QED BY <1>1, <1>2

(* So the end of the buffer is not past the end of the file.                   *)
LEMMA EndInFile ==
  ASSUME NEW s \in Cache, Ordered(s), Agrees(s), Knows(s)
  PROVE  /\ s.cacheFilePosition + s.endCachePos <= VisibleLength(s)
         /\ VisibleLength(s) \in 0 .. MaxSize /\ Tell(s) \in 0 .. VisibleLength(s)
<1> USE CacheFields
<1>1. VisibleLength(s) \in 0 .. MaxSize /\ MaxSize \in Nat
  BY SeenType
<1>2. CASE s.endCachePos = 0
  BY <1>1, <1>2 DEF Ordered, Knows, Tell
<1>3. CASE s.endCachePos # 0
  <2>1. s.endCachePos - 1 \in 0 .. s.endCachePos - 1
    BY <1>3
  <2>2. s.cacheFilePosition + (s.endCachePos - 1) < VisibleLength(s)
    BY <2>1, Shown
  <2> QED BY <1>1, <2>2 DEF Ordered, Knows, Tell
<1> QED BY <1>2, <1>3

(* A native read fills the buffer from its start with bytes of the file.       *)
ReadInto(s, t) ==
    /\ t \in Cache /\ t.endCachePos <= CacheSize /\ t.filePos = s.filePos + t.endCachePos
    /\ \A j \in 0 .. t.endCachePos - 1 :
           s.filePos + j < s.size /\ t.buffer[j] = s.file[s.filePos + j]
    /\ t.isOpen = s.isOpen /\ t.mode = s.mode /\ t.err = s.err /\ t.lost = s.lost
    /\ t.fileSize = s.fileSize /\ t.nativePosition = s.nativePosition
    /\ t.file = s.file /\ t.size = s.size
    /\ t.cacheFilePosition = s.cacheFilePosition /\ t.currentCachePos = s.currentCachePos
    /\ t.cacheUpdateStart = s.cacheUpdateStart /\ t.cacheUpdateEnd = s.cacheUpdateEnd

LEMMA NativelyRead ==
  ASSUME NEW s \in Cache, NEW f, f.got \in 0 .. CacheSize
  PROVE  ReadInto(s, NativeRead(s, f))
<1> USE CacheFields
<1> DEFINE there == IF s.filePos < s.size THEN s.size - s.filePos ELSE 0
           k == Least(Least(f.got, CacheSize), there)
           buffer == [j \in Slots |-> IF j < k THEN s.file[s.filePos + j] ELSE s.buffer[j]]
           all == k = CacheSize
           t == NativeRead(s, f)
<1>1. k \in Nat /\ k <= CacheSize /\ k <= there
  BY DEF Least
<1>2. ASSUME NEW j \in 0 .. k - 1
      PROVE  s.filePos + j < s.size /\ s.filePos + j \in Positions /\ j \in Slots
  BY <1>1 DEF Positions, Slots
<1> HIDE DEF k
<1>3. ASSUME NEW j \in Slots
      PROVE  (IF j < k THEN s.file[s.filePos + j] ELSE s.buffer[j]) \in Byte
  <2>1. CASE j < k
    <3>1. s.filePos + j \in Positions
      BY <1>1, <1>2, <2>1 DEF Slots
    <3> QED BY <2>1, <3>1
  <2>2. CASE ~(j < k)
    BY <2>2
  <2> QED BY <2>1, <2>2
<1>4. buffer \in [Slots -> Byte]
  BY <1>3
<1>5. t = [s EXCEPT !.buffer = buffer, !.filePos = s.filePos + k, !.lastRead = all,
                    !.endCachePos = k]
  BY DEF NativeRead, k
<1>6. s.filePos + k \in Nat /\ all \in BOOLEAN
  BY <1>1
<1>7. ASSUME NEW j \in 0 .. k - 1 PROVE buffer[j] = s.file[s.filePos + j]
  <2>1. j \in Slots /\ j < k
    BY <1>1, <1>2
  <2> QED BY <2>1
<1> HIDE DEF t, buffer, all
<1>8. t \in Cache
  BY <1>1, <1>4, <1>5, <1>6 DEF Cache
<1>9. t.buffer = buffer /\ t.filePos = s.filePos + k /\ t.endCachePos = k
  BY <1>5 DEF Cache
<1>10. /\ t.isOpen = s.isOpen /\ t.mode = s.mode /\ t.err = s.err /\ t.lost = s.lost
       /\ t.fileSize = s.fileSize /\ t.nativePosition = s.nativePosition
       /\ t.file = s.file /\ t.size = s.size
       /\ t.cacheFilePosition = s.cacheFilePosition /\ t.currentCachePos = s.currentCachePos
       /\ t.cacheUpdateStart = s.cacheUpdateStart /\ t.cacheUpdateEnd = s.cacheUpdateEnd
  BY <1>5 DEF Cache
<1>11. ReadInto(s, t)
  BY <1>1, <1>2, <1>7, <1>8, <1>9, <1>10 DEF ReadInto
<1> QED BY <1>11 DEF t

(* A refill stores what was to be written and holds bytes of the file from the *)
(* position on; or the flush before it falls short.                            *)
Filled(s, t) ==
    /\ t \in Cache /\ Same(s, t) /\ t.err = 0 /\ t.lost = FALSE
    /\ t.cacheFilePosition = Tell(s) /\ t.currentCachePos = 0 /\ t.endCachePos <= CacheSize
    /\ t.cacheUpdateStart = 0 /\ t.cacheUpdateEnd = 0
    /\ t.nativePosition = t.filePos /\ t.fileSize = s.fileSize
    /\ t.file = Visible(s) /\ t.size = VisibleLength(s) /\ Agrees(t)

LEMMA CacheFilled ==
  ASSUME Positioned, NEW f \in Native, NEW s \in Cache, Writable(s), Knows(s),
         s.endCachePos = s.currentCachePos
  PROVE  Filled(s, FillCacheFromFile(s, f)) \/ Lost(s, FillCacheFromFile(s, f))
<1> DEFINE newpos == Tell(s)
           moved == IF s.cacheFilePosition # newpos \/ Dirty(s)
                    THEN SetCachePosition(s, f, newpos) ELSE Returns(s, 0)
           seeks == moved.nativePosition # newpos
           ready == [(IF seeks THEN NativeSeek(moved, newpos) ELSE moved)
                        EXCEPT !.nativePosition = newpos]
           read == NativeRead(ready, f)
           t == FillCacheFromFile(s, f)
<1>1. f.seek = TRUE /\ f.got \in 0 .. CacheSize
  BY NativeFields
<1>2. t = IF moved.err # 0 THEN moved ELSE AfterRead(read, newpos)
  BY <1>1 DEF FillCacheFromFile
<1>3. newpos \in Nat
  BY CacheFields DEF Tell, Writable, Ordered
<1> HIDE DEF newpos, t, read
<1>4. Moved(s, moved, newpos) \/ Lost(s, moved)
  <2>1. CASE s.cacheFilePosition # newpos \/ Dirty(s)
    BY <1>3, <2>1, CachePositioned
  <2>2. CASE s.cacheFilePosition = newpos /\ ~Dirty(s)
    <3>1. moved = [s EXCEPT !.err = 0]
      BY <2>2 DEF Returns
    <3> HIDE DEF moved
    <3>2. moved \in Cache
      BY <3>1 DEF Cache
    <3>3. /\ Same(s, moved) /\ moved.err = 0 /\ moved.lost = s.lost
          /\ moved.nativePosition = s.nativePosition /\ moved.filePos = s.filePos
          /\ moved.fileSize = s.fileSize /\ moved.file = s.file /\ moved.size = s.size
          /\ moved.cacheFilePosition = s.cacheFilePosition
          /\ moved.currentCachePos = s.currentCachePos /\ moved.endCachePos = s.endCachePos
          /\ moved.cacheUpdateStart = s.cacheUpdateStart
          /\ moved.cacheUpdateEnd = s.cacheUpdateEnd
      BY <3>1 DEF Cache, Same
    <3>4. s.file = Visible(s) /\ s.size = VisibleLength(s)
      BY <2>2, SeenClean
    <3>5. s.currentCachePos = 0 /\ s.endCachePos = 0
          /\ s.cacheUpdateStart = 0 /\ s.cacheUpdateEnd = 0
      BY <2>2, CacheFields DEF newpos, Tell, Writable, Ordered
    <3> QED BY <2>2, <3>2, <3>3, <3>4, <3>5 DEF Moved, Empty, Writable
  <2> QED BY <2>1, <2>2
<1>5. CASE Lost(s, moved)
  BY <1>2, <1>5 DEF Lost, t
<1>6. CASE Moved(s, moved, newpos)
  <2>1. moved \in Cache /\ moved.err = 0 /\ moved.nativePosition = moved.filePos
    BY <1>6 DEF Moved
  <2> HIDE DEF moved
  <2>2. /\ ready \in Cache /\ ready.nativePosition = newpos /\ ready.filePos = newpos
        /\ ready.isOpen = moved.isOpen /\ ready.mode = moved.mode /\ ready.err = moved.err
        /\ ready.lost = moved.lost /\ ready.fileSize = moved.fileSize
        /\ ready.file = moved.file /\ ready.size = moved.size
        /\ ready.cacheFilePosition = moved.cacheFilePosition
        /\ ready.currentCachePos = moved.currentCachePos
        /\ ready.cacheUpdateStart = moved.cacheUpdateStart
        /\ ready.cacheUpdateEnd = moved.cacheUpdateEnd
    <3>1. CASE seeks
      <4>1. ready = [moved EXCEPT !.filePos = newpos, !.lastRead = FALSE,
                                  !.nativePosition = newpos]
        <5> DEFINE sought == NativeSeek(moved, newpos)
        <5>1. ready = [sought EXCEPT !.nativePosition = newpos]
          BY <3>1
        <5>2. sought = [moved EXCEPT !.filePos = newpos, !.lastRead = FALSE]
          BY DEF NativeSeek
        <5> HIDE DEF ready, sought, seeks
        <5> QED BY <2>1, <5>1, <5>2 DEF Cache
      <4>2. newpos \in Nat /\ newpos \in Int
        BY <1>3
      <4> HIDE DEF ready, seeks
      <4>3. ready \in Cache
        BY ONLY <2>1, <4>1, <4>2 DEF Cache
      <4> QED BY ONLY <2>1, <4>1, <4>3 DEF Cache
    <3>2. CASE ~seeks
      <4>1. ready = [moved EXCEPT !.nativePosition = newpos] /\ moved.filePos = newpos
        BY <2>1, <3>2
      <4> HIDE DEF ready
      <4> QED BY <1>3, <2>1, <4>1 DEF Cache
    <3> QED BY <3>1, <3>2
  <2> HIDE DEF ready
  <2>3. ReadInto(ready, read)
    BY <1>1, <2>2, NativelyRead DEF read
  <2> DEFINE after == newpos + read.endCachePos
  <2>4. t = [read EXCEPT !.nativePosition = after]
    BY <1>2, <2>1 DEF AfterRead
  <2>5. read \in Cache /\ after \in Int
    BY <1>3, <2>3, CacheFields DEF ReadInto
  <2>6. after = read.filePos
    BY <2>2, <2>3 DEF ReadInto
  <2> HIDE DEF after
  <2>7. t \in Cache
    BY <2>4, <2>5 DEF Cache
  <2>8. /\ t.nativePosition = after /\ t.isOpen = read.isOpen /\ t.mode = read.mode
        /\ t.err = read.err /\ t.lost = read.lost /\ t.fileSize = read.fileSize
        /\ t.file = read.file /\ t.size = read.size /\ t.filePos = read.filePos
        /\ t.cacheFilePosition = read.cacheFilePosition /\ t.buffer = read.buffer
        /\ t.currentCachePos = read.currentCachePos /\ t.endCachePos = read.endCachePos
        /\ t.cacheUpdateStart = read.cacheUpdateStart /\ t.cacheUpdateEnd = read.cacheUpdateEnd
    BY <2>4, <2>5 DEF Cache
  <2>9. /\ Same(s, t) /\ t.err = 0 /\ t.lost = FALSE /\ t.cacheFilePosition = newpos
        /\ t.currentCachePos = 0 /\ t.endCachePos <= CacheSize
        /\ t.cacheUpdateStart = 0 /\ t.cacheUpdateEnd = 0
        /\ t.nativePosition = t.filePos /\ t.fileSize = s.fileSize
        /\ t.file = Visible(s) /\ t.size = VisibleLength(s)
    BY <1>6, <2>2, <2>3, <2>6, <2>8 DEF Moved, Empty, Same, ReadInto
  <2>10. Agrees(t)
    BY <1>6, <2>2, <2>3, <2>8 DEF Agrees, Moved, ReadInto
  <2> QED BY <2>7, <2>9, <2>10 DEF Filled, t, newpos
<1> QED BY <1>4, <1>5, <1>6

(* What CopyToCache may rely on, and what it does: the k bytes at the position *)
(* become b, the file grows if they go past its end, the rest stays; bytes     *)
(* between the old range and the new one are those of the file.                *)
Copyable(s, k, b) ==
    /\ Ordered(s) /\ Knows(s) /\ Agrees(s) /\ b \in Byte /\ k \in Nat /\ k > 0
    /\ s.currentCachePos + k <= CacheSize /\ Tell(s) + k <= MaxSize
    /\ s.mode = "append" => Tell(s) = s.fileSize

Copied(s, t, k, b) ==
    /\ Ordered(t) /\ Knows(t) /\ Agrees(t) /\ Same(s, t) /\ t.lost = s.lost
    /\ t.file = s.file /\ t.size = s.size /\ Tell(t) = Tell(s) + k
    /\ s.mode = "append" => Tell(t) = t.fileSize
    /\ VisibleLength(t) = (IF Tell(s) + k > VisibleLength(s) THEN Tell(s) + k
                           ELSE VisibleLength(s))
    /\ \A i \in 0 .. VisibleLength(t) - 1 :
           Visible(t)[i] = IF Tell(s) <= i /\ i < Tell(s) + k THEN b ELSE Visible(s)[i]

LEMMA BytesCopied ==
  ASSUME NEW s \in Cache, NEW k, NEW b, Copyable(s, k, b)
  PROVE  Copied(s, CopyToCache(s, k, b), k, b)
<1> DEFINE here  == s.currentCachePos
           end   == here + k
           last  == NewEnd(s, end)
           start == IF Dirty(s) THEN Least(s.cacheUpdateStart, here) ELSE here
           stop  == IF Dirty(s) /\ s.cacheUpdateEnd > end THEN s.cacheUpdateEnd ELSE end
           grown == IF s.fileSize < s.cacheFilePosition + last
                    THEN s.cacheFilePosition + last ELSE s.fileSize
           buffer == [j \in Slots |-> IF here <= j /\ j < end THEN b ELSE s.buffer[j]]
           t == CopyToCache(s, k, b)
           base == s.cacheFilePosition
<1> USE CacheFields
<1>0. /\ s.endCachePos \in Nat /\ s.cacheUpdateStart \in Nat /\ s.cacheUpdateEnd \in Nat
      /\ s.size \in Nat /\ MaxSize \in Nat /\ CacheSize \in Nat
  OBVIOUS
<1>1. Ordered(s) /\ Knows(s) /\ Agrees(s) /\ b \in Byte
  BY DEF Copyable
<1>2. /\ base + s.endCachePos <= VisibleLength(s) /\ VisibleLength(s) \in 0 .. MaxSize
      /\ base \in Nat
  BY <1>1, EndInFile DEF Ordered
<1>3. /\ here \in Nat /\ end \in Nat /\ last \in Nat /\ start \in Nat /\ stop \in Nat
      /\ start <= here /\ here < end /\ end <= stop /\ stop <= last /\ last <= CacheSize
      /\ here <= s.endCachePos /\ s.endCachePos <= last
      /\ base + end <= MaxSize /\ base + stop <= MaxSize
      /\ (last = end \/ last = s.endCachePos)
  BY <1>1, <1>2 DEF Copyable, Ordered, NewEnd, Least, Dirty, Tell
<1>4. Dirty(s) => /\ start <= s.cacheUpdateStart /\ s.cacheUpdateEnd <= stop
                  /\ (start = s.cacheUpdateStart \/ start = here)
                  /\ (stop = s.cacheUpdateEnd \/ stop = end)
  BY <1>1, <1>3 DEF Ordered, Least, Dirty
<1>5. ~Dirty(s) => start = here /\ stop = end
  OBVIOUS
<1>6. s.fileSize = VisibleLength(s)
  BY <1>1 DEF Knows
<1>7. grown \in Int
  BY <1>2, <1>3
<1>8. buffer \in [Slots -> Byte]
  BY <1>1
<1>9. t = [s EXCEPT !.buffer = buffer, !.cacheUpdateStart = start, !.cacheUpdateEnd = stop,
                    !.currentCachePos = end, !.endCachePos = last, !.fileSize = grown]
  BY DEF CopyToCache
<1> HIDE DEF t, buffer, start, stop, grown, last
<1>10. t \in Cache
  <2> HIDE DEF end
  <2> QED BY ONLY <1>3, <1>7, <1>8, <1>9, s \in Cache DEF Cache
<1>11. /\ t.buffer = buffer /\ t.cacheUpdateStart = start /\ t.cacheUpdateEnd = stop
       /\ t.currentCachePos = end /\ t.endCachePos = last /\ t.fileSize = grown
       /\ Same(s, t) /\ t.lost = s.lost /\ t.file = s.file /\ t.size = s.size
       /\ t.nativePosition = s.nativePosition /\ t.filePos = s.filePos
       /\ t.cacheFilePosition = base
  <2> HIDE DEF end
  <2> QED BY <1>9 DEF Cache, Same
<1>12. Dirty(t) /\ Tell(t) = Tell(s) + k /\ Tell(s) = base + here /\ Tell(t) = base + end
  BY <1>3, <1>11 DEF Dirty, Tell, Copyable
<1>13. VisibleLength(t) = (IF Tell(s) + k > VisibleLength(s) THEN Tell(s) + k
                           ELSE VisibleLength(s))
  <2>1. VisibleLength(t) = IF base + stop > s.size THEN base + stop ELSE s.size
    BY <1>11, <1>12 DEF VisibleLength
  <2>2. Tell(s) + k = base + end
    BY <1>12
  <2>3. CASE Dirty(s)
    <3>1. VisibleLength(s) = IF base + s.cacheUpdateEnd > s.size
                             THEN base + s.cacheUpdateEnd ELSE s.size
      BY <2>3 DEF VisibleLength
    <3>2. stop = IF s.cacheUpdateEnd > end THEN s.cacheUpdateEnd ELSE end
      BY <2>3 DEF stop
    <3> QED BY <1>2, <1>3, <2>1, <2>2, <3>1, <3>2
  <2>4. CASE ~Dirty(s)
    BY <1>2, <1>3, <1>5, <2>1, <2>2, <2>4, SeenClean
  <2> QED BY <2>3, <2>4
<1>14. grown = VisibleLength(t)
  BY <1>2, <1>3, <1>6, <1>12, <1>13 DEF grown
<1>15. s.mode = "append" => base + start = s.size /\ Tell(t) = grown
  <2> SUFFICES ASSUME s.mode = "append" PROVE base + start = s.size /\ Tell(t) = grown
    OBVIOUS
  <2>1. base + here = VisibleLength(s)
    BY <1>6, <1>12 DEF Copyable
  <2>2. CASE Dirty(s)
    <3>1. base + s.cacheUpdateStart = s.size
      BY <1>1, <2>2 DEF Ordered
    <3>2. s.cacheUpdateStart <= here
      BY <1>2, <2>1, <2>2, <3>1 DEF VisibleLength, Dirty
    <3>3. start = s.cacheUpdateStart
      BY <1>3, <1>4, <2>2, <3>2
    <3> QED BY <1>2, <1>3, <1>12, <1>13, <1>14, <2>1, <3>1, <3>3
  <2>3. CASE ~Dirty(s)
    BY <1>2, <1>3, <1>5, <1>12, <1>13, <1>14, <2>1, <2>3, SeenClean
  <2> QED BY <2>2, <2>3
<1>16. Ordered(t)
  BY <1>2, <1>3, <1>10, <1>11, <1>15 DEF Ordered, Same
<1>17. Knows(t)
  BY <1>1, <1>2, <1>3, <1>11, <1>12, <1>13, <1>14 DEF Knows
<1>18. ASSUME NEW j \in Slots
       PROVE  t.buffer[j] = IF here <= j /\ j < end THEN b ELSE s.buffer[j]
  BY <1>11 DEF buffer
<1>19. Agrees(t)
  <2> SUFFICES ASSUME NEW j \in 0 .. last - 1, ~(start <= j /\ j < stop)
               PROVE  base + j < s.size /\ t.buffer[j] = s.file[base + j]
    BY <1>11 DEF Agrees
  <2>1. j \in Slots /\ j \in 0 .. s.endCachePos - 1 /\ ~(here <= j /\ j < end)
    BY <1>0, <1>3 DEF Slots
  <2>2. ~(s.cacheUpdateStart <= j /\ j < s.cacheUpdateEnd)
    BY <1>0, <1>3, <1>4, <2>1 DEF Dirty
  <2>3. base + j < s.size /\ s.buffer[j] = s.file[base + j]
    BY <1>1, <2>1, <2>2 DEF Agrees
  <2> QED BY <1>18, <2>1, <2>3
<1>20. ASSUME NEW i \in 0 .. VisibleLength(t) - 1
       PROVE  Visible(t)[i] = IF Tell(s) <= i /\ i < Tell(s) + k THEN b ELSE Visible(s)[i]
  <2> DEFINE j == i - base
  <2>1. i \in Positions /\ VisibleLength(t) \in 0 .. MaxSize /\ i \in Nat
    <3>1. Tell(s) + k \in 0 .. MaxSize
      BY <1>2, <1>3, <1>12
    <3>2. VisibleLength(t) \in 0 .. MaxSize
      BY <1>2, <1>13, <3>1
    <3> QED BY <1>0, <3>2 DEF Positions
  <2>2. InRange(t, i) <=> start <= j /\ j < stop
    BY <1>2, <1>3, <1>11, <2>1 DEF InRange
  <2>3. (Tell(s) <= i /\ i < Tell(s) + k) <=> (here <= j /\ j < end)
    BY <1>2, <1>3, <1>12, <2>1
  <2>4. CASE start <= j /\ j < stop
    <3>1. j \in Slots
      <4>1. j \in Int
        BY <1>2, <2>1
      <4> HIDE DEF j, here, end
      <4> QED BY ONLY <1>0, <1>3, <2>4, <4>1 DEF Slots
    <3>2. Visible(t)[i] = t.buffer[j]
      BY <1>11, <1>12, <2>1, <2>2, <2>4 DEF Visible
    <3>3. CASE here <= j /\ j < end
      BY <1>18, <2>3, <3>1, <3>2, <3>3
    <3>4. CASE ~(here <= j /\ j < end)
      <4>0. s.cacheUpdateEnd <= s.endCachePos
        BY <1>1 DEF Ordered
      <4>1. j \in 0 .. s.endCachePos - 1
        <5>1. j \in Int /\ 0 <= j
          BY <1>0, <3>1 DEF Slots
        <5>2. j < s.endCachePos
          <6> HIDE DEF j, here, end
          <6>1. CASE Dirty(s)
            BY ONLY <1>0, <1>3, <1>4, <2>4, <3>4, <4>0, <5>1, <6>1
          <6>2. CASE ~Dirty(s)
            BY ONLY <1>0, <1>3, <1>5, <2>4, <3>4, <5>1, <6>2
          <6> QED BY <6>1, <6>2
        <5> QED BY ONLY <1>0, <5>1, <5>2
      <4>2. Visible(s)[base + j] = s.buffer[j] /\ base + j = i
        BY <1>1, <1>2, <2>1, <4>1, Shown
      <4> QED BY <1>18, <2>3, <3>1, <3>2, <3>4, <4>2
    <3> QED BY <3>3, <3>4
  <2>5. CASE ~(start <= j /\ j < stop)
    <3>1. ~(here <= j /\ j < end)
      BY <1>2, <1>3, <2>1, <2>5
    <3>2. Visible(t)[i] = s.file[i]
      BY <1>11, <2>1, <2>2, <2>5 DEF Visible
    <3>3. ~(Dirty(s) /\ InRange(s, i))
      BY <1>2, <1>3, <1>4, <2>1, <2>5 DEF InRange
    <3>4. Visible(s)[i] = s.file[i]
      BY <2>1, <3>3 DEF Visible
    <3> QED BY <2>3, <3>1, <3>2, <3>4
  <2> QED BY <2>4, <2>5
<1>21. Copied(s, t, k, b)
  BY <1>11, <1>12, <1>13, <1>14, <1>15, <1>16, <1>17, <1>19, <1>20 DEF Copied
<1> QED BY <1>21 DEF t
-----------------------------------------------------------------------------
(* What the helpers leave is right again, and what the caller then sees.       *)
Good(s) == Ordered(s) /\ Knows(s) /\ Agrees(s)

(* Two caches that differ in what was returned or lost alone.                  *)
Alike(s, t) ==
    /\ t \in Cache /\ Same(s, t) /\ t.buffer = s.buffer
    /\ t.cacheFilePosition = s.cacheFilePosition /\ t.currentCachePos = s.currentCachePos
    /\ t.endCachePos = s.endCachePos /\ t.cacheUpdateStart = s.cacheUpdateStart
    /\ t.cacheUpdateEnd = s.cacheUpdateEnd /\ t.fileSize = s.fileSize
    /\ t.nativePosition = s.nativePosition /\ t.filePos = s.filePos
    /\ t.file = s.file /\ t.size = s.size

(* The caller sees the same bytes at the same position.                        *)
SeenAlike(s, t) ==
    Visible(t) = Visible(s) /\ VisibleLength(t) = VisibleLength(s) /\ Tell(t) = Tell(s)

LEMMA ClearedAlike ==
  ASSUME NEW s \in Cache, NEW e \in {0, -1}
  PROVE  /\ Alike(s, [s EXCEPT !.lost = FALSE]) /\ [s EXCEPT !.lost = FALSE].lost = FALSE
         /\ [s EXCEPT !.lost = FALSE].err = s.err
         /\ Alike(s, [s EXCEPT !.err = 0, !.lost = FALSE])
         /\ [s EXCEPT !.err = 0, !.lost = FALSE].lost = FALSE
         /\ [s EXCEPT !.err = 0, !.lost = FALSE].err = 0
         /\ Alike(s, Returns(s, e)) /\ Returns(s, e).lost = s.lost /\ Returns(s, e).err = e
BY DEF Alike, Same, Returns, Cache

LEMMA AlikeRight ==
  ASSUME NEW s \in Cache, NEW t, Alike(s, t)
  PROVE  /\ t \in Cache /\ Dirty(t) = Dirty(s) /\ SeenAlike(s, t)
         /\ Ordered(s) => Ordered(t)
         /\ Knows(s) => Knows(t)
         /\ Agrees(s) => Agrees(t)
         /\ Empty(s) => Empty(t)
<1>1. Tell(t) = Tell(s) /\ Dirty(t) = Dirty(s) /\ t \in Cache
  BY DEF Alike, Tell, Dirty
<1>2. Visible(t) = Visible(s) /\ VisibleLength(t) = VisibleLength(s)
  BY <1>1 DEF Alike, Visible, VisibleLength, InRange
<1>3. Ordered(s) => Ordered(t)
  BY <1>1 DEF Alike, Same, Ordered
<1>4. Knows(s) => Knows(t)
  BY <1>1, <1>2 DEF Alike, Knows
<1>5. Agrees(s) => Agrees(t)
  BY DEF Alike, Agrees
<1>6. Empty(s) => Empty(t)
  BY DEF Alike, Empty
<1> QED BY <1>1, <1>2, <1>3, <1>4, <1>5, <1>6 DEF SeenAlike

LEMMA EmptyAgrees ==
  ASSUME NEW t \in Cache, Empty(t)
  PROVE  /\ Agrees(t) /\ ~Dirty(t) /\ Tell(t) = t.cacheFilePosition
         /\ Visible(t) = t.file /\ VisibleLength(t) = t.size
         /\ t.cacheFilePosition >= 0 => Ordered(t)
<1>1. ~Dirty(t) /\ Tell(t) = t.cacheFilePosition
  BY CacheFields DEF Dirty, Tell, Empty
<1>2. Agrees(t)
  BY DEF Agrees, Empty
<1>3. t.cacheFilePosition >= 0 => Ordered(t)
  BY <1>1, CacheFields DEF Ordered, Empty
<1> QED BY <1>1, <1>2, <1>3, SeenClean

LEMMA MovedRight ==
  ASSUME NEW s \in Cache, NEW pos, NEW t, Moved(s, t, pos), pos \in 0 .. VisibleLength(s),
         s.fileSize = VisibleLength(s), Ordered(s)
  PROVE  /\ t \in Cache /\ Good(t) /\ Tell(t) = pos /\ t.lost = FALSE /\ t.err = 0 /\ Empty(t)
         /\ Visible(t) = Visible(s) /\ VisibleLength(t) = VisibleLength(s)
         /\ t.file = Visible(s) /\ t.size = VisibleLength(s) /\ Same(s, t)
         /\ t.fileSize = VisibleLength(s)
<1>1. t \in Cache /\ Empty(t) /\ t.cacheFilePosition = pos /\ t.file = Visible(s)
      /\ t.size = VisibleLength(s) /\ t.fileSize = s.fileSize
      /\ t.nativePosition = t.filePos /\ Same(s, t) /\ t.err = 0 /\ t.lost = FALSE
  BY DEF Moved
<1>2. VisibleLength(s) \in Nat
  BY SeenType
<1>3. Agrees(t) /\ Tell(t) = pos /\ Visible(t) = t.file /\ VisibleLength(t) = t.size /\ Ordered(t)
  BY <1>1, <1>2, EmptyAgrees
<1>4. Knows(t)
  BY <1>1, <1>2, <1>3 DEF Knows
<1> QED BY <1>1, <1>3, <1>4 DEF Good

LEMMA LostRight ==
  ASSUME NEW s \in Cache, NEW t, Lost(s, t), Tell(s) \in Nat
  PROVE  /\ t \in Cache /\ Good(t) /\ t.lost = TRUE /\ t.err = -1 /\ Empty(t)
         /\ Tell(t) = (IF Tell(s) <= t.size THEN Tell(s) ELSE t.size)
         /\ Visible(t) = t.file /\ VisibleLength(t) = t.size /\ PartOf(s, t) /\ Same(s, t)
<1>1. t \in Cache /\ Empty(t) /\ t.fileSize = t.size /\ t.nativePosition = t.filePos
      /\ t.cacheFilePosition = (IF Tell(s) <= t.size THEN Tell(s) ELSE t.size)
      /\ PartOf(s, t) /\ Same(s, t) /\ t.lost = TRUE /\ t.err = -1
  BY DEF Lost
<1>2. t.size \in Nat
  BY <1>1, CacheFields
<1>3. Agrees(t) /\ Tell(t) = t.cacheFilePosition /\ Visible(t) = t.file
      /\ VisibleLength(t) = t.size /\ Ordered(t)
  BY <1>1, <1>2, EmptyAgrees
<1>4. Knows(t)
  BY <1>1, <1>2, <1>3 DEF Knows
<1> QED BY <1>1, <1>3, <1>4 DEF Good

LEMMA FilledRight ==
  ASSUME NEW s \in Cache, Good(s), NEW t, Filled(s, t)
  PROVE  /\ t \in Cache /\ Good(t) /\ Tell(t) = Tell(s) /\ t.lost = FALSE
         /\ Visible(t) = Visible(s) /\ VisibleLength(t) = VisibleLength(s)
         /\ t.file = Visible(s) /\ t.size = VisibleLength(s) /\ Same(s, t)
<1> USE DEF Filled
<1>1. VisibleLength(s) \in 0 .. MaxSize /\ Tell(s) \in 0 .. VisibleLength(s)
      /\ s.fileSize = VisibleLength(s)
  BY EndInFile DEF Good, Knows
<1>2. ~Dirty(t) /\ Tell(t) = Tell(s)
  BY <1>1 DEF Dirty, Tell
<1>3. Visible(t) = t.file /\ VisibleLength(t) = t.size
  BY <1>2, SeenClean
<1>4. Ordered(t)
  BY <1>1, <1>2, CacheFields DEF Ordered
<1>5. Knows(t)
  BY <1>1, <1>2, <1>3 DEF Knows
<1> QED BY <1>2, <1>3, <1>4, <1>5 DEF Good

LEMMA FlushedRight ==
  ASSUME NEW s \in Cache, Good(s), NEW t, Flushed(s, t)
  PROVE  /\ t \in Cache /\ Good(t) /\ SeenAlike(s, t) /\ t.lost = FALSE
         /\ t.file = Visible(s) /\ t.size = VisibleLength(s) /\ Same(s, t)
<1> USE DEF Flushed
<1>1. ~Dirty(t) /\ Tell(t) = Tell(s)
  BY DEF Dirty, Tell
<1>2. Visible(t) = t.file /\ VisibleLength(t) = t.size
  BY <1>1, SeenClean
<1>3. Ordered(t)
  BY <1>1, CacheFields DEF Ordered, Good
<1>4. Knows(t)
  BY <1>1, <1>2 DEF Knows, Good
<1>5. Agrees(t)
  <2> SUFFICES ASSUME NEW j \in 0 .. s.endCachePos - 1
               PROVE  s.cacheFilePosition + j < t.size
                      /\ t.buffer[j] = t.file[s.cacheFilePosition + j]
    BY DEF Agrees
  <2> QED BY Shown DEF Good
<1> QED BY <1>1, <1>2, <1>3, <1>4, <1>5 DEF Good, SeenAlike
-----------------------------------------------------------------------------
(* The steps of StoredFile, as what the caches before and after them have.     *)
Place(s) == IF s.isOpen THEN Tell(s) ELSE 0

LEMMA Views ==
  /\ Visible(cache)' = Visible(cache') /\ VisibleLength(cache)' = VisibleLength(cache')
  /\ (IF cache.isOpen THEN Tell(cache) ELSE 0) = Place(cache)
  /\ (IF cache.isOpen THEN Tell(cache) ELSE 0)' = Place(cache')
  /\ (cache.file)' = cache'.file /\ (cache.size)' = cache'.size /\ (cache.lost)' = cache'.lost
  /\ (cache.isOpen)' = cache'.isOpen
BY DEF Visible, VisibleLength, Place, Tell, Dirty, InRange

(* What the caller sees is kept, with what was written stored or not.          *)
LEMMA IsKept ==
  ASSUME Visible(cache') = Visible(cache), VisibleLength(cache') = VisibleLength(cache),
         \/ cache'.file = cache.file /\ cache'.size = cache.size
         \/ cache'.file = Visible(cache) /\ cache'.size = VisibleLength(cache),
         cache'.lost = FALSE, gave' = {}
  PROVE  StoredFile!Kept /\ (StoredFile!Saved \/ StoredFile!NotSaved) /\ StoredFile!Quiet
BY Views DEF StoredFile!Kept, StoredFile!Quiet, StoredFile!Saved, StoredFile!NotSaved,
             StoredFile!SameUpTo

LEMMA IsSaved ==
  ASSUME cache'.file = Visible(cache), cache'.size = VisibleLength(cache)
  PROVE  StoredFile!Saved
BY Views DEF StoredFile!Saved, StoredFile!SameUpTo

LEMMA IsLost ==
  ASSUME Visible(cache') = cache'.file, VisibleLength(cache') = cache'.size,
         PartOf(cache, cache'), cache'.lost = TRUE, gave' = {}
  PROVE  StoredFile!Lost
BY Views DEF StoredFile!Lost, StoredFile!SameUpTo, PartOf

LEMMA IsStay ==
  ASSUME Place(cache') = IF Place(cache) <= VisibleLength(cache') THEN Place(cache)
                         ELSE VisibleLength(cache')
  PROVE  StoredFile!Stays
BY Views DEF StoredFile!Stays

(* A call that begins, goes on or ends.                                        *)
LEMMA IsTurn ==
  ASSUME StoredFile!Kept, StoredFile!Saved \/ StoredFile!NotSaved, StoredFile!Quiet,
         VisibleLength(cache') = VisibleLength(cache), cache'.isOpen = cache.isOpen,
         Place(cache') = Place(cache), Place(cache) \in 0 .. VisibleLength(cache)
  PROVE  StoredFile!Stays /\ StoredFile!Turn
<1>1. Place(cache') = IF Place(cache) <= VisibleLength(cache') THEN Place(cache)
                      ELSE VisibleLength(cache')
  OBVIOUS
<1>2. StoredFile!Stays
  BY <1>1, IsStay
<1> QED BY <1>2, Views DEF StoredFile!Turn

(* The invariant, of the next state.                                           *)
LEMMA NextInv ==
  ASSUME Ordered(cache'), IF cache'.isOpen THEN Good(cache') ELSE Empty(cache'),
         call' \in Calls, gave' \subseteq Positions \X Byte,
         call'.op \in {"read", "write"} => cache'.isOpen,
         call'.op = "write" => /\ Tell(cache') + call'.left <= MaxSize
                               /\ cache'.mode = "append" => Tell(cache') = cache'.fileSize
  PROVE  FileInv'
<1>1. CacheRight(cache')
  BY DEF CacheRight, Good
<1>2. ~Free' => call'.op \in {"read", "write"}
  BY DEF Free, Calls
<1>3. CallRight'
  BY <1>2 DEF CallRight, Tell
<1> QED BY <1>1, <1>3 DEF FileInv

(* What the invariant says of an open cache, and of one as a step sets out.    *)
LEMMA OpenGood ==
  ASSUME FileInv, cache.isOpen
  PROVE  /\ cache \in Cache /\ Good(cache) /\ Place(cache) = Tell(cache)
         /\ Tell(cache) \in 0 .. VisibleLength(cache) /\ VisibleLength(cache) \in 0 .. MaxSize
         /\ cache.fileSize = VisibleLength(cache)
<1>1. cache \in Cache /\ Good(cache)
  BY DEF FileInv, CacheRight, Good, Ordered
<1> QED BY <1>1, EndInFile DEF Good, Knows, Place

(* Two caches over the same file at the same position.                         *)
SameFile(s, t) ==
    /\ SeenAlike(s, t) /\ Same(s, t) /\ t.file = s.file /\ t.size = s.size
    /\ t.fileSize = s.fileSize

LEMMA SetOut ==
  ASSUME NEW s \in Cache, Good(s), NEW t, Alike(s, t), t.lost = FALSE
  PROVE  /\ t \in Cache /\ Good(t) /\ Writable(t) /\ SeenAlike(s, t) /\ Same(s, t)
         /\ SameFile(s, t) /\ t.fileSize = s.fileSize
<1>1. t \in Cache /\ Good(t) /\ Writable(t) /\ SeenAlike(s, t)
  BY AlikeRight DEF Good, Writable, Knows
<1>2. Same(s, t) /\ t.file = s.file /\ t.size = s.size /\ t.fileSize = s.fileSize
  BY DEF Alike
<1> QED BY <1>1, <1>2 DEF SameFile

LEMMA ClearedLost ==
  ASSUME FileInv, cache.isOpen, NEW s, s = [cache EXCEPT !.lost = FALSE]
  PROVE  /\ s \in Cache /\ Good(s) /\ Writable(s) /\ Alike(cache, s) /\ SameFile(cache, s)
         /\ s.lost = FALSE /\ s.fileSize = VisibleLength(cache)
<1>1. cache \in Cache /\ Good(cache) /\ cache.fileSize = VisibleLength(cache)
  BY OpenGood
<1>2. Alike(cache, s) /\ s.lost = FALSE
  BY <1>1, ClearedAlike
<1> QED BY <1>1, <1>2, SetOut

LEMMA IdleCall == Idle \in Calls /\ Idle.op = "idle"
BY DEF Idle, Calls
-----------------------------------------------------------------------------
(* A step that only sets out, one that moves the cache, and one that loses.    *)
LEMMA KeptStep ==
  ASSUME FileInv, cache.isOpen, Alike(cache, cache'), cache'.lost = FALSE, gave' = {}
  PROVE  /\ cache'.isOpen /\ Good(cache') /\ SameFile(cache, cache')
         /\ StoredFile!Kept /\ (StoredFile!Saved \/ StoredFile!NotSaved) /\ StoredFile!Quiet
         /\ StoredFile!Stays /\ StoredFile!Turn /\ Place(cache') = Place(cache)
         /\ VisibleLength(cache') = VisibleLength(cache)
<1>1. Good(cache') /\ SeenAlike(cache, cache') /\ Same(cache, cache')
  BY OpenGood, SetOut
<1>2. cache'.isOpen /\ SameFile(cache, cache')
  BY <1>1 DEF Same, SameFile, Alike
<1>3. Place(cache') = Place(cache) /\ Place(cache) \in 0 .. VisibleLength(cache)
      /\ VisibleLength(cache') = VisibleLength(cache)
  BY <1>1, <1>2, OpenGood DEF SeenAlike, Place
<1>4. StoredFile!Kept /\ (StoredFile!Saved \/ StoredFile!NotSaved) /\ StoredFile!Quiet
  BY <1>1, <1>2, IsKept DEF SameFile, SeenAlike
<1> QED BY <1>1, <1>2, <1>3, <1>4, IsTurn

LEMMA MovedStep ==
  ASSUME FileInv, cache.isOpen, NEW s \in Cache, Ordered(s), SameFile(cache, s),
         NEW pos \in 0 .. VisibleLength(cache), Moved(s, cache', pos), gave' = {}
  PROVE  /\ cache'.isOpen /\ Good(cache') /\ Tell(cache') = pos /\ Place(cache') = pos
         /\ Same(cache, cache') /\ cache'.fileSize = cache.fileSize
         /\ VisibleLength(cache') = VisibleLength(cache)
         /\ StoredFile!Kept /\ StoredFile!Saved /\ StoredFile!Quiet
<1>1. /\ Good(cache') /\ Tell(cache') = pos /\ cache'.lost = FALSE
      /\ Visible(cache') = Visible(s) /\ VisibleLength(cache') = VisibleLength(s)
      /\ cache'.file = Visible(s) /\ cache'.size = VisibleLength(s) /\ Same(s, cache')
      /\ cache'.fileSize = VisibleLength(s)
  <2>1. VisibleLength(s) = VisibleLength(cache) /\ s.fileSize = VisibleLength(s)
    BY OpenGood DEF SameFile, SeenAlike
  <2>2. pos \in 0 .. VisibleLength(s)
    BY <2>1
  <2> QED BY ONLY <2>1, <2>2, s \in Cache, Ordered(s), Moved(s, cache', pos), MovedRight
<1>2. cache'.isOpen /\ Same(cache, cache') /\ Place(cache') = pos
      /\ cache'.fileSize = cache.fileSize
  BY <1>1, OpenGood DEF SameFile, SeenAlike, Same, Place
<1>3. /\ Visible(cache') = Visible(cache) /\ VisibleLength(cache') = VisibleLength(cache)
      /\ cache'.file = Visible(cache) /\ cache'.size = VisibleLength(cache)
  BY <1>1 DEF SameFile, SeenAlike
<1> QED BY <1>1, <1>2, <1>3, IsKept, IsSaved

LEMMA LostStep ==
  ASSUME FileInv, cache.isOpen, NEW s \in Cache, SameFile(cache, s), Lost(s, cache'), gave' = {}
  PROVE  /\ cache'.isOpen /\ Good(cache') /\ cache'.err = -1
         /\ StoredFile!Lost /\ StoredFile!Stays /\ StoredFile!Turn
<1>1. Tell(s) = Tell(cache) /\ Tell(s) \in Nat /\ Place(cache) = Tell(cache)
  BY OpenGood DEF SameFile, SeenAlike
<1>2. /\ Good(cache') /\ cache'.lost = TRUE /\ Visible(cache') = cache'.file
      /\ VisibleLength(cache') = cache'.size /\ PartOf(s, cache') /\ Same(s, cache')
      /\ Tell(cache') = (IF Tell(s) <= cache'.size THEN Tell(s) ELSE cache'.size)
      /\ cache'.err = -1
  BY <1>1, LostRight
<1>3. PartOf(cache, cache')
  BY <1>2 DEF PartOf, SameFile, SeenAlike
<1>4. cache'.isOpen
  BY <1>2 DEF SameFile, Same
<1>5. Place(cache') = IF Place(cache) <= VisibleLength(cache') THEN Place(cache)
                      ELSE VisibleLength(cache')
  BY <1>1, <1>2, <1>4 DEF Place
<1>6. StoredFile!Lost /\ StoredFile!Stays
  BY <1>2, <1>3, <1>5, IsLost, IsStay
<1> QED BY <1>2, <1>4, <1>6, Views DEF StoredFile!Turn
-----------------------------------------------------------------------------
(* Each action keeps the invariant and is that call of StoredFile.             *)
LEMMA FlushStep ==
  ASSUME Positioned, FileInv, Flush
  PROVE  FileInv' /\ StoredFile!Flush
<1> DEFINE s == [cache EXCEPT !.lost = FALSE]
           t(f) == WriteCacheToFile(s, f)
<1>1. cache.isOpen /\ call' = Idle /\ gave' = {}
  BY DEF Flush, Usable
<1>2. PICK f \in Native, works \in Works("flush") :
          cache' = IF ~Dirty(s) THEN Returns(s, 0)
                   ELSE IF t(f).err # 0 THEN t(f)
                   ELSE [t(f) EXCEPT !.nativePosition = t(f).filePos,
                                     !.err = IF works THEN 0 ELSE -1]
  BY DEF Flush
<1>3. /\ s \in Cache /\ Good(s) /\ Writable(s) /\ Alike(cache, s) /\ SameFile(cache, s)
      /\ s.lost = FALSE
  BY <1>1, ClearedLost
<1> HIDE DEF s
<1>4. /\ cache'.isOpen /\ Good(cache') /\ StoredFile!Stays
      /\ (StoredFile!Kept /\ StoredFile!Saved /\ StoredFile!Quiet) \/ StoredFile!Lost
  <2>1. CASE ~Dirty(s)
    <3>1. Alike(s, cache') /\ cache'.lost = FALSE
      BY <1>2, <1>3, <2>1, ClearedAlike
    <3>2. Alike(cache, cache')
      BY <1>3, <3>1 DEF Alike, Same
    <3>3. cache'.file = Visible(cache) /\ cache'.size = VisibleLength(cache)
      <4>1. cache \in Cache /\ ~Dirty(cache)
        BY <1>1, <1>3, <2>1, OpenGood DEF Alike, Dirty
      <4> QED BY <1>1, <3>2, <4>1, SeenClean DEF Alike
    <3> QED BY <1>1, <3>1, <3>2, <3>3, KeptStep, IsSaved
  <2>2. CASE Dirty(s) /\ Lost(s, t(f))
    <3>1. cache' = t(f)
      BY <1>2, <2>2 DEF Lost
    <3> QED BY <1>1, <1>3, <2>2, <3>1, LostStep
  <2>3. CASE Dirty(s) /\ Flushed(s, t(f))
    <3> DEFINE u == t(f)
               e == IF works THEN 0 ELSE -1
    <3>1. cache' = [u EXCEPT !.nativePosition = u.filePos, !.err = e]
      BY <1>2, <2>3 DEF Flushed
    <3>2. e \in {0, -1}
      OBVIOUS
    <3> HIDE DEF u, e
    <3>3. /\ u \in Cache /\ Good(u) /\ SeenAlike(s, u) /\ u.lost = FALSE /\ Same(s, u)
          /\ u.file = Visible(s) /\ u.size = VisibleLength(s)
          /\ u.nativePosition = u.filePos
      BY <1>3, <2>3, FlushedRight DEF Flushed, u
    <3>4. Alike(u, cache') /\ cache'.lost = FALSE
      BY <3>1, <3>2, <3>3 DEF Alike, Same, Cache
    <3>5. Good(cache') /\ SeenAlike(u, cache') /\ Same(u, cache')
      BY <3>3, <3>4, SetOut
    <3>6. cache'.isOpen /\ cache'.file = Visible(cache) /\ cache'.size = VisibleLength(cache)
          /\ SeenAlike(cache, cache')
      BY <1>1, <1>3, <3>3, <3>4, <3>5 DEF SeenAlike, Same, Alike, SameFile
    <3>7. StoredFile!Kept /\ StoredFile!Saved /\ StoredFile!Quiet
      BY <1>1, <3>4, <3>6, IsKept, IsSaved DEF SeenAlike
    <3>8. StoredFile!Stays
      BY <1>1, <3>6, <3>7, IsTurn, OpenGood DEF Place, SeenAlike
    <3> QED BY <3>5, <3>6, <3>7, <3>8
  <2> QED BY <1>3, <2>1, <2>2, <2>3, CacheWritten
<1>5. StoredFile!Flush
  BY <1>1, <1>4, Views DEF StoredFile!Flush
<1> QED BY <1>1, <1>4, <1>5, NextInv, IdleCall DEF Good

LEMMA SeekStep ==
  ASSUME Positioned, FileInv, NEW pos \in -1 .. MaxSize + 1, Seek(pos)
  PROVE  FileInv' /\ StoredFile!Seek(pos)
<1> DEFINE s == [cache EXCEPT !.lost = FALSE]
<1>1. cache.isOpen /\ call' = Idle /\ gave' = {}
  BY DEF Seek, Usable
<1>2. /\ s \in Cache /\ Good(s) /\ Alike(cache, s) /\ SameFile(cache, s) /\ s.lost = FALSE
      /\ s.fileSize = VisibleLength(cache)
  BY <1>1, ClearedLost
<1>3. \/ (pos < 0 \/ pos > s.fileSize) /\ cache' = Returns(s, -1)
      \/ /\ 0 <= pos /\ pos <= s.fileSize /\ InCache(s, pos)
         /\ cache' = [s EXCEPT !.currentCachePos = pos - s.cacheFilePosition, !.err = 0]
      \/ /\ 0 <= pos /\ pos <= s.fileSize
         /\ \E f \in Native :
               cache' = SetCachePosition([NativeSeek(s, pos) EXCEPT !.nativePosition = pos],
                                         f, pos)
  BY NativeFields DEF Seek
<1> HIDE DEF s
<1> DEFINE inFile == 0 <= pos /\ pos <= VisibleLength(cache)
<1>3a. ASSUME StoredFile!Kept, StoredFile!Saved \/ StoredFile!NotSaved, StoredFile!Quiet,
              cache'.isOpen, Place(cache') = IF inFile THEN pos ELSE Place(cache)
       PROVE  StoredFile!Seek(pos)
  BY <1>1, <1>3a, Views DEF StoredFile!Seek
<1>3b. ASSUME StoredFile!Lost, StoredFile!Stays, cache'.isOpen
       PROVE  StoredFile!Seek(pos)
  BY <1>1, <1>3b, Views DEF StoredFile!Seek
<1>4. CASE (pos < 0 \/ pos > s.fileSize) /\ cache' = Returns(s, -1)
  <2>1. Alike(s, cache') /\ cache'.lost = FALSE
    BY <1>2, <1>4, ClearedAlike
  <2>2. Alike(cache, cache')
    BY <1>2, <2>1 DEF Alike, Same
  <2>3. ~inFile
    BY <1>1, <1>2, <1>4, OpenGood
  <2>4. StoredFile!Seek(pos)
    BY <1>1, <1>3a, <2>1, <2>2, <2>3, KeptStep
  <2> QED BY <1>1, <2>1, <2>2, <2>4, KeptStep, NextInv, IdleCall DEF Good
<1>5. CASE /\ 0 <= pos /\ pos <= s.fileSize /\ InCache(s, pos)
           /\ cache' = [s EXCEPT !.currentCachePos = pos - s.cacheFilePosition, !.err = 0]
  <2> DEFINE here == pos - s.cacheFilePosition
  <2>1. here \in Nat /\ here <= s.endCachePos /\ pos = s.cacheFilePosition + here
    BY <1>2, <1>5, CacheFields DEF InCache
  <2>2. cache' = [s EXCEPT !.currentCachePos = here, !.err = 0]
    BY <1>5
  <2> HIDE DEF here
  <2>3. /\ cache' \in Cache /\ Same(s, cache') /\ cache'.buffer = s.buffer
        /\ cache'.cacheFilePosition = s.cacheFilePosition
        /\ cache'.currentCachePos = here /\ cache'.endCachePos = s.endCachePos
        /\ cache'.cacheUpdateStart = s.cacheUpdateStart
        /\ cache'.cacheUpdateEnd = s.cacheUpdateEnd /\ cache'.fileSize = s.fileSize
        /\ cache'.nativePosition = s.nativePosition /\ cache'.filePos = s.filePos
        /\ cache'.file = s.file /\ cache'.size = s.size /\ cache'.lost = s.lost
    BY <1>2, <2>1, <2>2 DEF Cache, Same
  <2>4. Dirty(cache') = Dirty(s) /\ Tell(cache') = pos
    BY <2>1, <2>3 DEF Dirty, Tell
  <2>5. Visible(cache') = Visible(s) /\ VisibleLength(cache') = VisibleLength(s)
    BY <2>3, <2>4 DEF Visible, VisibleLength, InRange
  <2>6. Good(cache')
    <3>1. Ordered(cache')
      BY <1>2, <2>1, <2>3, <2>4 DEF Good, Ordered, Same
    <3>2. Knows(cache') /\ Agrees(cache')
      BY <1>2, <1>5, <2>3, <2>4, <2>5 DEF Good, Knows, Agrees
    <3> QED BY <3>1, <3>2 DEF Good
  <2>7. cache'.isOpen /\ Place(cache') = pos /\ inFile
    <3>1. cache'.isOpen /\ Place(cache') = pos
      BY <1>1, <1>2, <2>3, <2>4 DEF Same, SameFile, Place
    <3>2. VisibleLength(cache) \in Nat
      BY <1>1, OpenGood
    <3> QED BY <1>2, <1>5, <3>1, <3>2
  <2>8. StoredFile!Seek(pos)
    <3>1. StoredFile!Kept /\ (StoredFile!Saved \/ StoredFile!NotSaved) /\ StoredFile!Quiet
      BY <1>1, <1>2, <2>3, <2>5, IsKept DEF SameFile, SeenAlike
    <3> QED BY <1>3a, <2>7, <3>1
  <2> QED BY <1>1, <2>6, <2>7, <2>8, NextInv, IdleCall DEF Good
<1>6. CASE /\ 0 <= pos /\ pos <= s.fileSize
           /\ \E f \in Native :
                 cache' = SetCachePosition([NativeSeek(s, pos) EXCEPT !.nativePosition = pos],
                                           f, pos)
  <2> DEFINE r == [NativeSeek(s, pos) EXCEPT !.nativePosition = pos]
  <2>1. PICK f \in Native : cache' = SetCachePosition(r, f, pos)
    BY <1>6
  <2>2. pos \in 0 .. VisibleLength(cache) /\ pos \in Nat /\ pos \in Int
    BY <1>1, <1>2, <1>6, OpenGood
  <2>3. r = [s EXCEPT !.filePos = pos, !.lastRead = FALSE, !.nativePosition = pos]
    <3> DEFINE sought == NativeSeek(s, pos)
    <3>1. sought = [s EXCEPT !.filePos = pos, !.lastRead = FALSE]
      BY DEF NativeSeek
    <3>2. r = [sought EXCEPT !.nativePosition = pos]
      OBVIOUS
    <3> HIDE DEF sought, r
    <3> QED BY <1>2, <3>1, <3>2 DEF Cache
  <2> HIDE DEF r
  <2>4. r \in Cache
    BY <1>2, <2>2, <2>3 DEF Cache
  <2>5. /\ Same(s, r) /\ r.buffer = s.buffer /\ r.cacheFilePosition = s.cacheFilePosition
        /\ r.currentCachePos = s.currentCachePos /\ r.endCachePos = s.endCachePos
        /\ r.cacheUpdateStart = s.cacheUpdateStart /\ r.cacheUpdateEnd = s.cacheUpdateEnd
        /\ r.fileSize = s.fileSize /\ r.nativePosition = r.filePos
        /\ r.file = s.file /\ r.size = s.size /\ r.lost = s.lost
    BY <1>2, <2>3 DEF Cache, Same
  <2>6. Dirty(r) = Dirty(s) /\ SeenAlike(s, r)
    BY <2>5 DEF Dirty, SeenAlike, Tell, Visible, VisibleLength, InRange
  <2>7. Ordered(r) /\ Writable(r)
    BY <1>2, <2>4, <2>5, <2>6 DEF Good, Ordered, Writable, Same
  <2>8. SameFile(cache, r)
    BY <1>2, <2>5, <2>6 DEF SameFile, SeenAlike, Same
  <2>9. CASE Moved(r, cache', pos)
    <3>1. /\ cache'.isOpen /\ Good(cache') /\ Place(cache') = pos
          /\ StoredFile!Kept /\ StoredFile!Saved /\ StoredFile!Quiet
      BY <1>1, <2>2, <2>4, <2>7, <2>8, <2>9, MovedStep
    <3>2. StoredFile!Seek(pos)
      BY <1>3a, <2>2, <3>1
    <3> QED BY <1>1, <3>1, <3>2, NextInv, IdleCall DEF Good
  <2>10. CASE Lost(r, cache')
    <3>1. cache'.isOpen /\ Good(cache') /\ StoredFile!Lost /\ StoredFile!Stays
      BY <1>1, <2>4, <2>8, <2>10, LostStep
    <3>2. StoredFile!Seek(pos)
      BY <1>3b, <3>1
    <3> QED BY <1>1, <3>1, <3>2, NextInv, IdleCall DEF Good
  <2> QED BY <2>1, <2>2, <2>4, <2>7, <2>9, <2>10, CachePositioned
<1> QED BY <1>3, <1>4, <1>5, <1>6

(* A native file that is opened beneath a closed cache.                        *)
LEMMA Opened ==
  ASSUME FileInv, ~cache.isOpen, NEW m \in Modes, NEW at \in OpenPlaces(m),
         NEW s, s = NativeOpen(m, at)
  PROVE  /\ s \in Cache /\ Empty(s) /\ s.cacheFilePosition >= 0 /\ s.file = cache.file
         /\ s.size = (IF s.mode = "readwrite" THEN 0 ELSE cache.size)
         /\ s.lost = FALSE /\ ~s.isOpen
         /\ cache \in Cache /\ Empty(cache)
<1> DEFINE size == IF m = "readwrite" THEN 0 ELSE cache.size
<1>1. cache \in Cache /\ Empty(cache) /\ cache.cacheFilePosition >= 0 /\ cache.size \in 0 .. MaxSize
  BY CacheFields DEF FileInv, CacheRight, Ordered
<1>2. at \in Nat /\ size \in 0 .. MaxSize
  <2>1. cache.size \in Nat /\ MaxSize \in Nat /\ 0 \in Nat
    BY <1>1, CacheFields
  <2>2. at = 0 \/ at = cache.size
    BY DEF OpenPlaces
  <2>3. size = 0 \/ size = cache.size
    OBVIOUS
  <2> HIDE DEF size
  <2> QED BY ONLY <1>1, <2>1, <2>2, <2>3
<1>3. s = [cache EXCEPT !.mode = m, !.size = size, !.filePos = at, !.lastRead = FALSE,
                        !.err = 0, !.lost = FALSE]
  BY DEF NativeOpen
<1> HIDE DEF size
<1>4. s \in Cache
  <2>1. /\ cache \in Cache /\ m \in Modes \cup {"none"} /\ at \in Nat
        /\ size \in 0 .. MaxSize /\ 0 \in {0, -1}
    BY <1>1, <1>2
  <2> QED BY ONLY <1>3, <2>1 DEF Cache
<1>5. s.size = size /\ s.mode = m /\ s.lost = FALSE /\ s.isOpen = cache.isOpen /\ s.file = cache.file
      /\ s.cacheFilePosition = cache.cacheFilePosition
      /\ s.currentCachePos = cache.currentCachePos /\ s.endCachePos = cache.endCachePos
      /\ s.cacheUpdateStart = cache.cacheUpdateStart
      /\ s.cacheUpdateEnd = cache.cacheUpdateEnd
  BY <1>1, <1>3 DEF Cache
<1> QED BY <1>1, <1>2, <1>4, <1>5 DEF Empty, size

(* To StoredFile it shows what is stored, or nothing of it.                    *)
LEMMA IsOpening ==
  ASSUME cache'.file = cache.file, ~cache.isOpen, NEW m,
         cache'.size = (IF m = "readwrite" THEN 0 ELSE cache.size),
         Visible(cache') = cache'.file, VisibleLength(cache') = cache'.size,
         cache'.lost = FALSE, gave' = {}, Place(cache') = 0, cache'.isOpen \in BOOLEAN
  PROVE  StoredFile!Open(m = "readwrite")
BY Views DEF StoredFile!Open, StoredFile!Quiet, StoredFile!SameUpTo

LEMMA OpenWithoutMemoryStep ==
  ASSUME FileInv, OpenWithoutMemory
  PROVE  FileInv' /\ StoredFile!Open(cache'.mode = "readwrite")
<1>1. ~cache.isOpen /\ call' = Idle /\ gave' = {}
  BY DEF OpenWithoutMemory
<1>2. PICK m \in Modes : \E at \in OpenPlaces(m) : cache' = NativeOpen(m, at)
  BY DEF OpenWithoutMemory
<1>3. /\ cache' \in Cache /\ Empty(cache') /\ cache'.cacheFilePosition >= 0
      /\ cache'.file = cache.file /\ cache'.lost = FALSE
      /\ cache'.size = (IF cache'.mode = "readwrite" THEN 0 ELSE cache.size)
      /\ ~cache'.isOpen
  BY <1>1, <1>2, Opened
<1>4. /\ Ordered(cache') /\ Visible(cache') = cache'.file
      /\ VisibleLength(cache') = cache'.size /\ Place(cache') = 0
  BY <1>3, EmptyAgrees DEF Place
<1>5. cache'.isOpen \in BOOLEAN
  BY <1>3 DEF Cache
<1> QED BY <1>1, <1>3, <1>4, <1>5, IsOpening, NextInv, IdleCall

LEMMA OpenStep ==
  ASSUME Positioned, FileInv, Open
  PROVE  FileInv' /\ StoredFile!Open(cache'.mode = "readwrite")
<1>1. ~cache.isOpen /\ call' = Idle /\ gave' = {}
  BY DEF Open
<1>2. PICK m \in Modes : \E at \in OpenPlaces(m), f \in Native :
                            cache' = CacheOpen(NativeOpen(m, at), f)
  BY DEF Open
<1>3. PICK at \in OpenPlaces(m), f \in Native : cache' = CacheOpen(NativeOpen(m, at), f)
  BY <1>2
<1> DEFINE s == NativeOpen(m, at)
           junk == [j \in Slots |-> Junk]
           fresh == [s EXCEPT !.buffer = junk]
           emptied == SetCachePosition(fresh, f, 0)
<1>4. /\ s \in Cache /\ Empty(s) /\ s.cacheFilePosition >= 0 /\ s.file = cache.file
      /\ s.size = (IF s.mode = "readwrite" THEN 0 ELSE cache.size) /\ s.lost = FALSE
  BY <1>1, Opened
<1>5. cache' = [emptied EXCEPT !.isOpen = TRUE, !.err = 0,
                               !.fileSize = NativeSize(emptied, f),
                               !.nativePosition = emptied.filePos, !.lastRead = FALSE]
  BY <1>3 DEF CacheOpen
<1> HIDE DEF s, emptied
<1>6. junk \in [Slots -> Byte]
  BY BytesAssumption DEF BytesAssumption
<1> HIDE DEF junk
<1>7. fresh \in Cache
  BY <1>4, <1>6 DEF Cache
<1>8. Empty(fresh) /\ fresh.file = cache.file /\ fresh.mode = s.mode
      /\ fresh.size = s.size /\ fresh.lost = FALSE
  BY <1>4 DEF Cache, Empty
<1> HIDE DEF fresh
<1>9. ~Dirty(fresh)
  BY <1>7, <1>8, EmptyAgrees
<1> DEFINE returned == Returns(fresh, 0)
<1>10. returned \in Cache /\ returned.file = fresh.file /\ returned.size = fresh.size
       /\ returned.mode = fresh.mode /\ returned.lost = FALSE /\ returned.err = 0
  BY <1>7, <1>8 DEF Returns, Cache
<1>11. emptied = Relocate(returned, 0)
  BY <1>9, <1>10 DEF SetCachePosition, emptied
<1> HIDE DEF returned
<1>12. /\ emptied \in Cache /\ Empty(emptied) /\ emptied.cacheFilePosition = 0
       /\ emptied.file = cache.file /\ emptied.mode = s.mode /\ emptied.size = s.size
       /\ emptied.lost = FALSE
  BY <1>8, <1>10, <1>11, Relocated
<1>13. /\ NativeSize(emptied, f) = emptied.size /\ emptied.size \in Int
       /\ emptied.filePos \in Int /\ emptied.size \in Nat
  <2>1. f.size = TRUE
    BY NativeFields
  <2> QED BY <1>12, <2>1, CacheFields DEF NativeSize
<1>14. cache' \in Cache
  BY <1>5, <1>12, <1>13 DEF Cache
<1>15. /\ cache'.isOpen /\ cache'.fileSize = cache'.size /\ cache'.nativePosition = cache'.filePos
       /\ cache'.file = emptied.file /\ cache'.size = emptied.size /\ cache'.lost = emptied.lost
       /\ cache'.cacheFilePosition = 0 /\ cache'.mode = emptied.mode
  BY <1>5, <1>12, <1>13 DEF Cache
<1>16. Empty(cache')
  BY <1>5, <1>12 DEF Cache, Empty
<1>17. /\ Agrees(cache') /\ Ordered(cache') /\ Tell(cache') = 0
       /\ Visible(cache') = cache'.file /\ VisibleLength(cache') = cache'.size
  BY <1>14, <1>15, <1>16, EmptyAgrees
<1>18. Good(cache') /\ Place(cache') = 0
  BY <1>13, <1>15, <1>17 DEF Good, Knows, Place
<1>19. cache'.size = (IF cache'.mode = "readwrite" THEN 0 ELSE cache.size)
  BY <1>4, <1>12, <1>15
<1> QED BY <1>1, <1>12, <1>15, <1>17, <1>18, <1>19, IsOpening, NextInv, IdleCall

LEMMA CloseStep ==
  ASSUME Positioned, FileInv, Close
  PROVE  FileInv' /\ StoredFile!Close
<1> DEFINE s == [cache EXCEPT !.lost = FALSE]
           moved(f) == SetCachePosition(s, f, 0)
           junk == [j \in Slots |-> Junk]
<1>1. cache.isOpen /\ call' = Idle /\ gave' = {}
  BY DEF Close, Usable
<1>2. PICK f \in Native :
          cache' = [[moved(f) EXCEPT !.buffer = junk] EXCEPT !.isOpen = FALSE]
  BY DEF Close, CacheClose
<1> DEFINE t == moved(f)
<1>3. s \in Cache /\ Good(s) /\ Writable(s) /\ SameFile(cache, s)
  BY <1>1, ClearedLost
<1> HIDE DEF s
<1>4. Tell(s) = Tell(cache) /\ Tell(s) \in Nat /\ Place(cache) = Tell(cache)
      /\ VisibleLength(s) \in Nat /\ s.fileSize = VisibleLength(s)
  BY <1>1, <1>3, OpenGood DEF SameFile, SeenAlike
<1>5. Moved(s, t, 0) \/ Lost(s, t)
  BY <1>3, CachePositioned
<1>6. junk \in [Slots -> Byte]
  BY BytesAssumption DEF BytesAssumption
<1> HIDE DEF t, junk
<1>7. /\ t \in Cache /\ Empty(t) /\ t.cacheFilePosition >= 0
  <2>1. t.size \in Nat
    BY <1>5, CacheFields DEF Moved, Lost
  <2> QED BY <1>4, <1>5, <2>1 DEF Moved, Lost
<1>8. cache' = [t EXCEPT !.buffer = junk, !.isOpen = FALSE]
  <2>1. cache' = [[t EXCEPT !.buffer = junk] EXCEPT !.isOpen = FALSE]
    BY <1>2 DEF t
  <2> QED BY <1>7, <2>1 DEF Cache
<1>9. /\ cache' \in Cache /\ cache'.isOpen = FALSE /\ cache'.file = t.file
      /\ cache'.size = t.size /\ cache'.lost = t.lost
      /\ cache'.cacheFilePosition = t.cacheFilePosition
  BY <1>6, <1>7, <1>8 DEF Cache
<1>10. Empty(cache')
  BY <1>7, <1>8 DEF Cache, Empty
<1>11. /\ Ordered(cache') /\ Visible(cache') = cache'.file
       /\ VisibleLength(cache') = cache'.size /\ Place(cache') = 0
  BY <1>7, <1>9, <1>10, EmptyAgrees DEF Place
<1>12. (StoredFile!Kept /\ StoredFile!Saved /\ StoredFile!Quiet) \/ StoredFile!Lost
  <2>1. CASE Moved(s, t, 0)
    <3>1. cache'.file = Visible(cache) /\ cache'.size = VisibleLength(cache)
          /\ cache'.lost = FALSE
      BY <1>3, <1>9, <2>1 DEF Moved, SameFile, SeenAlike
    <3>2. /\ Visible(cache') = Visible(cache)
          /\ VisibleLength(cache') = VisibleLength(cache)
      BY <1>11, <3>1
    <3> QED BY <1>1, <3>1, <3>2, IsKept, IsSaved
  <2>2. CASE Lost(s, t)
    <3>1. PartOf(s, t) /\ cache'.lost = TRUE
      BY <1>9, <2>2 DEF Lost
    <3>2. PartOf(cache, cache')
      BY <1>3, <1>9, <3>1 DEF PartOf, SameFile, SeenAlike
    <3> QED BY <1>1, <1>11, <3>1, <3>2, IsLost
  <2> QED BY <1>5, <2>1, <2>2
<1>13. StoredFile!Close
  BY <1>1, <1>9, <1>11, <1>12, Views DEF StoredFile!Close
<1> QED BY <1>1, <1>9, <1>10, <1>11, <1>13, NextInv, IdleCall
-----------------------------------------------------------------------------
(* The record of a call, while its loop runs and when it returns.              *)
LEMMA ReadCall ==
  ASSUME NEW c \in Calls, c.op = "read", NEW left \in Nat
  PROVE  /\ c.left \in Nat /\ c.size \in ElementSizes
         /\ [c EXCEPT !.left = left] \in Calls /\ [c EXCEPT !.left = left].op = "read"
         /\ [c EXCEPT !.left = left].left = left
         /\ [c EXCEPT !.op = "done"] \in Calls /\ [c EXCEPT !.op = "done"].op = "done"
         /\ [c EXCEPT !.op = "done", !.ok = FALSE] \in Calls
         /\ [c EXCEPT !.op = "done", !.ok = FALSE].op = "done"
BY DEF Calls

LEMMA WriteCall ==
  ASSUME NEW c \in Calls, c.op = "write", NEW left \in Nat
  PROVE  /\ c.left \in Nat /\ c.byte \in Byte
         /\ [c EXCEPT !.left = left] \in Calls /\ [c EXCEPT !.left = left].op = "write"
         /\ [c EXCEPT !.left = left].left = left
BY DEF Calls

LEMMA Product ==
  ASSUME NEW size \in ElementSizes, NEW n \in 1 .. MaxElements
  PROVE  n * size \in Nat /\ size * n = n * size
BY SizesAssumption DEF SizesAssumption

LEMMA ReadStep ==
  ASSUME FileInv, NEW size \in ElementSizes, NEW n \in 1 .. MaxElements, Read(size, n)
  PROVE  FileInv' /\ StoredFile!Turn
<1>1. cache.isOpen /\ gave' = {} /\ cache' = [cache EXCEPT !.err = 0, !.lost = FALSE]
      /\ call' = [op |-> "read", size |-> size, want |-> n, left |-> n * size,
                  here |-> Left(cache), ok |-> TRUE]
  BY DEF Read, Usable
<1>2. cache \in Cache /\ Left(cache) \in Int
  BY <1>1, OpenGood, CacheFields DEF Left, Tell
<1>3. Alike(cache, cache') /\ cache'.lost = FALSE
  BY <1>1, <1>2, ClearedAlike
<1>4. cache'.isOpen /\ Good(cache') /\ StoredFile!Turn
  BY <1>1, <1>3, KeptStep
<1>5. call' \in Calls /\ call'.op = "read"
  <2> DEFINE left == n * size
             here == Left(cache)
  <2>1. left \in Nat /\ here \in Int
    BY <1>2, Product
  <2>2. call' = [op |-> "read", size |-> size, want |-> n, left |-> left,
                 here |-> here, ok |-> TRUE]
    BY <1>1
  <2> HIDE DEF left, here
  <2> QED BY <2>1, <2>2 DEF Calls
<1> QED BY <1>1, <1>4, <1>5, NextInv DEF Good

LEMMA ReadReturnsStep ==
  ASSUME FileInv, ReadReturns
  PROVE  FileInv' /\ StoredFile!Turn
<1>1. call \in Calls /\ call.op = "read" /\ gave' = {} /\ call' = [call EXCEPT !.op = "done"]
      /\ cache' = [cache EXCEPT !.lost = FALSE]
  BY DEF ReadReturns, FileInv, CallRight
<1>2. cache.isOpen
  BY <1>1 DEF FileInv, CallRight, Free
<1>3. Alike(cache, cache') /\ cache'.lost = FALSE
  BY <1>1, <1>2, ClearedLost
<1>4. cache'.isOpen /\ Good(cache') /\ StoredFile!Turn
  BY <1>1, <1>2, <1>3, KeptStep
<1>5. call' \in Calls /\ call'.op = "done"
  BY <1>1, ReadCall
<1> QED BY <1>1, <1>4, <1>5, NextInv DEF Good

LEMMA WriteReturnsStep ==
  ASSUME FileInv, WriteReturns
  PROVE  FileInv' /\ StoredFile!Turn
<1>1. call.op = "write" /\ gave' = {} /\ call' = Idle /\ cache' = [cache EXCEPT !.lost = FALSE]
  BY DEF WriteReturns
<1>2. cache.isOpen
  BY <1>1 DEF FileInv, CallRight, Free
<1>3. Alike(cache, cache') /\ cache'.lost = FALSE
  BY <1>1, <1>2, ClearedLost
<1>4. cache'.isOpen /\ Good(cache') /\ StoredFile!Turn
  BY <1>1, <1>2, <1>3, KeptStep
<1> QED BY <1>1, <1>4, IdleCall, NextInv DEF Good

(* The reader takes what the buffer has, and that is what the file has.        *)
LEMMA IsTake ==
  ASSUME Visible(cache') = Visible(cache), VisibleLength(cache') = VisibleLength(cache),
         cache'.file = cache.file, cache'.size = cache.size, cache'.lost = FALSE,
         NEW k \in 1 .. VisibleLength(cache) - Place(cache), Place(cache') = Place(cache) + k,
         gave' = {<<i, Visible(cache)[i]>> : i \in Place(cache) .. Place(cache) + k - 1},
         cache.isOpen, cache'.isOpen, VisibleLength(cache) \in Nat, Place(cache) \in Nat
  PROVE  StoredFile!Take(k)
BY Views DEF StoredFile!Take, StoredFile!Kept, StoredFile!NotSaved,
             StoredFile!SameUpTo

LEMMA ReadFromCacheStep ==
  ASSUME FileInv, ReadFromCache
  PROVE  FileInv' /\ StoredFile!Take(call.left - call'.left)
         /\ call.left - call'.left \in 1 .. MaxSize
<1> DEFINE k == Least(cache.endCachePos - cache.currentCachePos, call.left)
           at == Tell(cache)
           here == cache.currentCachePos
           base == cache.cacheFilePosition
           left == call.left - k
<1>1. /\ call \in Calls /\ call.op = "read" /\ call.left > 0
      /\ cache.endCachePos > cache.currentCachePos
      /\ cache' = [cache EXCEPT !.currentCachePos = @ + k, !.lost = FALSE]
      /\ call' = [call EXCEPT !.left = left]
      /\ gave' = {<<at + j, cache.buffer[here + j]>> : j \in 0 .. k - 1}
  BY DEF ReadFromCache, Reading, FileInv, CallRight
<1>2. cache.isOpen /\ call.left \in Nat
  BY <1>1, ReadCall DEF FileInv, CallRight, Free
<1>3. /\ cache \in Cache /\ Good(cache) /\ Place(cache) = at /\ at \in Nat
      /\ VisibleLength(cache) \in 0 .. MaxSize
      /\ base + cache.endCachePos <= VisibleLength(cache)
  BY <1>2, OpenGood, EndInFile DEF Good
<1>4. /\ here \in Nat /\ cache.endCachePos \in Nat /\ base \in Nat /\ MaxSize \in Nat
      /\ at = base + here
  BY <1>3, CacheFields DEF Good, Ordered, Tell
<1>5. k \in Nat /\ k > 0 /\ left \in Nat /\ here + k <= cache.endCachePos
  BY <1>1, <1>2, <1>4 DEF Least
<1> DEFINE new == here + k
<1>6. new \in Nat
  BY <1>4, <1>5
<1> HIDE DEF k, left
<1>6a. cache' = [cache EXCEPT !.currentCachePos = new, !.lost = FALSE]
  BY <1>1, <1>3 DEF Cache
<1> HIDE DEF new
<1>7. /\ cache' \in Cache /\ Same(cache, cache') /\ cache'.buffer = cache.buffer
      /\ cache'.cacheFilePosition = base /\ cache'.currentCachePos = new
      /\ cache'.endCachePos = cache.endCachePos
      /\ cache'.cacheUpdateStart = cache.cacheUpdateStart
      /\ cache'.cacheUpdateEnd = cache.cacheUpdateEnd /\ cache'.fileSize = cache.fileSize
      /\ cache'.nativePosition = cache.nativePosition /\ cache'.filePos = cache.filePos
      /\ cache'.file = cache.file /\ cache'.size = cache.size /\ cache'.lost = FALSE
  BY <1>3, <1>6, <1>6a DEF Cache, Same
<1>8. Dirty(cache') = Dirty(cache) /\ Tell(cache') = at + k
  BY <1>4, <1>5, <1>7 DEF Dirty, Tell, new
<1>9. Visible(cache') = Visible(cache) /\ VisibleLength(cache') = VisibleLength(cache)
  BY <1>7, <1>8 DEF Visible, VisibleLength, InRange
<1>10. at + k <= VisibleLength(cache)
  BY <1>3, <1>4, <1>5
<1>11. Good(cache')
  <2>1. Ordered(cache')
    BY <1>3, <1>4, <1>5, <1>7, <1>8 DEF Good, Ordered, Same, new
  <2>2. Knows(cache')
    BY <1>3, <1>7, <1>8, <1>9, <1>10 DEF Good, Knows
  <2>3. Agrees(cache')
    BY <1>3, <1>7 DEF Good, Agrees
  <2> QED BY <2>1, <2>2, <2>3 DEF Good
<1>12. cache'.isOpen /\ Place(cache') = at + k
  BY <1>2, <1>7, <1>8 DEF Same, Place
<1>13. ASSUME NEW j \in 0 .. k - 1
       PROVE  /\ at + j \in Positions /\ cache.buffer[here + j] \in Byte
              /\ cache.buffer[here + j] = Visible(cache)[at + j]
  <2>1. here + j \in 0 .. cache.endCachePos - 1 /\ base + (here + j) = at + j
    BY <1>4, <1>5
  <2>2. here + j \in Slots /\ at + j \in Positions
        /\ Visible(cache)[at + j] = cache.buffer[here + j]
    BY <1>3, <2>1, Shown DEF Good
  <2> QED BY <1>3, <2>2, CacheFields
<1>14. gave' \subseteq Positions \X Byte
  BY <1>1, <1>13
<1>15. gave' = {<<i, Visible(cache)[i]>> : i \in at .. at + k - 1}
  <2>1. gave' = {<<at + j, Visible(cache)[at + j]>> : j \in 0 .. k - 1}
    BY <1>1, <1>13
  <2>2. \A i \in at .. at + k - 1 : i - at \in 0 .. k - 1 /\ at + (i - at) = i
    BY <1>3, <1>5
  <2>3. \A j \in 0 .. k - 1 : at + j \in at .. at + k - 1
    BY <1>3, <1>5
  <2> HIDE DEF at
  <2> QED BY ONLY <2>1, <2>2, <2>3
<1>16. k \in 1 .. VisibleLength(cache) - Place(cache)
  BY <1>3, <1>5, <1>10
<1>17. StoredFile!Take(k)
  <2>1. Place(cache) \in Nat /\ VisibleLength(cache) \in Nat /\ Place(cache') = Place(cache) + k
        /\ cache'.isOpen
    BY <1>3, <1>4, <1>12
  <2>2. gave' = {<<i, Visible(cache)[i]>> : i \in Place(cache) .. Place(cache) + k - 1}
    BY <1>3, <1>15
  <2>3. cache'.file = cache.file /\ cache'.size = cache.size /\ cache'.lost = FALSE
    BY <1>7
  <2> QED BY ONLY <1>2, <1>9, <1>16, <2>1, <2>2, <2>3, IsTake
<1>18. call' \in Calls /\ call'.op = "read" /\ call'.left = left
  BY <1>1, <1>5, ReadCall
<1>19. call.left - call'.left = k /\ k \in 1 .. MaxSize
  BY <1>2, <1>3, <1>4, <1>5, <1>16, <1>18 DEF left
<1>20. FileInv'
  BY <1>11, <1>12, <1>14, <1>18, NextInv DEF Good
<1> QED BY <1>17, <1>19, <1>20

LEMMA ReadFillStep ==
  ASSUME Positioned, FileInv, ReadFill
  PROVE  FileInv' /\ StoredFile!Turn
<1> DEFINE s == [cache EXCEPT !.lost = FALSE]
           filled(f) == FillCacheFromFile(s, f)
<1>1. /\ call \in Calls /\ call.op = "read" /\ cache.endCachePos = cache.currentCachePos
      /\ gave' = {}
      /\ \/ call' = [call EXCEPT !.op = "done", !.ok = FALSE]
         \/ call' = call
  BY DEF ReadFill, Reading, FileInv, CallRight
<1>2. PICK f \in Native : cache' = filled(f)
  BY DEF ReadFill
<1>3. cache.isOpen
  BY <1>1 DEF FileInv, CallRight, Free
<1>4. s \in Cache /\ Good(s) /\ Writable(s) /\ Alike(cache, s) /\ SameFile(cache, s)
  BY <1>3, ClearedLost
<1> HIDE DEF s
<1>5. s.endCachePos = s.currentCachePos
  BY <1>1, <1>4 DEF Alike
<1>6. Filled(s, cache') \/ Lost(s, cache')
  BY <1>2, <1>4, <1>5, CacheFilled DEF Good
<1>7. cache'.isOpen /\ Good(cache') /\ StoredFile!Turn
  <2>1. CASE Lost(s, cache')
    BY <1>1, <1>3, <1>4, <2>1, LostStep
  <2>2. CASE Filled(s, cache')
    <3>1. /\ Good(cache') /\ Tell(cache') = Tell(cache) /\ cache'.lost = FALSE
          /\ Visible(cache') = Visible(cache) /\ VisibleLength(cache') = VisibleLength(cache)
          /\ cache'.file = Visible(cache) /\ cache'.size = VisibleLength(cache)
          /\ Same(s, cache')
      BY <1>4, <2>2, FilledRight DEF SameFile, SeenAlike
    <3>2. cache'.isOpen /\ Place(cache') = Place(cache)
          /\ Place(cache) \in 0 .. VisibleLength(cache)
      BY <1>3, <1>4, <3>1, OpenGood DEF Same, SameFile, Place
    <3>3. StoredFile!Kept /\ (StoredFile!Saved \/ StoredFile!NotSaved) /\ StoredFile!Quiet
      BY <1>1, <3>1, IsKept
    <3> QED BY <1>3, <3>1, <3>2, <3>3, IsTurn
  <2> QED BY <1>6, <2>1, <2>2
<1>8. call' \in Calls /\ call'.op # "write"
  BY <1>1, ReadCall
<1> QED BY <1>1, <1>7, <1>8, NextInv DEF Good
-----------------------------------------------------------------------------
(* What the invariant says of a write in progress.                             *)
LEMMA WriteGoing ==
  ASSUME FileInv, call.op = "write"
  PROVE  /\ call \in Calls /\ cache.isOpen /\ call.left \in Nat /\ call.byte \in Byte
         /\ Tell(cache) + call.left <= MaxSize
         /\ cache.mode = "append" => Tell(cache) = cache.fileSize
BY WriteCall DEF FileInv, CallRight, Free

LEMMA WriteStep ==
  ASSUME Positioned, FileInv, NEW size \in ElementSizes, NEW n \in 1 .. MaxElements,
         NEW b \in Byte, Write(size, n, b)
  PROVE  FileInv' /\ StoredFile!Next
<1> DEFINE s == [cache EXCEPT !.err = 0, !.lost = FALSE]
           appends == s.mode = "append" /\ Tell(s) # s.fileSize
           ready(f) == IF appends THEN SetCachePosition(s, f, s.fileSize) ELSE s
           left == n * size
           begun == [op |-> "write", size |-> size, left |-> left, byte |-> b]
<1>1. cache.isOpen /\ gave' = {}
      /\ (IF appends THEN s.fileSize ELSE Tell(s)) + size * n <= MaxSize
  <2>1. Tell(s) = Tell(cache)
    BY DEF Tell
  <2> QED BY <2>1 DEF Write, Usable
<1>2. PICK f \in Native : /\ cache' = ready(f)
                          /\ call' = IF ready(f).err # 0 THEN Idle ELSE begun
  BY DEF Write
<1>3. left \in Nat /\ left = size * n
  BY Product
<1> HIDE DEF left
<1>4. begun \in Calls /\ begun.op = "write" /\ begun.left = left
  BY <1>3 DEF Calls
<1> HIDE DEF begun
<1>5. cache \in Cache /\ Good(cache) /\ cache.fileSize = VisibleLength(cache)
      /\ VisibleLength(cache) \in Nat
  BY <1>1, OpenGood
<1>6. Alike(cache, s) /\ s.lost = FALSE /\ s.err = 0
  BY <1>5, ClearedAlike
<1>7. s \in Cache /\ Good(s) /\ Writable(s) /\ SameFile(cache, s)
  BY <1>5, <1>6, SetOut
<1> HIDE DEF s
<1>8. CASE ~appends
  <2>1. cache' = s /\ call' = begun
    BY <1>2, <1>6, <1>8
  <2>2. cache'.isOpen /\ Good(cache') /\ StoredFile!Turn
    BY <1>1, <1>6, <2>1, KeptStep
  <2>3. Tell(cache') + call'.left <= MaxSize
        /\ (cache'.mode = "append" => Tell(cache') = cache'.fileSize)
    BY <1>1, <1>3, <1>4, <1>8, <2>1
  <2> QED BY <1>1, <1>4, <2>1, <2>2, <2>3, NextInv DEF Good, StoredFile!Next
<1>9. CASE appends
  <2>1. cache' = SetCachePosition(s, f, s.fileSize)
    BY <1>2, <1>9
  <2>2. s.fileSize = VisibleLength(cache) /\ s.fileSize \in Int
        /\ s.fileSize \in 0 .. VisibleLength(cache)
    BY <1>5, <1>7 DEF SameFile
  <2>3. CASE Moved(s, cache', s.fileSize)
    <3>1. /\ cache'.isOpen /\ Good(cache') /\ Tell(cache') = s.fileSize
          /\ cache'.fileSize = s.fileSize /\ Place(cache') = s.fileSize
          /\ StoredFile!Kept /\ StoredFile!Saved /\ StoredFile!Quiet
      BY <1>1, <1>5, <1>7, <2>2, <2>3, MovedStep DEF Good
    <3>1a. StoredFile!Next
      <4>1. s.fileSize \in 0 .. MaxSize
        BY <1>1, <2>2, OpenGood
      <4>2. StoredFile!Seek(s.fileSize)
        BY <1>1, <2>2, <3>1, Views DEF StoredFile!Seek
      <4> QED BY <4>1, <4>2 DEF StoredFile!Next
    <3>2. call' = begun
      BY <1>2, <2>3 DEF Moved
    <3>3. Tell(cache') + call'.left <= MaxSize
      BY <1>1, <1>3, <1>4, <1>9, <3>1, <3>2
    <3> QED BY <1>1, <1>4, <3>1, <3>1a, <3>2, <3>3, NextInv DEF Good
  <2>4. CASE Lost(s, cache')
    <3>1. cache'.isOpen /\ Good(cache') /\ StoredFile!Next /\ cache'.err = -1
      BY <1>1, <1>7, <2>4, LostStep DEF StoredFile!Next
    <3>2. call' = Idle
      BY <1>2, <3>1
    <3> QED BY <1>1, <3>1, <3>2, IdleCall, NextInv DEF Good
  <2> QED BY <1>7, <2>1, <2>2, <2>3, <2>4, CachePositioned
<1> QED BY <1>8, <1>9

(* The writer puts bytes at the position.                                      *)
LEMMA IsPut ==
  ASSUME cache'.file = cache.file, cache'.size = cache.size, cache'.lost = FALSE, gave' = {},
         cache.isOpen, cache'.isOpen, Place(cache) \in Nat, MaxSize \in Nat,
         NEW k \in 1 .. MaxSize - Place(cache), NEW b \in Byte,
         Place(cache') = Place(cache) + k,
         VisibleLength(cache') = (IF Place(cache) + k > VisibleLength(cache)
                                  THEN Place(cache) + k ELSE VisibleLength(cache)),
         \A i \in 0 .. VisibleLength(cache') - 1 :
             Visible(cache')[i] = IF Place(cache) <= i /\ i < Place(cache) + k THEN b
                                  ELSE Visible(cache)[i]
  PROVE  StoredFile!Put(k, b)
BY Views DEF StoredFile!Put, StoredFile!NotSaved, StoredFile!Quiet

LEMMA WriteToCacheStep ==
  ASSUME FileInv, WriteToCache
  PROVE  FileInv' /\ StoredFile!Put(call.left - call'.left, call.byte)
         /\ call.left - call'.left \in 1 .. MaxSize /\ call.byte \in Byte
<1> DEFINE s == [cache EXCEPT !.lost = FALSE]
           k == Least(CacheSize - cache.currentCachePos, call.left)
           b == call.byte
           left == call.left - k
<1>1. /\ call.op = "write" /\ call.left > 0 /\ cache.currentCachePos < CacheSize
      /\ cache' = CopyToCache(s, k, b) /\ call' = [call EXCEPT !.left = left] /\ gave' = {}
  BY DEF WriteToCache, Writing
<1>2. /\ call \in Calls /\ cache.isOpen /\ call.left \in Nat /\ b \in Byte
      /\ Tell(cache) + call.left <= MaxSize
      /\ cache.mode = "append" => Tell(cache) = cache.fileSize
  BY <1>1, WriteGoing
<1>3. cache \in Cache /\ Tell(cache) \in Nat /\ Place(cache) = Tell(cache)
      /\ cache.fileSize = VisibleLength(cache)
  BY <1>2, OpenGood
<1>4. /\ s \in Cache /\ Good(s) /\ Alike(cache, s) /\ SameFile(cache, s) /\ s.lost = FALSE
  BY <1>2, ClearedLost
<1>5. k \in Nat /\ k > 0 /\ k <= call.left /\ cache.currentCachePos + k <= CacheSize
      /\ left \in Nat /\ left = call.left - k /\ MaxSize \in Nat
  BY <1>1, <1>2, <1>3, CacheFields DEF Least
<1> HIDE DEF s, k, left, b
<1>6. Tell(s) = Tell(cache) /\ s.currentCachePos = cache.currentCachePos
      /\ s.fileSize = cache.fileSize /\ s.mode = cache.mode /\ s.isOpen = cache.isOpen
      /\ Visible(s) = Visible(cache) /\ VisibleLength(s) = VisibleLength(cache)
      /\ s.file = cache.file /\ s.size = cache.size
  BY <1>4 DEF SameFile, SeenAlike, Alike, Same
<1>7. Copyable(s, k, b)
  BY <1>2, <1>3, <1>4, <1>5, <1>6 DEF Copyable, Good
<1>8. Copied(s, cache', k, b)
  BY <1>1, <1>4, <1>7, BytesCopied
<1>9. Good(cache') /\ Same(s, cache') /\ Tell(cache') = Tell(cache) + k
      /\ (s.mode = "append" => Tell(cache') = cache'.fileSize)
  BY <1>6, <1>8 DEF Copied, Good
<1>10. cache'.isOpen /\ Place(cache') = Place(cache) + k
  BY <1>2, <1>3, <1>6, <1>9 DEF Same, Place
<1>11. k \in 1 .. MaxSize - Place(cache)
  BY <1>2, <1>3, <1>5
<1>12. StoredFile!Put(k, b)
  <2>1. /\ cache'.file = cache.file /\ cache'.size = cache.size /\ cache'.lost = FALSE
        /\ VisibleLength(cache') = (IF Place(cache) + k > VisibleLength(cache)
                                    THEN Place(cache) + k ELSE VisibleLength(cache))
        /\ \A i \in 0 .. VisibleLength(cache') - 1 :
               Visible(cache')[i] = IF Place(cache) <= i /\ i < Place(cache) + k THEN b
                                    ELSE Visible(cache)[i]
    BY <1>3, <1>4, <1>6, <1>8 DEF Copied
  <2> QED BY <1>1, <1>2, <1>3, <1>5, <1>10, <1>11, <2>1, IsPut
<1>13. call' \in Calls /\ call'.op = "write" /\ call'.left = left
  BY <1>1, <1>2, <1>5, WriteCall
<1>14. Tell(cache') + call'.left <= MaxSize
       /\ (cache'.mode = "append" => Tell(cache') = cache'.fileSize)
  BY <1>2, <1>3, <1>5, <1>9, <1>13 DEF Same
<1>15. call.left - call'.left = k /\ k \in 1 .. MaxSize
  BY <1>2, <1>3, <1>5, <1>11, <1>13
<1>16. FileInv'
  BY <1>1, <1>9, <1>10, <1>13, <1>14, NextInv DEF Good
<1> QED BY <1>2, <1>12, <1>15, <1>16 DEF b

LEMMA WriteWhenFullStep ==
  ASSUME Positioned, FileInv, WriteWhenFull
  PROVE  FileInv' /\ StoredFile!Turn
<1> DEFINE s == [cache EXCEPT !.lost = FALSE]
           moved(f) == SetCachePosition(s, f, Tell(s))
<1>1. call.op = "write" /\ gave' = {}
  BY DEF WriteWhenFull, Writing
<1>2. PICK f \in Native : /\ cache' = moved(f)
                          /\ call' = IF moved(f).err # 0 THEN Idle ELSE call
  BY DEF WriteWhenFull, MakeRoom
<1>3. /\ call \in Calls /\ cache.isOpen /\ Tell(cache) + call.left <= MaxSize
      /\ cache.mode = "append" => Tell(cache) = cache.fileSize
  BY <1>1, WriteGoing
<1>4. s \in Cache /\ Good(s) /\ Writable(s) /\ SameFile(cache, s)
  BY <1>3, ClearedLost
<1> HIDE DEF s
<1>5. Tell(s) = Tell(cache) /\ Tell(s) \in 0 .. VisibleLength(cache) /\ Tell(s) \in Int
      /\ cache.fileSize = VisibleLength(cache)
  BY <1>3, <1>4, OpenGood DEF SameFile, SeenAlike
<1>6. CASE Moved(s, cache', Tell(s))
  <2>1. /\ cache'.isOpen /\ Good(cache') /\ Tell(cache') = Tell(cache)
        /\ Same(cache, cache') /\ cache'.fileSize = cache.fileSize
        /\ Place(cache') = Tell(cache) /\ VisibleLength(cache') = VisibleLength(cache)
        /\ StoredFile!Kept /\ StoredFile!Saved /\ StoredFile!Quiet
    BY <1>1, <1>3, <1>4, <1>5, <1>6, MovedStep DEF Good
  <2>1a. StoredFile!Turn
    BY <1>3, <2>1, OpenGood, IsTurn
  <2>2. call' = call
    BY <1>2, <1>6 DEF Moved
  <2>3. cache'.mode = cache.mode
    BY <2>1 DEF Same
  <2> QED BY <1>1, <1>3, <2>1, <2>1a, <2>2, <2>3, NextInv DEF Good
<1>7. CASE Lost(s, cache')
  <2>1. cache'.isOpen /\ Good(cache') /\ StoredFile!Turn /\ cache'.err = -1
    BY <1>1, <1>3, <1>4, <1>7, LostStep
  <2>2. call' = Idle
    BY <1>2, <2>1
  <2> QED BY <1>1, <2>1, <2>2, IdleCall, NextInv DEF Good
<1> QED BY <1>2, <1>4, <1>5, <1>6, <1>7, CachePositioned
-----------------------------------------------------------------------------
LEMMA FileInvInit ==
  ASSUME Init
  PROVE  FileInv /\ StoredFile!Init
<1>1. /\ cache \in Cache /\ cache.isOpen = FALSE /\ cache.cacheFilePosition = 0
      /\ Empty(cache) /\ cache.lost = FALSE
  <2> DEFINE junk == [j \in Slots |-> Junk]
  <2>1. junk \in [Slots -> Byte]
    BY BytesAssumption DEF BytesAssumption
  <2>2. Contents \subseteq [Positions -> Byte]
    BY BytesAssumption DEF BytesAssumption, Positions
  <2>3. cache \in [isOpen : {FALSE}, mode : {"none"}, buffer : {junk},
                   cacheFilePosition : {0}, currentCachePos : {0}, endCachePos : {0},
                   cacheUpdateStart : {0}, cacheUpdateEnd : {0}, fileSize : {0},
                   nativePosition : {0}, file : Contents, size : 0 .. MaxSize,
                   filePos : {0}, lastRead : {FALSE}, err : {0}, lost : {FALSE}]
    BY DEF Init
  <2> HIDE DEF junk
  <2>4. cache \in Cache
    <3> DEFINE file == cache.file
               size == cache.size
    <3>1. file \in [Positions -> Byte] /\ size \in 0 .. MaxSize
      BY ONLY <2>2, <2>3
    <3>2. cache = [isOpen |-> FALSE, mode |-> "none", buffer |-> junk,
                   cacheFilePosition |-> 0, currentCachePos |-> 0, endCachePos |-> 0,
                   cacheUpdateStart |-> 0, cacheUpdateEnd |-> 0, fileSize |-> 0,
                   nativePosition |-> 0, file |-> file, size |-> size,
                   filePos |-> 0, lastRead |-> FALSE, err |-> 0, lost |-> FALSE]
      BY ONLY <2>3
    <3> HIDE DEF file, size
    <3> QED BY ONLY <2>1, <3>1, <3>2 DEF Cache
  <2>5. /\ cache.isOpen = FALSE /\ cache.cacheFilePosition = 0 /\ cache.lost = FALSE
        /\ cache.currentCachePos = 0 /\ cache.endCachePos = 0
        /\ cache.cacheUpdateStart = 0 /\ cache.cacheUpdateEnd = 0
    BY ONLY <2>3
  <2> QED BY <2>4, <2>5 DEF Empty
<1>2. Ordered(cache) /\ Visible(cache) = cache.file /\ VisibleLength(cache) = cache.size
  BY <1>1, EmptyAgrees
<1>3. call = Idle /\ gave = {}
  BY DEF Init
<1>4. FileInv
  BY <1>1, <1>2, <1>3, IdleCall DEF FileInv, CacheRight, CallRight, Free
<1>5. StoredFile!Init
  <2>1. cache.file \in [0 .. MaxSize - 1 -> Byte] /\ cache.size \in 0 .. MaxSize
    BY <1>1, CacheFields DEF Positions
  <2> QED BY <1>1, <1>2, <1>3, <2>1
          DEF StoredFile!Init, StoredFile!Files, StoredFile!Positions
<1> QED BY <1>4, <1>5

(* A target that is not in the file leaves the position, as a turn does.       *)
LEMMA SeekIsNext ==
  ASSUME FileInv, NEW pos \in -1 .. MaxSize + 1, Seek(pos), StoredFile!Seek(pos)
  PROVE  StoredFile!Next
<1>1. cache.isOpen
  BY DEF Seek, Usable
<1>2. Place(cache) \in 0 .. VisibleLength(cache) /\ VisibleLength(cache) \in 0 .. MaxSize
      /\ MaxSize \in Nat
  BY <1>1, OpenGood, CacheFields
<1>3. CASE pos \in 0 .. MaxSize
  BY <1>3 DEF StoredFile!Next
<1>4. CASE pos \notin 0 .. MaxSize
  <2>1. ~(0 <= pos /\ pos <= VisibleLength(cache))
    BY <1>2, <1>4
  <2>2. CASE StoredFile!Kept /\ (StoredFile!Saved \/ StoredFile!NotSaved) /\ StoredFile!Quiet
             /\ Place(cache') = Place(cache)
    <3>1. VisibleLength(cache') = VisibleLength(cache) /\ cache'.isOpen
      BY <2>2, Views DEF StoredFile!Kept, StoredFile!Seek
    <3> QED BY <1>1, <1>2, <2>2, <3>1, IsTurn DEF StoredFile!Next
  <2>3. CASE StoredFile!Lost /\ StoredFile!Stays
    BY <1>1, <2>3, Views DEF StoredFile!Seek, StoredFile!Turn, StoredFile!Next
  <2> QED BY <2>1, <2>2, <2>3, Views DEF StoredFile!Seek
<1> QED BY <1>3, <1>4

LEMMA FileInvStep ==
  ASSUME Positioned, FileInv, [Next]_vars
  PROVE  FileInv' /\ [StoredFile!Next]_(StoredFile!vars)
<1>1. CASE UNCHANGED vars
  <2>1. cache' = cache /\ call' = call /\ gave' = gave
    BY <1>1 DEF vars
  <2>2. FileInv'
    BY <2>1 DEF FileInv, CallRight, Free, Tell
  <2>3. UNCHANGED StoredFile!vars
    BY <2>1, Views DEF StoredFile!vars
  <2> QED BY <2>2, <2>3
<1>2. CASE Turn
  <2>1. CASE ReadFill \/ ReadReturns \/ WriteWhenFull \/ WriteReturns
    BY <2>1, ReadFillStep, ReadReturnsStep, WriteWhenFullStep, WriteReturnsStep
       DEF StoredFile!Next
  <2>2. CASE ReadFromCache
    <3>1. PICK k \in 1 .. MaxSize : StoredFile!Take(k)
      BY <2>2, ReadFromCacheStep
    <3>2. FileInv'
      BY <2>2, ReadFromCacheStep
    <3> QED BY <3>1, <3>2 DEF StoredFile!Next
  <2>3. CASE WriteToCache
    <3>1. PICK k \in 1 .. MaxSize, b \in Byte : StoredFile!Put(k, b)
      BY <2>3, WriteToCacheStep
    <3>2. FileInv'
      BY <2>3, WriteToCacheStep
    <3> QED BY <3>1, <3>2 DEF StoredFile!Next
  <2> QED BY <1>2, <2>1, <2>2, <2>3 DEF Turn
<1>3. CASE Open \/ OpenWithoutMemory \/ Close \/ Flush
  <2>1. (cache'.mode = "readwrite") \in BOOLEAN
    OBVIOUS
  <2> QED BY <1>3, <2>1, OpenStep, OpenWithoutMemoryStep, CloseStep, FlushStep
          DEF StoredFile!Next
<1>4. CASE \E pos \in -1 .. MaxSize + 1 : Seek(pos)
  BY <1>4, SeekStep, SeekIsNext
<1>5. CASE \E size \in ElementSizes, n \in 1 .. MaxElements :
               Read(size, n) \/ \E b \in Byte \ {Junk} : Write(size, n, b)
  BY <1>5, ReadStep, WriteStep DEF StoredFile!Next
<1> QED BY <1>1, <1>2, <1>3, <1>4, <1>5 DEF Next, Caller
-----------------------------------------------------------------------------
(* The inductive invariant holds in every state.                               *)
THEOREM CacheStaysRight == Positioned => (Spec => []FileInv)
<1> SUFFICES ASSUME Positioned PROVE Spec => []FileInv
  OBVIOUS
<1>1. Init => FileInv
  BY FileInvInit
<1>2. FileInv /\ [Next]_vars => FileInv'
  BY FileInvStep
<1> QED BY <1>1, <1>2, PTL DEF Spec

(* Its parts are the invariants the run checks.                                *)
LEMMA ReadableInv ==
  ASSUME FileInv
  PROVE  WellFormed /\ NativePositionIsTrue /\ CacheAgrees
<1>1. Ordered(cache) /\ (IF cache.isOpen THEN Knows(cache) /\ Agrees(cache) ELSE Empty(cache))
  BY DEF FileInv, CacheRight
<1>2. TypeOK
  BY <1>1 DEF TypeOK, FileInv, CallRight, Ordered
<1>3. CursorsInOrder
  BY <1>1 DEF CursorsInOrder, Ordered, Knows
<1>4. NativePositionIsTrue /\ CacheAgrees
  BY <1>1 DEF NativePositionIsTrue, CacheAgrees, Knows, Agrees
<1> QED BY <1>2, <1>3, <1>4 DEF WellFormed

(* The cursors of the cache stay in order and its size is the size the caller  *)
(* sees, through every loop, flush, refill and recovery.                       *)
THEOREM CursorsStayInOrder == Positioned => (Spec => []WellFormed)
<1> SUFFICES ASSUME Positioned PROVE Spec => []WellFormed
  OBVIOUS
<1>1. FileInv => WellFormed
  BY ReadableInv
<1>2. Spec => []FileInv
  BY CacheStaysRight
<1> QED BY <1>1, <1>2, PTL

(* _nativePosition is where the native file is, in every state between calls   *)
(* and within them.                                                            *)
THEOREM NativePositionStaysTrue == Positioned => (Spec => []NativePositionIsTrue)
<1> SUFFICES ASSUME Positioned PROVE Spec => []NativePositionIsTrue
  OBVIOUS
<1>1. FileInv => NativePositionIsTrue
  BY ReadableInv
<1>2. Spec => []FileInv
  BY CacheStaysRight
<1> QED BY <1>1, <1>2, PTL

(* The buffer never holds a stale byte of the file.                            *)
THEOREM CacheStaysAgreed == Positioned => (Spec => []CacheAgrees)
<1> SUFFICES ASSUME Positioned PROVE Spec => []CacheAgrees
  OBVIOUS
<1>1. FileInv => CacheAgrees
  BY ReadableInv
<1>2. Spec => []FileInv
  BY CacheStaysRight
<1> QED BY <1>1, <1>2, PTL

(* Each call is that call of the plain file.                                   *)
LEMMA ActsStep ==
  ASSUME Positioned, FileInv, [Next]_vars
  PROVE  [ActsAsCalled]_vars
<1>1. /\ Open \/ OpenWithoutMemory => StoredFile!Open(cache'.mode = "readwrite")
      /\ Close => StoredFile!Close
      /\ Flush => StoredFile!Flush
  BY OpenStep, OpenWithoutMemoryStep, CloseStep, FlushStep
<1>2. \A pos \in -1 .. MaxSize + 1 : Seek(pos) => StoredFile!Seek(pos)
  BY SeekStep
<1>3. /\ ReadFromCache => StoredFile!Take(call.left - call'.left)
      /\ WriteToCache  => StoredFile!Put(call.left - call'.left, call.byte)
  BY ReadFromCacheStep, WriteToCacheStep
<1> QED BY <1>1, <1>2, <1>3 DEF ActsAsCalled

(* The cached file is a plain file to its caller, call by call: FileCache      *)
(* implements StoredFile.                                                      *)
THEOREM CacheIsStoredFile == Positioned => (Spec => IsStoredFile)
<1> SUFFICES ASSUME Positioned PROVE Spec => IsStoredFile
  OBVIOUS
<1> DEFINE Acts == ActsAsCalled
<1>1. Init => StoredFile!Init
  BY FileInvInit
<1>2. FileInv /\ [Next]_vars => [StoredFile!Next]_(StoredFile!vars)
  BY FileInvStep
<1>3. FileInv /\ [Next]_vars => [Acts]_vars
  BY ActsStep
<1>4. IsStoredFile <=> StoredFile!Init /\ [][StoredFile!Next]_(StoredFile!vars) /\ [][Acts]_vars
  BY DEF IsStoredFile, StoredFile!Spec
<1>5. Spec => []FileInv
  BY CacheStaysRight
<1> HIDE DEF Acts
<1> QED BY <1>1, <1>2, <1>3, <1>4, <1>5, PTL DEF Spec
=============================================================================
