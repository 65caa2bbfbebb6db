--------------------------- MODULE AsyncFileProofs ---------------------------
(* Proofs about AsyncFile, for any sizes of file, buffers and elements, any    *)
(* number of buffers, and native calls of the reading thread, seeks and opens  *)
(* that fail: its invariant, and that it implements StoredFile.                *)
EXTENDS AsyncFile, FiniteSetTheorems, WellFoundedInduction, TLAPS

(* The premise: a debug build, which a failed assertion ends, and no native    *)
(* read of the caller's own that fails.                                        *)
DebugBuild == NDebug = FALSE /\ "syncRead" \notin Faults

(* What the thread has brought and Run has not counted yet.                    *)
Brought ==
    IF request = "ready" \/ (request = "pending" /\ thread.pc = "complete")
    THEN thread.numBytes ELSE 0

(* A buffer holds the bytes of the file from its offset on.                    *)
BufferRight(b) ==
    /\ End(b) <= FileSize
    /\ b.valid => End(b) > 0 \/ FileSize = 0
    /\ \A j \in 0 .. b.length - 1 : b.data[j] = b.offset + j

BuffersRight(f) ==
    /\ f \in File
    /\ \A i \in Ids : BufferRight(f.buffers[i])
    /\ \A k \in DOMAIN f.linked : f.buffers[f.linked[k]].valid
    /\ f.filling # NoBuffer => f.buffers[f.filling].valid /\ f.linked # <<>>

(* The thread has a buffer to fill once it was given a read. The k bytes it    *)
(* brought are right behind those counted, its handle is behind them all.      *)
Filled(f, k) ==
    IF f.filling = NoBuffer THEN f.asyncFilePosition = 0
    ELSE LET b == f.buffers[f.filling]
         IN  /\ f.asyncFilePosition > 0 /\ End(b) = f.asyncFilePosition
             /\ f.nativePosition = End(b) + k /\ b.length + k <= BufferSize
             /\ \A j \in b.length .. b.length + k - 1 : b.data[j] = b.offset + j

(* The place of the read given to the thread.                                  *)
Room(f) ==
    /\ f.filling # NoBuffer
    /\ f.slot = f.buffers[f.filling].length
    /\ f.buffers[f.filling].length + ReadSize <= BufferSize

FileRight ==
    /\ file.startAsyncRead
    /\ IF file.trouble = "assert" THEN request = "idle"
       ELSE /\ file.trouble = "none" /\ BuffersRight(file) /\ Filled(file, Brought)
            /\ request = "pending" => Room(file)
            /\ request # "idle" => file.filling # NoBuffer

(* Between opening and closing the thread waits, or serves the one request.    *)
Serves ==
    /\ thread.state = "active" /\ ~thread.exitFlag /\ thread.exitSem = 0
    /\ IF request = "pending"
       THEN \/ thread.readSem = 1 /\ thread.pc \in {"top", "wait"}
            \/ thread.readSem = 0 /\ thread.pc \in {"woken", "read", "complete"}
       ELSE thread.readSem = 0 /\ thread.pc \in {"top", "wait"}

AsyncInv ==
    /\ TypeOK /\ ~file.issue /\ file.trouble # "wild"
    /\ IsOpen => Serves /\ FileRight
    /\ client.op = "closed" =>
          /\ file = NewFile
          /\ thread = NoThread \/ (Serves /\ request = "idle")
-----------------------------------------------------------------------------
LEMMA Sizes ==
  /\ FileSize \in Nat /\ BufferSize \in Nat /\ ReadSize \in Nat /\ BufferCount \in Nat
  /\ ReadSize > 0 /\ BufferSize >= ReadSize /\ BufferSize > 0 /\ BufferCount >= 3
  /\ Ids \subseteq Nat /\ NoBuffer \notin Ids /\ 0 \in Ids /\ 1 \in Ids
BY AsyncAssumption DEF AsyncAssumption, Ids, NoBuffer

LEMMA LeastOf ==
  ASSUME NEW T \in SUBSET Nat, T # {}
  PROVE  \E x \in T : \A y \in T : x <= y
<1> DEFINE R == {ss \in Nat \X Nat : ss[1] < ss[2]}
<1>1. IsWellFoundedOn(R, Nat)
  BY NatLessThanWellFounded DEF OpToRel
<1>2. PICK x \in T : \A y \in T : ~ (<<y, x>> \in R)
  BY <1>1, WFMin, Zenon
<1>3. ASSUME NEW y \in T PROVE x <= y
  <2>1. x \in Nat /\ y \in Nat
    OBVIOUS
  <2>2. <<y, x>> \notin R
    BY <1>2
  <2>3. ~(y < x)
    BY <2>1, <2>2
  <2> QED BY <2>1, <2>3
<1> QED BY <1>3

LEMMA MinOf ==
  ASSUME NEW T \in SUBSET Nat, T # {}
  PROVE  Min(T) \in T /\ \A y \in T : Min(T) <= y
<1>1. \E x \in T : \A y \in T : x <= y
  BY LeastOf
<1> QED BY <1>1 DEF Min

(* Iterating a function of Q from an element of Q is well defined, as often as *)
(* one likes, and stays in Q.                                                  *)
Orbit(Q, q0, E, n) ==
    {g \in [0 .. n -> Q] : g[0] = q0 /\ \A k \in 1 .. n : g[k] = E[g[k - 1]]}

LEMMA Iterated ==
  ASSUME NEW Q, NEW q0 \in Q, NEW E \in [Q -> Q], NEW n \in Nat
  PROVE  Orbit(Q, q0, E, n) # {}
<1> DEFINE Reaches(m) ==
              \E g \in [0 .. m -> Q] : g[0] = q0 /\ \A k \in 1 .. m : g[k] = E[g[k - 1]]
           T == {m \in Nat : ~Reaches(m)}
<1>1. ASSUME NEW m \in Nat, Reaches(m)
      PROVE  Reaches(m + 1)
  <2>1. PICK g \in [0 .. m -> Q] : g[0] = q0 /\ \A k \in 1 .. m : g[k] = E[g[k - 1]]
    BY <1>1
  <2> DEFINE h == [k \in 0 .. m + 1 |-> IF k <= m THEN g[k] ELSE E[g[m]]]
  <2>2. h \in [0 .. m + 1 -> Q] /\ h[0] = q0
    BY <2>1
  <2>3. ASSUME NEW k \in 1 .. m + 1 PROVE h[k] = E[h[k - 1]]
    <3>1. CASE k = m + 1
      <4>1. h[k] = E[g[m]] /\ h[k - 1] = g[m]
        BY <3>1
      <4> QED BY <4>1
    <3>2. CASE k \in 1 .. m
      <4>1. h[k] = g[k] /\ h[k - 1] = g[k - 1]
        BY <3>2
      <4> QED BY <2>1, <3>2, <4>1
    <3> QED BY <3>1, <3>2
  <2> QED BY <2>2, <2>3
<1>2. Reaches(0)
  <2> DEFINE h == [k \in 0 .. 0 |-> q0]
  <2>1. h \in [0 .. 0 -> Q] /\ h[0] = q0 /\ \A k \in 1 .. 0 : FALSE
    OBVIOUS
  <2> HIDE DEF h
  <2> QED BY <2>1
<1>3. T = {}
  <2> SUFFICES ASSUME T # {} PROVE FALSE
    OBVIOUS
  <2>1. PICK m \in T : \A y \in T : m <= y
    BY LeastOf
  <2> HIDE DEF Reaches
  <2>2. m \in Nat /\ m # 0 /\ ~Reaches(m)
    BY <1>2, <2>1
  <2>3. m - 1 \in Nat /\ ~(m <= m - 1)
    BY <2>2
  <2>4. Reaches(m - 1)
    BY <2>1, <2>3
  <2> QED BY <1>1, <2>2, <2>3, <2>4
<1>4. Reaches(n)
  BY <1>3
<1> QED BY <1>4 DEF Orbit
-----------------------------------------------------------------------------
(* The reordered queue is of valid buffers, and is not empty.                  *)
LEMMA Reordered ==
  ASSUME NEW f \in File, NEW first \in Ids, f.buffers[first].valid
  PROVE  LET q == ReOrderBuffersQueue(f, first)
         IN  q \in Seq(Ids) /\ q # <<>> /\ \A k \in DOMAIN q : f.buffers[q[k]].valid
<1> DEFINE V == {i \in Ids : f.buffers[i].valid}
           Q == Seq(V) \ {<<>>}
           next(q) == Followers(f, Last(q))
           longer(q) == IF next(q) = {} THEN q ELSE q \o <<Min(next(q))>>
           E == [q \in Q |-> longer(q)]
           Right(g) == g = [k \in 0 .. BufferCount |->
                               IF k = 0 THEN <<first>> ELSE longer(g[k - 1])]
           queue == CHOOSE g : Right(g)
<1>1. ASSUME NEW q \in Q PROVE longer(q) \in Q
  <2>1. next(q) \in SUBSET Nat /\ next(q) \subseteq V
    BY Sizes DEF Followers
  <2>2. next(q) # {} => Min(next(q)) \in V
    BY <2>1, MinOf
  <2> HIDE DEF V, next
  <2> QED BY <2>2
<1>2. E \in [Q -> Q] /\ <<first>> \in Q
  <2> HIDE DEF longer
  <2>1. E \in [Q -> Q]
    BY <1>1
  <2> QED BY <2>1
<1>3. ReOrderBuffersQueue(f, first) = queue[BufferCount]
  BY DEF ReOrderBuffersQueue
<1> HIDE DEF V, longer, next
<1>4. PICK g \in [0 .. BufferCount -> Q] :
           g[0] = <<first>> /\ \A k \in 1 .. BufferCount : g[k] = E[g[k - 1]]
  <2>1. BufferCount \in Nat
    BY Sizes
  <2> HIDE DEF Q, E
  <2>2. Orbit(Q, <<first>>, E, BufferCount) # {}
    BY <1>2, <2>1, Iterated
  <2> QED BY <2>2 DEF Orbit
<1>5. Right(g)
  <2>1. ASSUME NEW k \in 0 .. BufferCount
        PROVE  g[k] = IF k = 0 THEN <<first>> ELSE longer(g[k - 1])
    <3>1. CASE k = 0
      BY <1>4, <3>1
    <3>2. CASE k # 0
      <4>1. k \in 1 .. BufferCount /\ k - 1 \in 0 .. BufferCount
        BY <3>2, Sizes
      <4>2. g[k - 1] \in Q /\ g[k] = E[g[k - 1]]
        BY <1>4, <4>1
      <4> HIDE DEF Q
      <4> QED BY <3>2, <4>2
    <3> QED BY <3>1, <3>2
  <2> HIDE DEF longer
  <2> QED BY <1>4, <2>1
<1> HIDE DEF E
<1>6. Right(queue)
  BY <1>5
<1>7. queue[BufferCount] \in Q
  <2> DEFINE T == {k \in Nat : k <= BufferCount /\ queue[k] \notin Q}
  <2> HIDE DEF queue, Q
  <2>0. /\ queue[0] = <<first>>
        /\ \A k \in 1 .. BufferCount : queue[k] = longer(queue[k - 1])
    BY <1>6, Sizes
  <2>1. ASSUME T # {} PROVE FALSE
    <3>1. PICK m \in T : \A y \in T : m <= y
      BY <2>1, LeastOf
    <3>2. m # 0
      BY <1>2, <2>0, <3>1
    <3>3. m \in 1 .. BufferCount /\ m - 1 \in Nat /\ ~(m <= m - 1)
      BY <3>2, Sizes
    <3>4. queue[m - 1] \in Q
      BY <3>1, <3>3, Sizes
    <3> QED BY <1>1, <2>0, <3>3, <3>4
  <2> QED BY <2>1, Sizes
<1>8. queue[BufferCount] \in Seq(V) /\ queue[BufferCount] # <<>> /\ V \subseteq Ids
  BY <1>7 DEF V
<1> HIDE DEF Q, queue
<1>9. queue[BufferCount] \in Seq(Ids)
      /\ \A k \in DOMAIN queue[BufferCount] : queue[BufferCount][k] \in V
  BY <1>8
<1> QED BY <1>3, <1>8, <1>9 DEF V
-----------------------------------------------------------------------------
LEMMA BufferFields ==
  ASSUME NEW b \in Buffer
  PROVE  /\ b.offset \in 0 .. FileSize /\ b.offset \in Nat /\ b.length \in 0 .. BufferSize
         /\ b.length \in Nat /\ b.valid \in BOOLEAN /\ b.inUse \in BOOLEAN
         /\ b.data \in [Slots -> Positions \cup {Junk}] /\ End(b) = b.offset + b.length
BY Sizes DEF Buffer, Positions, End

LEMMA FileFields ==
  ASSUME NEW f \in File
  PROVE  /\ f.buffers \in [Ids -> Buffer] /\ f.linked \in Seq(Ids)
         /\ f.filling \in Ids \cup {NoBuffer} /\ f.slot \in 0 .. BufferSize
         /\ f.filePosition \in 0 .. FileSize /\ f.lastUserFileRead \in 0 .. FileSize
         /\ f.syncFilePosition \in 0 .. FileSize /\ f.asyncFilePosition \in 0 .. FileSize
         /\ f.nativePosition \in 0 .. FileSize /\ f.startAsyncRead \in BOOLEAN
         /\ f.issue \in BOOLEAN /\ f.trouble \in {"none", "assert", "wild"}
BY DEF File, Positions

(* The buffer that is to be used next is none that is being filled or linked,  *)
(* and there is one when none is linked or read from.                          *)
Replaceable(f, i) ==
    /\ i \in Ids \cup {NoBuffer}
    /\ i # NoBuffer => \/ ~f.buffers[i].valid
                       \/ (i # f.filling /\ ~IsLinkedDataBuffer(f, i))
    /\ f.linked = <<>> /\ (\A j \in Ids : ~f.buffers[j].inUse) => i # NoBuffer

LEMMA NextBuffer ==
  ASSUME NEW f \in File
  PROVE  Replaceable(f, GetNextDataBuffer(f))
<1> DEFINE i == GetNextDataBuffer(f)
           unused == {j \in Ids : ~f.buffers[j].valid}
           free   == {j \in Ids : /\ ~f.buffers[j].inUse /\ ~IsLinkedDataBuffer(f, j)
                                  /\ j # f.filling /\ ~CanBeLinked(f, j)}
           lowest == {j \in free : \A k \in free : f.buffers[j].offset <= f.buffers[k].offset}
<1>1. i = IF unused # {} THEN Min(unused) ELSE IF free # {} THEN Min(lowest) ELSE NoBuffer
  BY DEF GetNextDataBuffer
<1> HIDE DEF i
<1>2. unused \in SUBSET Nat /\ free \subseteq Ids /\ lowest \in SUBSET Nat
  BY Sizes
<1>3. ASSUME free # {} PROVE lowest # {}
  <2> DEFINE T == {f.buffers[j].offset : j \in free}
  <2>1. \A j \in free : f.buffers[j].offset \in Nat
    BY <1>2, FileFields, BufferFields
  <2> HIDE DEF free
  <2>2. T \in SUBSET Nat /\ T # {}
    BY <1>3, <2>1
  <2>3. PICK x \in T : \A y \in T : x <= y
    BY <2>2, LeastOf
  <2>4. PICK j \in free : x = f.buffers[j].offset
    BY <2>3
  <2>5. \A k \in free : f.buffers[j].offset <= f.buffers[k].offset
    BY <2>3, <2>4
  <2> QED BY <2>4, <2>5
<1>4. unused # {} => Min(unused) \in unused
  BY <1>2, MinOf
<1>5. free # {} => Min(lowest) \in free
  BY <1>2, <1>3, MinOf
<1>6. ASSUME f.linked = <<>>, \A j \in Ids : ~f.buffers[j].inUse
      PROVE  free # {}
  <2>1. \A j \in Ids : ~IsLinkedDataBuffer(f, j) /\ ~CanBeLinked(f, j)
    BY <1>6 DEF IsLinkedDataBuffer, CanBeLinked
  <2>2. \A j \in Ids : j # f.filling => j \in free
    BY <1>6, <2>1
  <2> QED BY <2>2, Sizes
<1>7. i \in Ids \cup {NoBuffer}
  BY <1>1, <1>4, <1>5
<1>8. i \in Ids => i \in unused \/ i \in free
  BY <1>1, <1>4, <1>5, Sizes
<1>9. free # {} => i # NoBuffer
  BY <1>1, <1>4, <1>5, Sizes
<1> QED BY <1>6, <1>7, <1>8, <1>9 DEF i, Replaceable
-----------------------------------------------------------------------------
(* What reading ahead from a file f may come to: a failed assertion, nothing,  *)
(* or a read for the thread with room for what it brings.                      *)
Resumed(f, g) ==
    /\ g \in File /\ g.filePosition = f.filePosition /\ g.startAsyncRead = f.startAsyncRead
    /\ \/ g.trouble = "assert" /\ ~g.issue
       \/ /\ g.trouble = "none" /\ BuffersRight(g) /\ Filled(g, 0)
          /\ g.issue => Room(g)

(* A new buffer to fill from a position the handle has.                        *)
LEMMA FillNewRight ==
  ASSUME NEW f, BuffersRight(f), f.trouble = "none", NEW pos \in 1 .. FileSize,
         f.asyncFilePosition = pos, f.nativePosition = pos, GetNextDataBuffer(f) # NoBuffer
  PROVE  Resumed(f, FillNew(f, pos))
<1> DEFINE i == GetNextDataBuffer(f)
           n == [EmptyBuffer EXCEPT !.offset = pos, !.valid = TRUE,
                                    !.inUse = f.buffers[i].inUse]
           bs == [f.buffers EXCEPT ![i] = n]
           linked == f.linked \o <<i>>
           h == [f EXCEPT !.linked = linked, !.filling = i, !.buffers = bs,
                          !.slot = 0, !.issue = TRUE]
<1>1. f \in File
  BY DEF BuffersRight
<1>2. i \in Ids /\ (~f.buffers[i].valid \/ (i # f.filling /\ ~IsLinkedDataBuffer(f, i)))
  <2>1. Replaceable(f, i)
    BY <1>1, NextBuffer
  <2> QED BY <2>1 DEF Replaceable
<1>3. h = FillNew(f, pos)
  BY Sizes DEF FillNew, Place
<1> HIDE DEF i
<1>4. f.buffers[i].inUse \in BOOLEAN
  BY <1>1, <1>2, FileFields, BufferFields
<1>5. n \in Buffer /\ n.offset = pos /\ n.length = 0 /\ n.valid = TRUE
  <2> DEFINE inUse == f.buffers[i].inUse
             junk == [j \in Slots |-> Junk]
             e == EmptyBuffer
  <2>0. e = [offset |-> 0, length |-> 0, valid |-> FALSE, inUse |-> FALSE, data |-> junk]
    BY DEF EmptyBuffer
  <2> HIDE DEF e, junk, inUse
  <2>1. n = [offset |-> pos, length |-> 0, valid |-> TRUE, inUse |-> inUse, data |-> junk]
    <3>1. n = [e EXCEPT !.offset = pos, !.valid = TRUE, !.inUse = inUse]
      BY DEF e, inUse
    <3> HIDE DEF n
    <3> QED BY ONLY <2>0, <3>1
  <2> USE DEF junk
  <2>2. junk \in [Slots -> Positions \cup {Junk}] /\ pos \in Positions /\ 0 \in 0 .. BufferSize
    BY Sizes DEF Positions
  <2> HIDE DEF junk, n
  <2> QED BY <1>4, <2>1, <2>2 DEF Buffer, inUse
<1> HIDE DEF n
<1>6. BufferRight(n) /\ End(n) = pos
  BY <1>5, Sizes DEF BufferRight, End
<1>7. bs \in [Ids -> Buffer] /\ bs[i] = n /\ \A j \in Ids \ {i} : bs[j] = f.buffers[j]
  BY <1>1, <1>2, <1>5, FileFields
<1>8. linked \in Seq(Ids) /\ linked # <<>>
      /\ \A k \in DOMAIN linked : \/ linked[k] = i
                                  \/ k \in DOMAIN f.linked /\ linked[k] = f.linked[k]
  <2>1. f.linked \in Seq(Ids)
    BY <1>1, FileFields
  <2>2. linked \in Seq(Ids) /\ Len(linked) = Len(f.linked) + 1
    BY <1>2, <2>1
  <2>3. \A k \in 1 .. Len(f.linked) + 1 :
           linked[k] = IF k <= Len(f.linked) THEN f.linked[k] ELSE i
    BY <1>2, <2>1
  <2> HIDE DEF linked
  <2> QED BY <2>1, <2>2, <2>3
<1> HIDE DEF bs, linked
<1>9. /\ h \in File /\ h.buffers = bs /\ h.linked = linked /\ h.filling = i /\ h.slot = 0
      /\ h.issue = TRUE /\ h.trouble = f.trouble /\ h.asyncFilePosition = f.asyncFilePosition
      /\ h.nativePosition = f.nativePosition /\ h.filePosition = f.filePosition
      /\ h.startAsyncRead = f.startAsyncRead
  <2>1. 0 \in 0 .. BufferSize /\ i \in Ids \cup {NoBuffer}
    BY <1>2, Sizes
  <2> QED BY ONLY <1>1, <1>7, <1>8, <2>1 DEF File
<1> HIDE DEF h
<1>10. BuffersRight(h)
  <2>1. \A j \in Ids : BufferRight(h.buffers[j])
    BY <1>6, <1>7, <1>9 DEF BuffersRight
  <2>2. \A k \in DOMAIN h.linked : h.buffers[h.linked[k]].valid
    BY <1>1, <1>2, <1>5, <1>7, <1>8, <1>9, FileFields DEF BuffersRight
  <2>3. h.filling # NoBuffer /\ h.buffers[h.filling].valid /\ h.linked # <<>>
    BY <1>2, <1>5, <1>7, <1>8, <1>9, Sizes
  <2> QED BY <1>9, <2>1, <2>2, <2>3 DEF BuffersRight
<1>11. Filled(h, 0)
  <2>1. h.filling # NoBuffer /\ h.buffers[h.filling] = n
    BY <1>2, <1>7, <1>9, Sizes
  <2>2. \A j \in 0 .. 0 + 0 - 1 : FALSE
    OBVIOUS
  <2> QED BY <1>5, <1>6, <1>9, <2>1, <2>2, Sizes DEF Filled
<1>12. Room(h)
  BY <1>2, <1>5, <1>7, <1>9, Sizes DEF Room
<1> QED BY <1>3, <1>9, <1>10, <1>11, <1>12 DEF Resumed

(* Reading on in the buffer, or in a new one, where the thread stopped.        *)
LEMMA ReadOnRight ==
  ASSUME NEW f, BuffersRight(f), f.trouble = "none", ~f.issue, Filled(f, 0),
         NEW pos \in 1 .. FileSize, f.asyncFilePosition = pos
  PROVE  Resumed(f, ReadOn(f, pos))
<1> DEFINE b == f.buffers[f.filling]
           h == [f EXCEPT !.slot = b.length, !.issue = TRUE]
<1>1. f \in File /\ f.filling \in Ids /\ f.filling # NoBuffer
  BY FileFields DEF BuffersRight, Filled
<1>2. b \in Buffer /\ End(b) = pos /\ f.nativePosition = pos
  BY <1>1, FileFields, BufferFields DEF Filled
<1>3. CASE RoomLeft(f)
  <2>1. b.length + ReadSize <= BufferSize /\ b.length \in 0 .. BufferSize
    BY <1>2, <1>3, BufferFields, Sizes DEF RoomLeft
  <2>2. ReadOn(f, pos) = h
    BY <1>1, <1>3, <2>1 DEF ReadOn, Place
  <2> HIDE DEF b
  <2>3. /\ h \in File /\ h.buffers = f.buffers /\ h.linked = f.linked /\ h.filling = f.filling
        /\ h.slot = b.length /\ h.issue = TRUE /\ h.trouble = f.trouble
        /\ h.asyncFilePosition = f.asyncFilePosition /\ h.filePosition = f.filePosition
        /\ h.nativePosition = f.nativePosition /\ h.startAsyncRead = f.startAsyncRead
    BY ONLY <1>1, <2>1 DEF File
  <2> HIDE DEF h
  <2>4. BuffersRight(h) /\ Filled(h, 0)
    BY <2>3 DEF BuffersRight, Filled
  <2>5. Room(h)
    BY <1>1, <2>1, <2>3 DEF Room, b
  <2> QED BY <2>2, <2>3, <2>4, <2>5 DEF Resumed
<1>4. CASE ~RoomLeft(f) /\ GetNextDataBuffer(f) = NoBuffer
  BY <1>1, <1>4 DEF ReadOn, Resumed
<1>5. CASE ~RoomLeft(f) /\ GetNextDataBuffer(f) # NoBuffer
  BY <1>1, <1>2, <1>5, FillNewRight DEF ReadOn
<1> QED BY <1>3, <1>4, <1>5

(* Reading on where the caller's own read stopped.                             *)
LEMMA ReadOnFromSyncRight ==
  ASSUME NEW f, BuffersRight(f), f.trouble = "none", ~f.issue, Filled(f, 0),
         NEW pos \in 1 .. FileSize, NEW works \in BOOLEAN
  PROVE  Resumed(f, ReadOnFromSync(f, pos, works))
<1> DEFINE g == [f EXCEPT !.nativePosition = pos, !.asyncFilePosition = pos,
                          !.syncFilePosition = f.asyncFilePosition]
           h == [g EXCEPT !.trouble = "assert"]
<1>1. f \in File /\ pos \in Positions /\ pos > 0 /\ f.asyncFilePosition \in Positions
  BY Sizes, FileFields DEF BuffersRight, Positions
<1>2. /\ g \in File /\ g.buffers = f.buffers /\ g.linked = f.linked /\ g.filling = f.filling
      /\ g.issue = f.issue /\ g.trouble = f.trouble /\ g.asyncFilePosition = pos
      /\ g.nativePosition = pos /\ g.filePosition = f.filePosition
      /\ g.startAsyncRead = f.startAsyncRead
  BY ONLY <1>1 DEF File
<1>3. CASE ~works
  BY <1>1, <1>3 DEF ReadOnFromSync, Resumed
<1>4. CASE works /\ GetNextDataBuffer(g) = NoBuffer
  <2>1. ReadOnFromSync(f, pos, works) = h
    BY <1>4 DEF ReadOnFromSync
  <2> HIDE DEF g
  <2>2. /\ h \in File /\ h.trouble = "assert" /\ h.issue = g.issue
        /\ h.filePosition = g.filePosition /\ h.startAsyncRead = g.startAsyncRead
    BY ONLY <1>2 DEF File
  <2> QED BY <1>2, <2>1, <2>2 DEF Resumed
<1>5. CASE works /\ GetNextDataBuffer(g) # NoBuffer
  <2>1. ReadOnFromSync(f, pos, works) = FillNew(g, pos)
    BY <1>5 DEF ReadOnFromSync
  <2> HIDE DEF g
  <2>2. BuffersRight(g)
    BY <1>2 DEF BuffersRight
  <2>3. Resumed(g, FillNew(g, pos))
    BY <1>2, <1>5, <2>2, FillNewRight
  <2> QED BY <1>2, <2>1, <2>3 DEF Resumed
<1> QED BY <1>3, <1>4, <1>5

(* Reading ahead of the caller starts no read at 0, and none of the other two  *)
(* ways to go on leaves the file wrong.                                        *)
LEMMA ReadAheadRight ==
  ASSUME NEW f, BuffersRight(f), f.trouble = "none", ~f.issue, Filled(f, 0), f.linked # <<>>,
         NEW works \in BOOLEAN
  PROVE  Resumed(f, ReadAhead(f, f.lastUserFileRead, works))
<1> DEFINE pos == f.lastUserFileRead + BytesReadAhead(f)
           last == f.linked[Len(f.linked)]
           h == [f EXCEPT !.trouble = "assert"]
<1>1. f \in File
  BY DEF BuffersRight
<1>2. last \in Ids /\ f.buffers[last].valid /\ pos = End(f.buffers[last])
  <2>1. Len(f.linked) \in DOMAIN f.linked /\ Last(f.linked) = last
    <3>1. f.linked \in Seq(Ids)
      BY <1>1, FileFields
    <3>2. Len(f.linked) \in Nat /\ Len(f.linked) # 0 /\ DOMAIN f.linked = 1 .. Len(f.linked)
      BY <3>1
    <3> QED BY <3>2 DEF Last
  <2>2. last \in Ids /\ f.buffers[last].valid
    <3>1. f.linked \in Seq(Ids)
      BY <1>1, FileFields
    <3>2. last \in Ids
      BY <2>1, <3>1
    <3>3. \A k \in DOMAIN f.linked : f.buffers[f.linked[k]].valid
      BY DEF BuffersRight
    <3> QED BY <2>1, <3>2, <3>3
  <2>3. f.buffers[last] \in Buffer /\ f.lastUserFileRead \in Nat
    <3>1. f.buffers \in [Ids -> Buffer] /\ f.lastUserFileRead \in 0 .. FileSize
      BY <1>1, FileFields
    <3> HIDE DEF last
    <3> QED BY <2>2, <3>1, Sizes
  <2>4. End(f.buffers[last]) \in Nat
    BY <2>3, BufferFields
  <2> QED BY <2>1, <2>2, <2>3, <2>4 DEF BytesReadAhead
<1>3. pos \in 0 .. FileSize /\ (pos > 0 \/ FileSize = 0)
  <2>1. f.buffers[last] \in Buffer /\ BufferRight(f.buffers[last])
    BY <1>1, <1>2, FileFields DEF BuffersRight
  <2>2. End(f.buffers[last]) \in Nat
    BY <2>1, BufferFields
  <2> QED BY <1>2, <2>1, <2>2 DEF BufferRight
<1> HIDE DEF pos, last
<1>4. CASE ReadAhead(f, f.lastUserFileRead, works) = f
  BY <1>1, <1>4 DEF Resumed
<1>5. CASE ReadAhead(f, f.lastUserFileRead, works) # f
  <2>1. ReadAhead(f, f.lastUserFileRead, works) = StartNextRead(f, pos, works)
        /\ pos # FileSize
    BY <1>5 DEF ReadAhead, pos
  <2>2. pos \in 1 .. FileSize
    BY <1>3, <2>1, Sizes
  <2>3. CASE pos = f.asyncFilePosition
    BY <2>1, <2>2, <2>3, ReadOnRight DEF StartNextRead
  <2>4. CASE pos # f.asyncFilePosition /\ pos = f.syncFilePosition
    BY <2>1, <2>2, <2>4, ReadOnFromSyncRight DEF StartNextRead
  <2>5. CASE pos # f.asyncFilePosition /\ pos # f.syncFilePosition
    <3>1. /\ h \in File /\ h.trouble = "assert" /\ h.issue = f.issue
          /\ h.filePosition = f.filePosition /\ h.startAsyncRead = f.startAsyncRead
      BY ONLY <1>1 DEF File
    <3> QED BY <2>1, <2>5, <3>1 DEF StartNextRead, Resumed
  <2> QED BY <2>3, <2>4, <2>5
<1> QED BY <1>4, <1>5
-----------------------------------------------------------------------------
(* What the thread fills, and where its handle is, stays as it is.             *)
SamePlace(f, g) ==
    /\ g.filling = f.filling /\ g.slot = f.slot
    /\ g.asyncFilePosition = f.asyncFilePosition /\ g.nativePosition = f.nativePosition
    /\ f.filling # NoBuffer =>
          /\ g.buffers[f.filling].offset = f.buffers[f.filling].offset
          /\ g.buffers[f.filling].length = f.buffers[f.filling].length
          /\ g.buffers[f.filling].data = f.buffers[f.filling].data

SameCall(f, g) ==
    /\ g.filePosition = f.filePosition /\ g.startAsyncRead = f.startAsyncRead
    /\ g.issue = f.issue /\ g.trouble = f.trouble

Unused(f) == \A j \in Ids : ~f.buffers[j].inUse

(* The bytes of the file, each by its position.                                *)
Plain(pos, n) == {<<p, p>> : p \in pos .. pos + n - 1}

LEMMA SamePlaceKeeps ==
  ASSUME NEW f, NEW g, SamePlace(f, g), NEW k
  PROVE  (Filled(f, k) => Filled(g, k)) /\ (Room(f) => Room(g))
<1>1. f.filling # NoBuffer => End(g.buffers[f.filling]) = End(f.buffers[f.filling])
  BY DEF SamePlace, End
<1>2. Filled(f, k) => Filled(g, k)
  BY <1>1 DEF SamePlace, Filled
<1>3. Room(f) => Room(g)
  BY DEF SamePlace, Room
<1> QED BY <1>2, <1>3

(* A turn of Read begins with no buffer in use.                                *)
Cleared(s) == [s EXCEPT !.buffers = [i \in Ids |-> [@[i] EXCEPT !.inUse = FALSE]],
                        !.issue = FALSE]

LEMMA ClearedRight ==
  ASSUME NEW s, BuffersRight(s), ~s.issue
  PROVE  LET f == Cleared(s)
         IN  BuffersRight(f) /\ SamePlace(s, f) /\ SameCall(s, f) /\ Unused(f)
<1> DEFINE bs == [i \in Ids |-> [s.buffers[i] EXCEPT !.inUse = FALSE]]
           f == [s EXCEPT !.buffers = bs, !.issue = FALSE]
<1>1. s \in File
  BY DEF BuffersRight
<1>2. Cleared(s) = f
  BY DEF Cleared
<1>3. ASSUME NEW j \in Ids
      PROVE  /\ bs[j] \in Buffer /\ bs[j].offset = s.buffers[j].offset
             /\ bs[j].length = s.buffers[j].length /\ bs[j].data = s.buffers[j].data
             /\ bs[j].valid = s.buffers[j].valid /\ bs[j].inUse = FALSE
  <2> DEFINE b == s.buffers[j]
  <2>1. b \in Buffer
    BY <1>1, FileFields
  <2>2. bs[j] = [b EXCEPT !.inUse = FALSE]
    OBVIOUS
  <2> HIDE DEF b, bs
  <2>3. /\ bs[j] \in Buffer /\ bs[j].offset = b.offset /\ bs[j].length = b.length
        /\ bs[j].data = b.data /\ bs[j].valid = b.valid /\ bs[j].inUse = FALSE
    BY ONLY <2>1, <2>2 DEF Buffer
  <2> QED BY <2>3 DEF b
<1>4. bs \in [Ids -> Buffer]
  <2>1. DOMAIN bs = Ids /\ bs = [j \in Ids |-> bs[j]]
    OBVIOUS
  <2> HIDE DEF bs
  <2> QED BY <1>3, <2>1
<1> HIDE DEF bs
<1>5. /\ f \in File /\ f.buffers = bs /\ f.issue = FALSE /\ f.linked = s.linked
      /\ f.filling = s.filling /\ f.slot = s.slot
      /\ f.asyncFilePosition = s.asyncFilePosition /\ f.nativePosition = s.nativePosition
      /\ f.filePosition = s.filePosition /\ f.startAsyncRead = s.startAsyncRead
      /\ f.trouble = s.trouble
  BY ONLY <1>1, <1>4 DEF File
<1> HIDE DEF f
<1>6. s.filling \in Ids \cup {NoBuffer} /\ s.linked \in Seq(Ids) /\ s.issue \in BOOLEAN
  BY <1>1, FileFields
<1>7. ASSUME NEW j \in Ids PROVE BufferRight(f.buffers[j])
  <2>1. BufferRight(s.buffers[j])
    BY DEF BuffersRight
  <2> QED BY <1>3, <1>5, <2>1 DEF BufferRight, End
<1>8. BuffersRight(f)
  <2>1. \A k \in DOMAIN f.linked : f.linked[k] \in Ids
    BY <1>5, <1>6
  <2>2. \A k \in DOMAIN f.linked : f.buffers[f.linked[k]].valid
    <3>1. \A k \in DOMAIN s.linked : s.buffers[s.linked[k]].valid
      BY DEF BuffersRight
    <3>2. \A j \in Ids : bs[j].valid = s.buffers[j].valid
      BY <1>3
    <3> QED BY ONLY <1>5, <2>1, <3>1, <3>2
  <2>3. f.filling # NoBuffer => f.buffers[f.filling].valid /\ f.linked # <<>>
    BY <1>3, <1>5, <1>6 DEF BuffersRight
  <2> QED BY <1>5, <1>7, <2>2, <2>3 DEF BuffersRight
<1>9. SamePlace(s, f)
  BY <1>3, <1>5, <1>6 DEF SamePlace
<1>10. SameCall(s, f) /\ Unused(f)
  BY <1>3, <1>5, <1>6 DEF SameCall, Unused
<1> QED BY <1>2, <1>8, <1>9, <1>10

(* The caller's own read puts the file's bytes into a buffer the thread has    *)
(* nothing to do with.                                                         *)
LEMMA SyncReadRight ==
  ASSUME NEW f, BuffersRight(f), Unused(f)
  PROVE  LET g == SyncRead(f, BufferSize)
             k == Least(BufferSize, FileSize - f.filePosition)
         IN  /\ BuffersRight(g) /\ SamePlace(f, g) /\ SameCall(f, g) /\ g.linked # <<>>
             /\ k \in Nat /\ f.filePosition + k <= FileSize
             /\ g.syncFilePosition = f.filePosition + k
             /\ \A n \in 0 .. k : Bytes(g, f.filePosition, n) = Plain(f.filePosition, n)
<1> DEFINE pos == f.filePosition
           k == Least(BufferSize, FileSize - pos)
           reset == [f EXCEPT !.linked = <<>>]
           i == GetNextDataBuffer(reset)
           data == [j \in Slots |-> IF j < k THEN pos + j ELSE Junk]
           b == [offset |-> pos, length |-> k, valid |-> TRUE, inUse |-> TRUE, data |-> data]
           bs == [f.buffers EXCEPT ![i] = b]
           g == [reset EXCEPT !.buffers = bs, !.syncFilePosition = pos + k, !.linked = <<i>>]
<1>1. f \in File /\ pos \in 0 .. FileSize /\ f.buffers \in [Ids -> Buffer]
      /\ f.filling \in Ids \cup {NoBuffer}
  BY FileFields DEF BuffersRight
<1>2. k \in 0 .. BufferSize /\ pos + k \in 0 .. FileSize /\ (k > 0 \/ pos = FileSize)
  BY <1>1, Sizes DEF Least
<1>3. reset \in File /\ reset.linked = <<>> /\ reset.buffers = f.buffers
      /\ reset.filling = f.filling
  <2>1. <<>> \in Seq(Ids)
    OBVIOUS
  <2> QED BY ONLY <1>1, <2>1 DEF File
<1>4. i \in Ids /\ (~f.buffers[i].valid \/ i # f.filling)
  <2> HIDE DEF i, reset
  <2>1. Replaceable(reset, i)
    BY <1>3, NextBuffer DEF i
  <2> QED BY <1>3, <2>1 DEF Replaceable, Unused
<1>5. SyncRead(f, BufferSize) = g
  <2>1. reset.buffers = f.buffers
    BY <1>3
  <2> QED BY <2>1 DEF SyncRead
<1> HIDE DEF i, k
<1>6. data \in [Slots -> Positions \cup {Junk}]
  <2>1. ASSUME NEW j \in Slots, j < k PROVE pos + j \in Positions
    BY <1>1, <1>2, <2>1, Sizes DEF Slots, Positions
  <2> QED BY <2>1
<1>7. \A j \in 0 .. k - 1 : data[j] = pos + j
  BY <1>2, Sizes DEF Slots
<1> HIDE DEF data
<1>8. b \in Buffer /\ BufferRight(b) /\ b.valid /\ b.offset = pos /\ b.length = k
      /\ b.data = data /\ End(b) = pos + k
  <2>1. b \in Buffer
    BY <1>1, <1>2, <1>6 DEF Buffer, Positions
  <2>2. b.valid /\ b.offset = pos /\ b.length = k /\ b.data = data /\ End(b) = pos + k
    BY DEF End
  <2> HIDE DEF b
  <2> QED BY <1>1, <1>2, <1>7, <2>1, <2>2, Sizes DEF BufferRight
<1> HIDE DEF b
<1>9. bs \in [Ids -> Buffer] /\ bs[i] = b /\ \A j \in Ids \ {i} : bs[j] = f.buffers[j]
  BY <1>1, <1>4, <1>8
<1> HIDE DEF bs
<1>10. /\ g \in File /\ g.buffers = bs /\ g.linked = <<i>> /\ g.syncFilePosition = pos + k
       /\ g.filling = f.filling /\ g.slot = f.slot
       /\ g.asyncFilePosition = f.asyncFilePosition /\ g.nativePosition = f.nativePosition
       /\ g.filePosition = f.filePosition /\ g.startAsyncRead = f.startAsyncRead
       /\ g.issue = f.issue /\ g.trouble = f.trouble
  <2>1. <<i>> \in Seq(Ids) /\ pos + k \in Positions
    BY <1>2, <1>4 DEF Positions
  <2> QED BY ONLY <1>1, <1>9, <2>1 DEF File
<1> HIDE DEF g
<1>11. f.filling # NoBuffer => f.filling # i
  BY <1>1, <1>4 DEF BuffersRight
<1>12. SamePlace(f, g) /\ SameCall(f, g)
  BY <1>1, <1>9, <1>10, <1>11 DEF SamePlace, SameCall
<1>13. BuffersRight(g)
  <2>1. \A j \in Ids : BufferRight(g.buffers[j])
    BY <1>8, <1>9, <1>10 DEF BuffersRight
  <2>2. DOMAIN g.linked = {1} /\ g.linked[1] = i /\ g.linked # <<>>
    BY <1>10
  <2>3. g.filling # NoBuffer => g.buffers[g.filling].valid
    BY <1>1, <1>9, <1>10, <1>11 DEF BuffersRight
  <2> QED BY <1>8, <1>9, <1>10, <2>1, <2>2, <2>3 DEF BuffersRight
<1>14. ASSUME NEW n \in 0 .. k PROVE Bytes(g, pos, n) = Plain(pos, n)
  <2>1. CASE n = 0
    <3>1. pos .. pos + n - 1 = {}
      BY <1>1, <2>1
    <3> QED BY <3>1 DEF Bytes, Plain
  <2>2. CASE n > 0
    <3>1. i \in Readable(g, pos)
      BY <1>1, <1>2, <1>4, <1>8, <1>9, <1>10, <2>2
         DEF Readable, Holders, HasThisOffset, IsLinkedDataBuffer
    <3>2. ASSUME NEW j \in Readable(g, pos) PROVE j = i
      <4>1. j \in Ids /\ g.buffers[j] \in Buffer /\ pos < End(g.buffers[j])
        BY <1>9, <1>10 DEF Readable, Holders, HasThisOffset
      <4>2. CanBeLinked(g, j) => End(g.buffers[j]) = pos
        BY <1>8, <1>9, <1>10 DEF CanBeLinked
      <4>3. ~CanBeLinked(g, j)
        BY <1>1, <4>1, <4>2, BufferFields
      <4>4. IsLinkedDataBuffer(g, j)
        BY <4>3 DEF Readable
      <4> QED BY <1>10, <4>4 DEF IsLinkedDataBuffer
    <3>3. Readable(g, pos) = {i}
      BY <3>1, <3>2
    <3>4. Min({i}) = i
      BY <1>4, Sizes, MinOf
    <3>5. g.buffers[Min(Readable(g, pos))] = b
      BY <1>9, <1>10, <3>3, <3>4
    <3> DEFINE asked == pos .. pos + n - 1
    <3>6. {p \in asked : p >= pos + k} = {}
      BY <1>1, <1>2
    <3>7. \A p \in asked : b.data[p - pos] = p
      BY <1>1, <1>2, <1>7, <1>8
    <3> QED BY <1>8, <3>5, <3>6, <3>7 DEF Bytes, Plain
  <2> QED BY <1>2, <2>1, <2>2
<1> QED BY <1>2, <1>5, <1>10, <1>12, <1>13, <1>14 DEF k
-----------------------------------------------------------------------------
(* What is found in the buffers is what the file has.                          *)
LEMMA FoundBytes ==
  ASSUME NEW f, BuffersRight(f), NEW pos \in 0 .. FileSize, NEW n \in Nat,
         FindDataBuffer(f, pos, n)
  PROVE  pos + n <= FileSize /\ Bytes(f, pos, n) = Plain(pos, n)
<1> DEFINE i == Min(Readable(f, pos))
           b == f.buffers[i]
           asked == pos .. pos + n - 1
           behind == {p \in asked : p >= End(b)}
           c == f.buffers[Min(Holders(f, End(b)))]
<1>1. i \in Ids /\ HasThisOffset(b, pos)
  <2>1. Readable(f, pos) \in SUBSET Nat /\ Readable(f, pos) # {}
    BY Sizes DEF Readable, Holders, FindDataBuffer
  <2>2. i \in Readable(f, pos)
    BY <2>1, MinOf
  <2> HIDE DEF i
  <2> QED BY <2>2 DEF Readable, Holders
<1>2. f.buffers \in [Ids -> Buffer] /\ \A j \in Ids : BufferRight(f.buffers[j])
  BY FileFields DEF BuffersRight
<1>3. b \in Buffer /\ BufferRight(b)
  BY <1>1, <1>2
<1>4. \/ pos + n <= End(b)
      \/ Continued(f, i, pos, n)
  BY DEF FindDataBuffer
<1>5. ASSUME pos + n > End(b)
      PROVE  c \in Buffer /\ BufferRight(c) /\ c.offset = End(b) /\ pos + n <= End(c)
  <2>1. pos + n \in Nat /\ End(b) \in Nat
    BY <1>3, BufferFields
  <2>2. /\ Holders(f, End(b)) # {} /\ c.offset = End(b)
        /\ End(c) >= pos + n
    BY <1>4, <1>5, <2>1 DEF Continued
  <2>3. Holders(f, End(b)) \in SUBSET Nat /\ Holders(f, End(b)) \subseteq Ids
    BY Sizes DEF Holders
  <2>4. Min(Holders(f, End(b))) \in Ids
    BY <2>2, <2>3, MinOf
  <2>5. c \in Buffer /\ BufferRight(c)
    BY <1>2, <2>4
  <2> HIDE DEF c
  <2>6. End(c) \in Nat
    BY <2>5, BufferFields
  <2> QED BY <2>1, <2>2, <2>5, <2>6
<1> HIDE DEF i, c
<1>6. Bytes(f, pos, n) = {<<p, b.data[p - b.offset]>> : p \in asked \ behind}
                         \cup {<<p, c.data[p - End(b)]>> : p \in behind}
  BY DEF Bytes, i, c
<1> HIDE DEF b
<1>7. b.offset \in Nat /\ b.length \in Nat /\ End(b) = b.offset + b.length /\ b.offset <= pos
      /\ End(b) <= FileSize
  BY <1>1, <1>3, BufferFields DEF BufferRight, HasThisOffset
<1>8. pos + n <= FileSize
  <2>1. CASE pos + n <= End(b)
    BY <1>7, <2>1, Sizes
  <2>2. CASE pos + n > End(b)
    <3>1. End(c) <= FileSize /\ End(c) \in Nat
      BY <1>5, <2>2, BufferFields DEF BufferRight
    <3> QED BY <1>5, <2>2, <3>1, Sizes
  <2> QED BY <1>7, <2>1, <2>2
<1>9. ASSUME NEW p \in asked \ behind PROVE b.data[p - b.offset] = p
  <2>1. p \in Int /\ pos <= p /\ p < End(b)
    BY <1>7
  <2>2. p - b.offset \in 0 .. b.length - 1
    BY <1>7, <2>1
  <2>3. b.data[p - b.offset] = b.offset + (p - b.offset)
    BY <1>3, <2>2 DEF BufferRight
  <2> QED BY <1>7, <2>1, <2>3
<1>10. ASSUME NEW p \in behind PROVE c.data[p - End(b)] = p
  <2>1. p \in Int /\ End(b) <= p /\ p < pos + n /\ pos + n > End(b)
    BY <1>7
  <2>2. c.offset = End(b) /\ c.length \in Nat /\ End(c) = End(b) + c.length /\ pos + n <= End(c)
    BY <1>5, <2>1, BufferFields
  <2>3. p - End(b) \in 0 .. c.length - 1
    BY <1>7, <2>1, <2>2
  <2>4. c.data[p - End(b)] = c.offset + (p - End(b))
    BY <1>5, <2>1, <2>3 DEF BufferRight
  <2> QED BY <1>7, <2>1, <2>2, <2>4
<1>11. Bytes(f, pos, n) = Plain(pos, n)
  <2> HIDE DEF behind
  <2>1. behind \subseteq asked
    BY DEF behind
  <2>2. {<<p, b.data[p - b.offset]>> : p \in asked \ behind} = {<<p, p>> : p \in asked \ behind}
    BY <1>9
  <2>3. {<<p, c.data[p - End(b)]>> : p \in behind} = {<<p, p>> : p \in behind}
    BY <1>10
  <2>4. {<<p, p>> : p \in asked} = {<<p, p>> : p \in asked \ behind} \cup {<<p, p>> : p \in behind}
    BY <2>1
  <2> QED BY <1>6, <2>2, <2>3, <2>4 DEF Plain
<1> QED BY <1>8, <1>11

LEMMA FoundRight ==
  ASSUME NEW f, BuffersRight(f), NEW n \in Nat, FindDataBuffer(f, f.filePosition, n)
  PROVE  LET g == Found(f, n)
         IN  BuffersRight(g) /\ SamePlace(f, g) /\ SameCall(f, g) /\ g.linked # <<>>
<1> DEFINE i == Min(Readable(f, f.filePosition))
           inUse == f.filePosition + n <= End(f.buffers[i])
           b == [f.buffers[i] EXCEPT !.inUse = inUse]
           bs == [f.buffers EXCEPT ![i] = b]
           linked == ReOrderBuffersQueue(f, i)
           g == [f EXCEPT !.buffers = bs, !.linked = linked]
<1>1. f \in File /\ f.buffers \in [Ids -> Buffer] /\ f.filling \in Ids \cup {NoBuffer}
  BY FileFields DEF BuffersRight
<1>2. i \in Ids /\ f.buffers[i].valid
  <2>1. Readable(f, f.filePosition) \in SUBSET Nat /\ Readable(f, f.filePosition) # {}
    BY Sizes DEF Readable, Holders, FindDataBuffer
  <2>2. i \in Readable(f, f.filePosition)
    BY <2>1, MinOf
  <2> HIDE DEF i
  <2> QED BY <2>2 DEF Readable, Holders, HasThisOffset
<1>3. Found(f, n) = g
  BY DEF Found
<1> HIDE DEF i
<1>4. linked \in Seq(Ids) /\ linked # <<>> /\ \A k \in DOMAIN linked : f.buffers[linked[k]].valid
  BY <1>1, <1>2, Reordered
<1>5. b \in Buffer /\ b.offset = f.buffers[i].offset /\ b.length = f.buffers[i].length
      /\ b.data = f.buffers[i].data /\ b.valid = f.buffers[i].valid
  <2> DEFINE old == f.buffers[i]
  <2>1. old \in Buffer /\ inUse \in BOOLEAN
    BY <1>1, <1>2
  <2> HIDE DEF inUse, old
  <2>2. b = [old EXCEPT !.inUse = inUse]
    BY DEF old
  <2> HIDE DEF b
  <2>3. b \in Buffer /\ b.offset = old.offset /\ b.length = old.length /\ b.data = old.data
        /\ b.valid = old.valid
    BY ONLY <2>1, <2>2 DEF Buffer
  <2> QED BY <2>3 DEF old
<1> HIDE DEF b, linked
<1>6. bs \in [Ids -> Buffer] /\ bs[i] = b /\ \A j \in Ids \ {i} : bs[j] = f.buffers[j]
  BY <1>1, <1>2, <1>5
<1> HIDE DEF bs
<1>7. /\ g \in File /\ g.buffers = bs /\ g.linked = linked
      /\ g.filling = f.filling /\ g.slot = f.slot
      /\ g.asyncFilePosition = f.asyncFilePosition /\ g.nativePosition = f.nativePosition
      /\ g.filePosition = f.filePosition /\ g.startAsyncRead = f.startAsyncRead
      /\ g.issue = f.issue /\ g.trouble = f.trouble
  BY ONLY <1>1, <1>4, <1>6 DEF File
<1> HIDE DEF g
<1>8. ASSUME NEW j \in Ids
      PROVE  /\ bs[j].offset = f.buffers[j].offset /\ bs[j].length = f.buffers[j].length
             /\ bs[j].data = f.buffers[j].data /\ bs[j].valid = f.buffers[j].valid
  BY <1>5, <1>6
<1>9. ASSUME NEW j \in Ids PROVE BufferRight(bs[j])
  <2>1. BufferRight(f.buffers[j])
    BY DEF BuffersRight
  <2> QED BY <1>8, <2>1 DEF BufferRight, End
<1>10. BuffersRight(g)
  <2>1. \A k \in DOMAIN linked : bs[linked[k]].valid
    BY <1>4, <1>8
  <2>2. f.filling # NoBuffer => bs[f.filling].valid
    BY <1>1, <1>8 DEF BuffersRight
  <2> QED BY <1>4, <1>7, <1>9, <2>1, <2>2 DEF BuffersRight
<1>11. SamePlace(f, g) /\ SameCall(f, g)
  BY <1>1, <1>7, <1>8 DEF SamePlace, SameCall
<1> QED BY <1>3, <1>4, <1>7, <1>10, <1>11

(* The end of a turn: the thread is given a read only when it has none.        *)
LEMMA AdvanceRight ==
  ASSUME NEW f, BuffersRight(f), f.trouble = "none", ~f.issue, f.startAsyncRead,
         f.linked # <<>>, NEW got \in Nat, f.filePosition + got <= FileSize,
         NEW k, Filled(f, k), request = "idle" => k = 0, NEW works \in BOOLEAN
  PROVE  LET g == Advance(f, got, works)
         IN  /\ g.filePosition = f.filePosition + got /\ g.startAsyncRead
             /\ request = "idle" => Resumed(g, g)
             /\ request # "idle" => /\ BuffersRight(g) /\ Filled(g, k) /\ SamePlace(f, g)
                                    /\ g.trouble = "none" /\ ~g.issue
<1> DEFINE p == f.filePosition + got
           moved == [f EXCEPT !.filePosition = p, !.lastUserFileRead = p]
           g == Advance(f, got, works)
<1>1. f \in File /\ p \in Positions
  BY FileFields, Sizes DEF BuffersRight, Positions
<1>2. g = IF request = "idle" THEN ReadAhead(moved, moved.lastUserFileRead, works) ELSE moved
  <2>1. moved.filePosition = p /\ moved.lastUserFileRead = p
    BY <1>1 DEF File
  <2> QED BY <2>1 DEF Advance
<1> HIDE DEF p, g
<1>3. /\ moved \in File /\ moved.filePosition = p /\ moved.buffers = f.buffers
      /\ moved.linked = f.linked /\ moved.filling = f.filling /\ moved.slot = f.slot
      /\ moved.asyncFilePosition = f.asyncFilePosition
      /\ moved.nativePosition = f.nativePosition /\ moved.startAsyncRead = f.startAsyncRead
      /\ moved.issue = f.issue /\ moved.trouble = f.trouble
  BY ONLY <1>1 DEF File
<1> HIDE DEF moved
<1>4. BuffersRight(moved) /\ SamePlace(f, moved)
  BY <1>3 DEF BuffersRight, SamePlace
<1>5. Filled(moved, k)
  BY <1>4, SamePlaceKeeps
<1>6. CASE request = "idle"
  <2>1. Resumed(moved, g)
    BY <1>2, <1>3, <1>4, <1>5, <1>6, ReadAheadRight
  <2> QED BY <1>3, <1>6, <2>1 DEF Resumed, g, p
<1>7. CASE request # "idle"
  BY <1>2, <1>3, <1>4, <1>5, <1>7 DEF g, p
<1> QED BY <1>6, <1>7
-----------------------------------------------------------------------------
(* The object of a file that is not open.                                      *)
LEMMA NewFileRight ==
  ASSUME NEW start \in BOOLEAN, NEW f, f = [NewFile EXCEPT !.startAsyncRead = start]
  PROVE  /\ f \in File /\ f.startAsyncRead = start /\ f.trouble = "none" /\ f.issue = FALSE
         /\ f.filePosition = 0 /\ BuffersRight(f) /\ \A k : Filled(f, k)
         /\ start = FALSE => f = NewFile
<1> DEFINE bs == [i \in Ids |-> EmptyBuffer]
<1>1. EmptyBuffer \in Buffer /\ EmptyBuffer.valid = FALSE /\ EmptyBuffer.length = 0
      /\ EmptyBuffer.offset = 0
  <2> DEFINE junk == [j \in Slots |-> Junk]
  <2>1. EmptyBuffer = [offset |-> 0, length |-> 0, valid |-> FALSE, inUse |-> FALSE, data |-> junk]
    BY DEF EmptyBuffer
  <2>2. junk \in [Slots -> Positions \cup {Junk}] /\ 0 \in Positions /\ 0 \in 0 .. BufferSize
    BY Sizes DEF Positions
  <2> HIDE DEF junk
  <2> QED BY <2>1, <2>2 DEF Buffer
<1>2. bs \in [Ids -> Buffer] /\ \A i \in Ids : bs[i] = EmptyBuffer
  BY <1>1
<1>3. f = [buffers |-> bs, linked |-> <<>>, filling |-> NoBuffer,
           slot |-> 0, filePosition |-> 0, lastUserFileRead |-> 0, syncFilePosition |-> 0,
           asyncFilePosition |-> 0, nativePosition |-> 0, startAsyncRead |-> start,
           issue |-> FALSE, trouble |-> "none"]
  BY DEF NewFile
<1>4. start = FALSE => f = NewFile
  BY <1>3 DEF NewFile
<1> HIDE DEF bs
<1>5. f \in File
  <2>1. <<>> \in Seq(Ids) /\ 0 \in Positions /\ 0 \in 0 .. BufferSize /\ start \in BOOLEAN
    BY Sizes DEF Positions
  <2> QED BY ONLY <1>2, <1>3, <2>1 DEF File
<1>6. BufferRight(EmptyBuffer)
  BY <1>1, Sizes DEF BufferRight, End
<1>7. f.buffers = bs /\ f.linked = <<>> /\ f.filling = NoBuffer /\ f.asyncFilePosition = 0
      /\ f.startAsyncRead = start /\ f.trouble = "none" /\ f.issue = FALSE /\ f.filePosition = 0
  BY <1>3
<1> QED BY <1>2, <1>4, <1>5, <1>6, <1>7 DEF BuffersRight, Filled

(* A read is given to the thread that waits, or none is.                       *)
LEMMA Started ==
  ASSUME thread \in Thread, Serves, request # "pending", NEW g, Resumed(g, g),
         g.startAsyncRead, file' = [g EXCEPT !.issue = FALSE],
         request' = IF g.issue THEN "pending" ELSE "idle", thread' = Woken(g)
  PROVE  /\ file' \in File /\ file'.filePosition = g.filePosition /\ ~file'.issue
         /\ file'.trouble # "wild" /\ thread' \in Thread /\ request' \in {"idle", "pending"}
         /\ Serves' /\ FileRight'
<1>1. g \in File /\ g.issue \in BOOLEAN
  BY FileFields DEF Resumed
<1>2. /\ file' \in File /\ file'.filePosition = g.filePosition /\ file'.issue = FALSE
      /\ file'.trouble = g.trouble /\ file'.buffers = g.buffers /\ file'.linked = g.linked
      /\ file'.filling = g.filling /\ file'.slot = g.slot
      /\ file'.asyncFilePosition = g.asyncFilePosition
      /\ file'.nativePosition = g.nativePosition /\ file'.startAsyncRead = g.startAsyncRead
  BY ONLY <1>1, file' = [g EXCEPT !.issue = FALSE] DEF File
<1>3. /\ thread' \in Thread /\ thread'.state = thread.state /\ thread'.pc = thread.pc
      /\ thread'.exitFlag = thread.exitFlag /\ thread'.exitSem = thread.exitSem
      /\ thread'.readSem = IF g.issue THEN thread.readSem + 1 ELSE thread.readSem
  BY DEF Woken, Thread
<1>4. Serves'
  BY <1>3 DEF Serves, Thread
<1>5. Brought' = 0
  BY <1>3 DEF Serves, Brought
<1>6. CASE g.trouble = "assert"
  BY <1>1, <1>2, <1>3, <1>4, <1>6 DEF FileRight, Resumed
<1>7. CASE g.trouble # "assert"
  <2>1. BuffersRight(g) /\ Filled(g, 0) /\ (g.issue => Room(g)) /\ g.trouble = "none"
    BY <1>7 DEF Resumed
  <2>2. BuffersRight(file') /\ Filled(file', 0) /\ (g.issue => Room(file'))
    BY <1>2, <2>1 DEF BuffersRight, Filled, Room
  <2>3. g.issue => file'.filling # NoBuffer
    BY <2>2 DEF Room
  <2>4. FileRight'
    BY <1>2, <1>5, <2>1, <2>2, <2>3 DEF FileRight
  <2> QED BY <1>2, <1>3, <1>4, <2>1, <2>4
<1> QED BY <1>6, <1>7
-----------------------------------------------------------------------------
(* The reading thread.                                                         *)
LEMMA ThreadFields ==
  ASSUME thread \in Thread
  PROVE  /\ thread.state \in {"active", "notActive"} /\ thread.exitFlag \in BOOLEAN
         /\ thread.pc \in {"none", "top", "wait", "woken", "read", "complete", "gone"}
         /\ thread.readSem \in Nat /\ thread.exitSem \in 0 .. 1
         /\ thread.numBytes \in 0 .. ReadSize
BY DEF Thread

(* A thread that is not there makes no step.                                   *)
LEMMA ClosedThread ==
  ASSUME AsyncInv, client.op = "closed", thread.pc # "none"
  PROVE  file = NewFile /\ Serves /\ request = "idle"
BY DEF AsyncInv, NoThread

LEMMA ThreadMoves ==
  ASSUME AsyncInv, UNCHANGED <<file, request, client>>, thread' \in Thread,
         thread.pc # "none", Serves => Serves' /\ Brought' = Brought
  PROVE  AsyncInv'
<1>1. IsOpen' = IsOpen /\ TypeOK'
  BY DEF IsOpen, AsyncInv, TypeOK
<1>2. FileRight /\ Serves => FileRight'
  BY DEF FileRight
<1> QED BY <1>1, <1>2, ClosedThread DEF AsyncInv

LEMMA ThreadTopInv ==
  ASSUME AsyncInv, ThreadTop \/ ThreadWakes \/ ThreadChecks \/ ThreadLeaves, UNCHANGED client
  PROVE  AsyncInv'
<1>1. thread \in Thread /\ file' = file /\ request' = request /\ client' = client
      /\ thread.pc # "none"
  BY DEF AsyncInv, TypeOK, ThreadTop, ThreadWakes, ThreadChecks, ThreadLeaves, ThreadStep
<1>2. CASE ThreadTop
  <2>1. thread.pc = "top" /\ thread' = [thread EXCEPT !.pc = IF thread.exitFlag THEN "gone" ELSE "wait"]
    BY <1>2 DEF ThreadTop, ThreadStep
  <2>2. thread' \in Thread
    BY <1>1, <2>1 DEF Thread
  <2>3. Serves => Serves' /\ Brought' = Brought
    BY <1>1, <2>1 DEF Serves, Brought, Thread
  <2> QED BY <1>1, <2>2, <2>3, ThreadMoves
<1>3. CASE ThreadWakes
  <2>1. thread.pc = "wait" /\ thread.readSem > 0
        /\ thread' = [thread EXCEPT !.pc = "woken", !.readSem = thread.readSem - 1]
    BY <1>3 DEF ThreadWakes
  <2>2. thread' \in Thread
    <3>1. thread.readSem - 1 \in Nat
      BY <1>1, <2>1, ThreadFields
    <3> QED BY ONLY <1>1, <2>1, <3>1 DEF Thread
  <2>3. Serves => Serves' /\ Brought' = Brought
    BY <1>1, <2>1 DEF Serves, Brought, Thread
  <2> QED BY <1>1, <2>2, <2>3, ThreadMoves
<1>4. CASE ThreadChecks
  <2>1. thread.pc = "woken"
        /\ thread' = [thread EXCEPT !.pc = IF thread.exitFlag THEN "gone" ELSE "read"]
    BY <1>4 DEF ThreadChecks, ThreadStep
  <2>2. thread' \in Thread
    BY <1>1, <2>1 DEF Thread
  <2>3. Serves => Serves' /\ Brought' = Brought
    BY <1>1, <2>1 DEF Serves, Brought, Thread
  <2> QED BY <1>1, <2>2, <2>3, ThreadMoves
<1>5. CASE ThreadLeaves
  <2>1. thread.pc = "gone" /\ thread' = [thread EXCEPT !.exitFlag = FALSE, !.exitSem = 1]
    BY <1>5 DEF ThreadLeaves
  <2>2. thread' \in Thread
    <3>1. 1 \in 0 .. 1
      OBVIOUS
    <3> QED BY ONLY <1>1, <2>1, <3>1 DEF Thread
  <2>3. ~Serves
    BY <2>1 DEF Serves
  <2> QED BY <1>1, <2>1, <2>2, <2>3, ThreadMoves
<1> QED BY <1>2, <1>3, <1>4, <1>5

(* What is brought is counted when Run comes.                                  *)
LEMMA ThreadCompletesInv ==
  ASSUME AsyncInv, ThreadCompletes, UNCHANGED client
  PROVE  AsyncInv'
<1>1. /\ thread \in Thread /\ thread.pc = "complete" /\ file' = file /\ client' = client
      /\ thread' = [thread EXCEPT !.pc = "top"]
      /\ request' = IF request = "pending" THEN "ready" ELSE request
  BY DEF AsyncInv, TypeOK, ThreadCompletes
<1>2. /\ thread' \in Thread /\ thread'.pc = "top" /\ thread'.readSem = thread.readSem
      /\ thread'.state = thread.state /\ thread'.exitFlag = thread.exitFlag
      /\ thread'.exitSem = thread.exitSem /\ thread'.numBytes = thread.numBytes
  BY <1>1 DEF Thread
<1>3. TypeOK' /\ IsOpen' = IsOpen
  BY <1>1, <1>2 DEF AsyncInv, TypeOK, IsOpen
<1>4. client.op # "closed"
  BY <1>1, ClosedThread DEF Serves
<1>5. ASSUME IsOpen PROVE Serves' /\ FileRight'
  <2>1. Serves /\ FileRight /\ request = "pending" /\ request' = "ready"
    BY <1>1, <1>5 DEF AsyncInv, Serves
  <2>2. Serves'
    BY <1>1, <1>2, <2>1 DEF Serves
  <2>3. Brought' = Brought
    BY <1>1, <1>2, <2>1 DEF Brought
  <2> QED BY <1>1, <2>1, <2>2, <2>3 DEF FileRight
<1> QED BY <1>1, <1>3, <1>4, <1>5 DEF AsyncInv
(* The thread reads k bytes into the buffer it fills.                          *)
Fetched(f, k) ==
    [f EXCEPT
       !.buffers[f.filling].data =
           [j \in Slots |-> IF f.slot <= j /\ j < f.slot + k
                            THEN f.nativePosition + (j - f.slot) ELSE @[j]],
       !.nativePosition = @ + k]

LEMMA FetchedRight ==
  ASSUME NEW f \in File, NEW k \in 0 .. ReadSize, f.nativePosition + k <= FileSize
  PROVE  LET g == Fetched(f, k)
         IN  /\ g \in File /\ SameCall(f, g)
             /\ BuffersRight(f) /\ Filled(f, 0) /\ Room(f) =>
                   BuffersRight(g) /\ Filled(g, k) /\ Room(g)
<1> DEFINE i == f.filling
           old == f.buffers[i]
           data == [j \in Slots |-> IF f.slot <= j /\ j < f.slot + k
                                    THEN f.nativePosition + (j - f.slot) ELSE old.data[j]]
           b == [old EXCEPT !.data = data]
           bs == [f.buffers EXCEPT ![i] = b]
           g == [f EXCEPT !.buffers = bs, !.nativePosition = f.nativePosition + k]
<1>1. f.buffers \in [Ids -> Buffer] /\ i \in Ids \cup {NoBuffer} /\ f.slot \in 0 .. BufferSize
      /\ f.nativePosition \in 0 .. FileSize /\ f.linked \in Seq(Ids)
      /\ f.nativePosition + k \in Positions
  BY FileFields, Sizes DEF Positions
<1>2. Fetched(f, k) = g
  BY DEF Fetched
<1> HIDE DEF i
<1>3. ASSUME i \in Ids
      PROVE  /\ old \in Buffer /\ b \in Buffer /\ data \in [Slots -> Positions \cup {Junk}]
             /\ b.offset = old.offset /\ b.length = old.length /\ b.valid = old.valid
             /\ b.data = data
  <2>1. old \in Buffer /\ old.data \in [Slots -> Positions \cup {Junk}]
    BY <1>1, <1>3, BufferFields
  <2>2. ASSUME NEW j \in Slots, f.slot <= j, j < f.slot + k
        PROVE  f.nativePosition + (j - f.slot) \in Positions
    <3>1. f.nativePosition \in Int /\ f.slot \in Int /\ j \in Int /\ k \in Int
      BY <1>1, Sizes DEF Slots
    <3>2. 0 <= j - f.slot /\ j - f.slot < k /\ 0 <= f.nativePosition
      BY <1>1, <2>2, <3>1, Sizes
    <3>3. /\ f.nativePosition + (j - f.slot) \in Int
          /\ 0 <= f.nativePosition + (j - f.slot) /\ f.nativePosition + (j - f.slot) <= FileSize
      BY ONLY <3>1, <3>2, f.nativePosition + k <= FileSize, Sizes
    <3> QED BY ONLY <3>3, Sizes DEF Positions
  <2> HIDE DEF old
  <2>3. data \in [Slots -> Positions \cup {Junk}]
    BY <2>1, <2>2
  <2> HIDE DEF data
  <2>4. b \in Buffer /\ b.offset = old.offset /\ b.length = old.length /\ b.valid = old.valid
        /\ b.data = data
    BY ONLY <2>1, <2>3 DEF Buffer
  <2> QED BY <2>1, <2>3, <2>4
<1> HIDE DEF b
<1>4. bs \in [Ids -> Buffer] /\ (\A j \in Ids \ {i} : bs[j] = f.buffers[j])
      /\ (i \in Ids => bs[i] = b)
  <2> HIDE DEF old, data
  <2>1. CASE i \in Ids
    BY <1>1, <1>3, <2>1
  <2>2. CASE i \notin Ids
    BY <1>1, <2>2
  <2> QED BY <2>1, <2>2
<1> HIDE DEF bs
<1>5. /\ g \in File /\ g.buffers = bs /\ g.nativePosition = f.nativePosition + k
      /\ g.linked = f.linked /\ g.filling = f.filling /\ g.slot = f.slot
      /\ g.asyncFilePosition = f.asyncFilePosition /\ g.filePosition = f.filePosition
      /\ g.startAsyncRead = f.startAsyncRead /\ g.issue = f.issue /\ g.trouble = f.trouble
  BY ONLY <1>1, <1>4, f \in File DEF File
<1> HIDE DEF g
<1>6. ASSUME BuffersRight(f), Filled(f, 0), Room(f)
      PROVE  BuffersRight(g) /\ Filled(g, k) /\ Room(g)
  <2>1. i \in Ids /\ i # NoBuffer /\ f.slot = old.length /\ old.length + ReadSize <= BufferSize
    BY <1>1, <1>6, Sizes DEF Room, i
  <2>2. old.offset \in Nat /\ old.length \in Nat /\ End(old) = old.offset + old.length
    BY <1>3, <2>1, BufferFields
  <2>3. f.nativePosition = End(old) /\ End(old) = f.asyncFilePosition
        /\ f.asyncFilePosition > 0 /\ BufferRight(old)
    <3>1. f.nativePosition = End(old) + 0 /\ End(old) = f.asyncFilePosition
          /\ f.asyncFilePosition > 0
      BY <1>6, <2>1 DEF Filled, i
    <3> QED BY <1>6, <2>1, <2>2, <3>1 DEF BuffersRight, i
  <2>4. \A j \in 0 .. old.length + k - 1 : data[j] = old.offset + j
    <3>1. ASSUME NEW j \in 0 .. old.length - 1 PROVE data[j] = old.offset + j
      <4>1. j \in Slots /\ ~(f.slot <= j)
        BY <2>1, <2>2, Sizes DEF Slots
      <4>2. old.data[j] = old.offset + j
        BY <2>3 DEF BufferRight
      <4> QED BY <4>1, <4>2
    <3>2. ASSUME NEW j \in old.length .. old.length + k - 1 PROVE data[j] = old.offset + j
      <4>1. j \in Slots /\ j \in Int /\ f.slot <= j /\ j < f.slot + k
        BY <2>1, <2>2, Sizes DEF Slots
      <4>2. data[j] = f.nativePosition + (j - f.slot)
        BY <4>1
      <4> HIDE DEF data, old
      <4>3. f.nativePosition = old.offset + old.length /\ f.slot = old.length
        BY <2>1, <2>2, <2>3
      <4> QED BY <2>2, <4>1, <4>2, <4>3
    <3> HIDE DEF data, old
    <3> QED BY <2>2, <3>1, <3>2, Sizes
  <2> HIDE DEF data
  <2>5. BufferRight(b) /\ End(b) = End(old) /\ b.valid = old.valid
    BY <1>3, <2>1, <2>2, <2>3, <2>4 DEF BufferRight, End
  <2>6. BuffersRight(g)
    <3>1. \A j \in Ids : BufferRight(g.buffers[j]) /\ g.buffers[j].valid = f.buffers[j].valid
      BY <1>4, <1>5, <1>6, <2>1, <2>5 DEF BuffersRight
    <3>2. \A m \in DOMAIN f.linked : f.linked[m] \in Ids
      BY <1>1
    <3> QED BY <1>5, <1>6, <2>1, <3>1, <3>2 DEF BuffersRight, i
  <2>7. Filled(g, k)
    <3>1. g.filling # NoBuffer /\ g.buffers[g.filling] = b
      BY <1>4, <1>5, <2>1 DEF i
    <3>2. b.length + k <= BufferSize
      BY <1>3, <2>1, <2>2, Sizes
    <3>3. \A j \in b.length .. b.length + k - 1 : b.data[j] = b.offset + j
      BY <1>3, <2>1, <2>2, <2>4
    <3> QED BY <1>5, <2>3, <2>5, <3>1, <3>2, <3>3 DEF Filled
  <2>8. Room(g)
    BY <1>3, <1>4, <1>5, <2>1 DEF Room, i
  <2> QED BY <2>6, <2>7, <2>8
<1> QED BY <1>2, <1>5, <1>6 DEF SameCall

LEMMA ThreadReadsInv ==
  ASSUME AsyncInv, ThreadReads, UNCHANGED client
  PROVE  AsyncInv' /\ file'.filePosition = file.filePosition
<1>1. thread \in Thread /\ file \in File /\ thread.pc = "read"
      /\ request' = request /\ client' = client
  BY DEF AsyncInv, TypeOK, ThreadReads
<1>2. PICK got \in Amounts("read", ReadSize) :
        LET k == Least(got, FileSize - file.nativePosition)
        IN  /\ file' = Fetched(file, k)
            /\ thread' = [thread EXCEPT !.pc = "complete", !.numBytes = k]
  BY DEF ThreadReads, Fetched
<1> DEFINE k == Least(got, FileSize - file.nativePosition)
<1>3. k \in 0 .. ReadSize /\ file.nativePosition + k <= FileSize
  <2>1. got \in 0 .. ReadSize
    BY Sizes DEF Amounts
  <2>2. file.nativePosition \in 0 .. FileSize
    BY <1>1, FileFields
  <2> QED BY <2>1, <2>2, Sizes DEF Least
<1>4. file' = Fetched(file, k) /\ thread' = [thread EXCEPT !.pc = "complete", !.numBytes = k]
  BY <1>2
<1> HIDE DEF k
<1>5. /\ file' \in File /\ SameCall(file, file')
      /\ BuffersRight(file) /\ Filled(file, 0) /\ Room(file) =>
            BuffersRight(file') /\ Filled(file', k) /\ Room(file')
  BY <1>1, <1>3, <1>4, FetchedRight
<1>6. /\ thread' \in Thread /\ thread'.pc = "complete" /\ thread'.readSem = thread.readSem
      /\ thread'.state = thread.state /\ thread'.exitFlag = thread.exitFlag
      /\ thread'.exitSem = thread.exitSem /\ thread'.numBytes = k
  BY ONLY <1>1, <1>3, <1>4 DEF Thread
<1>7. TypeOK' /\ IsOpen' = IsOpen
  BY <1>1, <1>5, <1>6 DEF AsyncInv, TypeOK, IsOpen
<1>8. client.op # "closed"
  BY <1>1, ClosedThread DEF Serves
<1>9. ASSUME IsOpen PROVE Serves' /\ FileRight'
  <2>1. Serves /\ FileRight /\ request = "pending"
    BY <1>1, <1>9 DEF AsyncInv, Serves
  <2>2. Serves'
    BY <1>1, <1>6, <2>1 DEF Serves
  <2>3. Brought = 0 /\ Brought' = k
    BY <1>1, <1>6, <2>1 DEF Brought
  <2>4. BuffersRight(file) /\ Filled(file, 0) /\ Room(file) /\ file.trouble = "none"
        /\ file.startAsyncRead
    BY <2>1, <2>3 DEF FileRight
  <2>5. file'.filling # NoBuffer
    BY <1>5, <2>4 DEF Room
  <2> QED BY <1>1, <1>5, <2>1, <2>2, <2>3, <2>4, <2>5 DEF FileRight, SameCall
<1> QED BY <1>1, <1>5, <1>7, <1>8, <1>9 DEF AsyncInv, SameCall
-----------------------------------------------------------------------------
(* The caller's thread.                                                        *)
LEMMA OpenInv ==
  ASSUME AsyncInv, Open
  PROVE  AsyncInv'
<1>1. PICK opened \in BOOLEAN, launched \in BOOLEAN :
          /\ thread' = IF launched THEN [NoThread EXCEPT !.state = "active", !.pc = "top"]
                       ELSE NoThread
          /\ file' = [NewFile EXCEPT !.startAsyncRead = opened /\ launched]
          /\ client' = [op |-> IF opened /\ launched THEN "idle" ELSE "closed"]
  BY DEF Open, Works
<1>2. request' = "idle"
  BY DEF Open
<1> DEFINE start == opened /\ launched
<1>3. start \in BOOLEAN /\ file' = [NewFile EXCEPT !.startAsyncRead = start]
  BY <1>1
<1> HIDE DEF start
<1>4. /\ file' \in File /\ file'.startAsyncRead = start /\ file'.trouble = "none"
      /\ file'.issue = FALSE /\ BuffersRight(file') /\ (\A k : Filled(file', k))
      /\ start = FALSE => file' = NewFile
  BY <1>3, NewFileRight
<1>5. NoThread \in Thread
  BY Sizes DEF NoThread, Thread
<1>6. launched => thread' \in Thread /\ Serves'
  <2>1. launched => thread' = [NoThread EXCEPT !.state = "active", !.pc = "top"]
    BY <1>1
  <2>2. launched => thread' \in Thread
    BY ONLY <1>5, <2>1 DEF Thread
  <2>3. launched => Serves'
    BY <1>2, <2>1 DEF Serves, NoThread
  <2> QED BY <2>2, <2>3
<1>7. ~launched => thread' = NoThread
  BY <1>1
<1>8. client' \in Client /\ client'.op = IF start THEN "idle" ELSE "closed"
  BY <1>1 DEF Client, start
<1>9. TypeOK'
  BY <1>2, <1>4, <1>5, <1>6, <1>7, <1>8 DEF TypeOK
<1>10. IsOpen' = start /\ (start => launched)
  BY <1>8 DEF IsOpen, start
<1>11. start => FileRight'
  BY <1>2, <1>4 DEF FileRight
<1> QED BY <1>2, <1>4, <1>6, <1>7, <1>8, <1>9, <1>10, <1>11 DEF AsyncInv

LEMMA StoppedInv ==
  ASSUME AsyncInv, Stopped
  PROVE  AsyncInv'
<1>1. thread' = NoThread /\ file' = NewFile /\ client' = [op |-> "closed"] /\ request' = request
  BY DEF Stopped
<1>2. NewFile = [NewFile EXCEPT !.startAsyncRead = FALSE]
  BY NewFileRight
<1>3. file' \in File /\ file'.trouble = "none" /\ file'.issue = FALSE
  BY <1>1, <1>2, NewFileRight
<1>4. NoThread \in Thread
  BY Sizes DEF NoThread, Thread
<1>5. TypeOK' /\ ~IsOpen' /\ client'.op = "closed"
  BY <1>1, <1>3, <1>4 DEF AsyncInv, TypeOK, Client, IsOpen
<1> QED BY <1>1, <1>3, <1>5 DEF AsyncInv

LEMMA StopInv ==
  ASSUME AsyncInv, Close \/ Discard
  PROVE  AsyncInv'
<1>1. /\ thread' = [thread EXCEPT !.exitFlag = TRUE, !.readSem = thread.readSem + 1]
      /\ client' = [op |-> "stopping"] /\ request' = request
      /\ file' = file \/ file' = [file EXCEPT !.startAsyncRead = FALSE]
  BY DEF Close, Discard, StopAsyncReadThread
<1>2. file \in File /\ thread \in Thread /\ thread.readSem + 1 \in Nat
  BY ThreadFields DEF AsyncInv, TypeOK
<1>3. thread' \in Thread
  BY ONLY <1>1, <1>2 DEF Thread
<1>4. file' \in File /\ file'.issue = file.issue /\ file'.trouble = file.trouble
  BY ONLY <1>1, <1>2 DEF File
<1>5. TypeOK' /\ ~IsOpen' /\ client'.op = "stopping"
  BY <1>1, <1>3, <1>4 DEF AsyncInv, TypeOK, Client, IsOpen
<1> QED BY <1>4, <1>5 DEF AsyncInv

(* A call that begins or ends, or a seek.                                      *)
LEMMA CallInv ==
  ASSUME AsyncInv, IsOpen, client' \in Client, IsOpen', client'.op # "closed",
         UNCHANGED <<request, thread>>, NEW pos \in 0 .. FileSize,
         file' = [file EXCEPT !.filePosition = pos]
  PROVE  AsyncInv'
<1>1. file \in File /\ pos \in Positions
  BY DEF AsyncInv, TypeOK, Positions
<1>2. /\ file' \in File /\ file'.issue = file.issue /\ file'.trouble = file.trouble
      /\ file'.startAsyncRead = file.startAsyncRead /\ file'.buffers = file.buffers
      /\ file'.linked = file.linked /\ file'.filling = file.filling /\ file'.slot = file.slot
      /\ file'.asyncFilePosition = file.asyncFilePosition
      /\ file'.nativePosition = file.nativePosition
  BY ONLY <1>1, file' = [file EXCEPT !.filePosition = pos] DEF File
<1>3. TypeOK'
  BY <1>2 DEF AsyncInv, TypeOK
<1>4. Serves' /\ Brought' = Brought
  BY DEF AsyncInv, Serves, Brought
<1>5. SamePlace(file, file')
  BY <1>2 DEF SamePlace
<1>6. BuffersRight(file) => BuffersRight(file')
  BY <1>2 DEF BuffersRight
<1>7. Filled(file, Brought) => Filled(file', Brought)
  BY <1>5, SamePlaceKeeps
<1>8. Room(file) => Room(file')
  BY <1>5, SamePlaceKeeps
<1>9. FileRight'
  BY <1>2, <1>4, <1>6, <1>7, <1>8 DEF AsyncInv, FileRight
<1> QED BY <1>2, <1>3, <1>4, <1>9 DEF AsyncInv
-----------------------------------------------------------------------------
(* Run counts the bytes that were brought.                                     *)
Counted(f, k) ==
    [f EXCEPT !.buffers[f.filling].length = @ + k, !.asyncFilePosition = @ + k]

LEMMA CountedRight ==
  ASSUME NEW f, BuffersRight(f), NEW k \in 0 .. ReadSize, Filled(f, k), f.filling # NoBuffer
  PROVE  LET g == Counted(f, k)
         IN  /\ BuffersRight(g) /\ Filled(g, 0) /\ SameCall(f, g) /\ g.linked # <<>>
<1> DEFINE i == f.filling
           old == f.buffers[i]
           b == [old EXCEPT !.length = old.length + k]
           bs == [f.buffers EXCEPT ![i] = b]
           g == [f EXCEPT !.buffers = bs, !.asyncFilePosition = f.asyncFilePosition + k]
<1>1. f \in File /\ f.buffers \in [Ids -> Buffer] /\ i \in Ids /\ old \in Buffer
      /\ old.valid /\ f.linked # <<>> /\ f.linked \in Seq(Ids)
  BY FileFields DEF BuffersRight
<1>2. Counted(f, k) = g
  BY DEF Counted
<1>3. old.offset \in Nat /\ old.length \in Nat /\ End(old) = old.offset + old.length
      /\ f.nativePosition \in 0 .. FileSize
  BY <1>1, BufferFields, FileFields
<1>4. /\ f.asyncFilePosition > 0 /\ End(old) = f.asyncFilePosition
      /\ f.nativePosition = End(old) + k /\ old.length + k <= BufferSize
      /\ \A j \in old.length .. old.length + k - 1 : old.data[j] = old.offset + j
  BY DEF Filled
<1>5. BufferRight(old)
  BY <1>1 DEF BuffersRight
<1> HIDE DEF old
<1>6. b \in Buffer /\ b.offset = old.offset /\ b.length = old.length + k /\ b.data = old.data
      /\ b.valid = old.valid
  <2>1. old.length + k \in 0 .. BufferSize
    BY <1>3, <1>4, Sizes
  <2> QED BY ONLY <1>1, <2>1 DEF Buffer
<1> HIDE DEF b
<1>7. End(b) = f.nativePosition /\ End(b) = End(old) + k
  BY <1>3, <1>4, <1>6 DEF End
<1>8. BufferRight(b)
  <2>1. \A j \in 0 .. old.length + k - 1 : old.data[j] = old.offset + j
    BY <1>3, <1>4, <1>5 DEF BufferRight
  <2> QED BY <1>3, <1>4, <1>6, <1>7, <2>1, Sizes DEF BufferRight
<1>9. bs \in [Ids -> Buffer] /\ bs[i] = b /\ \A j \in Ids \ {i} : bs[j] = f.buffers[j]
  BY <1>1, <1>6
<1> HIDE DEF bs, i
<1>10. /\ g \in File /\ g.buffers = bs /\ g.nativePosition = f.nativePosition
       /\ g.linked = f.linked /\ g.filling = f.filling
       /\ g.asyncFilePosition = f.asyncFilePosition + k /\ g.filePosition = f.filePosition
       /\ g.startAsyncRead = f.startAsyncRead /\ g.issue = f.issue /\ g.trouble = f.trouble
  <2>1. f.asyncFilePosition + k \in Positions
    BY <1>3, <1>4 DEF Positions
  <2> QED BY ONLY <1>1, <1>9, <2>1 DEF File
<1> HIDE DEF g
<1>11. BuffersRight(g)
  <2>1. \A j \in Ids : BufferRight(g.buffers[j])
    BY <1>8, <1>9, <1>10 DEF BuffersRight
  <2>2. \A j \in Ids : g.buffers[j].valid = f.buffers[j].valid
    BY <1>6, <1>9, <1>10 DEF old
  <2>3. \A m \in DOMAIN f.linked : f.linked[m] \in Ids
    BY <1>1
  <2> QED BY <1>1, <1>10, <2>1, <2>2, <2>3 DEF BuffersRight, i
<1>12. Filled(g, 0)
  <2>1. g.filling # NoBuffer /\ g.buffers[g.filling] = b
    BY <1>9, <1>10 DEF i
  <2>2. \A j \in b.length .. b.length + 0 - 1 : FALSE
    BY <1>3, <1>6
  <2>3. f.asyncFilePosition + k > 0 /\ End(b) = f.asyncFilePosition + k
        /\ f.nativePosition = End(b) + 0 /\ b.length + 0 <= BufferSize
    BY <1>3, <1>4, <1>6, <1>7, Sizes
  <2> QED BY <1>10, <2>1, <2>2, <2>3 DEF Filled
<1> QED BY <1>1, <1>2, <1>10, <1>11, <1>12 DEF SameCall

LEMMA RunInv ==
  ASSUME DebugBuild, AsyncInv, ~Ended, Run
  PROVE  AsyncInv' /\ file'.filePosition = file.filePosition
<1>1. /\ request = "ready" /\ client.op \in {"idle", "closed"} /\ client' = client
      /\ file \in File /\ thread \in Thread /\ ~file.issue
  BY DEF Run, AsyncInv, TypeOK
<1> DEFINE k == thread.numBytes
           counted == Counted(file, k)
<1>2. PICK works \in BOOLEAN :
        LET after == IF thread.state = "active"
                     THEN ReadAhead(counted, counted.lastUserFileRead, works) ELSE file
        IN  /\ file' = [after EXCEPT !.issue = FALSE]
            /\ request' = IF after.issue THEN "pending" ELSE "idle"
            /\ thread' = Woken(after)
  BY DEF Run, Works, Counted
<1>3. CASE client.op = "closed"
  <2>1. thread = NoThread /\ file = NewFile /\ thread.state = "notActive"
    BY <1>1, <1>3 DEF AsyncInv, NoThread
  <2>2. file' = [file EXCEPT !.issue = FALSE] /\ request' = "idle" /\ thread' = thread
    BY <1>1, <1>2, <2>1 DEF Woken
  <2>3. file' \in File /\ file'.trouble = file.trouble /\ file'.issue = FALSE
    BY ONLY <1>1, <2>2 DEF File
  <2>4. file' = file
    <3> HIDE DEF counted
    <3>1. file.issue = FALSE
      BY <1>1, FileFields
    <3> QED BY ONLY <1>1, <2>2, <3>1 DEF File
  <2> QED BY <1>1, <1>3, <2>1, <2>2, <2>3, <2>4 DEF AsyncInv, TypeOK, IsOpen
<1>4. CASE client.op = "idle"
  <2>1. Serves /\ FileRight /\ thread.state = "active"
    BY <1>4 DEF AsyncInv, IsOpen, Serves
  <2>2. Brought = k /\ k \in 0 .. ReadSize
    BY <1>1, ThreadFields DEF Brought
  <2>3. /\ file.startAsyncRead /\ file.trouble = "none" /\ BuffersRight(file)
        /\ Filled(file, k) /\ file.filling # NoBuffer
    BY <1>1, <2>1, <2>2 DEF FileRight
  <2> HIDE DEF k
  <2>4. BuffersRight(counted) /\ Filled(counted, 0) /\ SameCall(file, counted)
        /\ counted.linked # <<>>
    BY <2>2, <2>3, CountedRight
  <2> HIDE DEF counted
  <2> DEFINE after == ReadAhead(counted, counted.lastUserFileRead, works)
  <2>5. Resumed(counted, after)
    BY <1>1, <2>3, <2>4, ReadAheadRight DEF SameCall
  <2>6. Resumed(after, after) /\ after.startAsyncRead
    BY <2>3, <2>4, <2>5 DEF Resumed, SameCall
  <2>7. /\ file' = [after EXCEPT !.issue = FALSE]
        /\ request' = IF after.issue THEN "pending" ELSE "idle"
        /\ thread' = Woken(after)
    BY <1>2, <2>1
  <2> HIDE DEF after
  <2>8. /\ file' \in File /\ file'.filePosition = after.filePosition /\ ~file'.issue /\ file'.trouble # "wild" /\ thread' \in Thread
        /\ request' \in {"idle", "pending"} /\ Serves' /\ FileRight'
    BY <1>1, <2>1, <2>6, <2>7, Started
  <2>9. file'.filePosition = file.filePosition
    BY <2>4, <2>5, <2>8 DEF Resumed, SameCall
  <2> QED BY <1>1, <1>4, <2>8, <2>9 DEF AsyncInv, TypeOK, IsOpen
<1> QED BY <1>1, <1>3, <1>4

(* How a turn of Read ends.                                                    *)
LEMMA TurnEnds ==
  ASSUME AsyncInv, client.op = "read", NEW g, g \in File, g.startAsyncRead,
         \/ request = "idle" /\ Resumed(g, g)
         \/ /\ BuffersRight(g) /\ Filled(g, Brought) /\ g.trouble = "none" /\ ~g.issue
            /\ request = "pending" => Room(g)
            /\ request # "idle" => g.filling # NoBuffer,
         file' = [g EXCEPT !.issue = FALSE], request' = Issued(g), thread' = Woken(g),
         client' \in Client, client'.op \in {"idle", "read"}
  PROVE  AsyncInv' /\ file'.filePosition = g.filePosition
<1>1. Serves /\ thread \in Thread /\ request \in {"idle", "pending", "ready"}
  BY DEF AsyncInv, TypeOK, IsOpen
<1>2. CASE request = "idle" /\ Resumed(g, g)
  <2>1. request' = IF g.issue THEN "pending" ELSE "idle"
    BY <1>2 DEF Issued
  <2>2. /\ file' \in File /\ file'.filePosition = g.filePosition /\ ~file'.issue
        /\ file'.trouble # "wild" /\ thread' \in Thread /\ request' \in {"idle", "pending"}
        /\ Serves' /\ FileRight'
    BY <1>1, <1>2, <2>1, Started
  <2> QED BY <2>2 DEF AsyncInv, TypeOK
<1>3. CASE /\ BuffersRight(g) /\ Filled(g, Brought) /\ g.trouble = "none" /\ ~g.issue
           /\ request = "pending" => Room(g)
           /\ request # "idle" => g.filling # NoBuffer
  <2>1. request' = request /\ thread' = thread
    BY <1>3 DEF Issued, Woken
  <2>2. /\ file' \in File /\ file'.filePosition = g.filePosition /\ file'.issue = FALSE
        /\ file'.trouble = g.trouble /\ file'.buffers = g.buffers /\ file'.linked = g.linked
        /\ file'.filling = g.filling /\ file'.slot = g.slot
        /\ file'.asyncFilePosition = g.asyncFilePosition
        /\ file'.nativePosition = g.nativePosition /\ file'.startAsyncRead = g.startAsyncRead
    BY ONLY g \in File, file' = [g EXCEPT !.issue = FALSE] DEF File
  <2>3. Serves' /\ Brought' = Brought
    BY <1>1, <2>1 DEF Serves, Brought
  <2>4. BuffersRight(file') /\ Filled(file', Brought) /\ (Room(g) => Room(file'))
    <3>1. BuffersRight(file')
      BY ONLY <1>3, <2>2 DEF BuffersRight
    <3>2. Filled(file', Brought)
      BY ONLY <1>3, <2>2 DEF Filled
    <3>3. Room(g) => Room(file')
      BY ONLY <2>2 DEF Room
    <3> QED BY ONLY <3>1, <3>2, <3>3
  <2>5. FileRight'
    BY <1>3, <2>1, <2>2, <2>3, <2>4 DEF FileRight
  <2> QED BY <1>1, <1>3, <2>1, <2>2, <2>3, <2>5 DEF AsyncInv, TypeOK
<1> QED BY <1>2, <1>3
(* Whole elements of what fits.                                                *)
LEMMA WholeElements ==
  ASSUME NEW a \in Nat, NEW size \in Nat \ {0}
  PROVE  (a \div size) * size \in 0 .. a
<1>1. a \div size \in Nat /\ a % size \in 0 .. size - 1
      /\ a = size * (a \div size) + (a % size)
  OBVIOUS
<1> DEFINE q == a \div size
           r == a % size
<1> HIDE DEF q, r
<1>2. q \in Nat /\ r \in Nat /\ a = size * q + r
  BY <1>1 DEF q, r
<1>3. size * q = q * size /\ q * size \in Nat
  BY <1>2
<1>4. q * size <= a
  BY <1>2, <1>3
<1> QED BY <1>3, <1>4 DEF q

(* The bytes of a read are those of the file at the caller's position, and it  *)
(* moves past them.                                                            *)
Takes ==
    \E k \in 0 .. FileSize - file.filePosition :
        /\ file'.filePosition = file.filePosition + k
        /\ gave' = Plain(file.filePosition, k)

LEMMA ReadTurnInv ==
  ASSUME DebugBuild, AsyncInv, ~Ended, ReadTurn
  PROVE  AsyncInv' /\ IsOpen /\ IsOpen' /\ Takes
<1> DEFINE n == (Least(client.left, BufferSize) \div client.size) * client.size
           f == Cleared(file)
           pos == file.filePosition
           hit == FindDataBuffer(f, pos, n)
           read == SyncRead(f, BufferSize)
           k == Least(BufferSize, FileSize - pos)
<1>1. /\ client.op = "read" /\ client.size \in Nat \ {0} /\ client.left \in Nat
      /\ client.size \in ElementSizes
  <2>1. client \in Client /\ client.op = "read"
    BY DEF ReadTurn, AsyncInv, TypeOK
  <2>2. client.size \in ElementSizes /\ client.left \in Nat
    BY <2>1 DEF Client
  <2> QED BY <2>1, <2>2, AsyncAssumption DEF AsyncAssumption
<1>2. n \in 0 .. client.left
  <2> DEFINE a == Least(client.left, BufferSize)
  <2>1. a \in 0 .. client.left
    BY <1>1, Sizes DEF Least
  <2> HIDE DEF a
  <2>2. (a \div client.size) * client.size \in 0 .. a
    BY <1>1, <2>1, WholeElements
  <2> DEFINE m == (a \div client.size) * client.size
  <2> HIDE DEF m
  <2>3. m \in 0 .. client.left
    BY <1>1, <2>1, <2>2 DEF m
  <2> QED BY <2>3 DEF m, a
<1>3. /\ IsOpen /\ Serves /\ FileRight /\ ~file.issue /\ file.trouble = "none"
      /\ file.startAsyncRead /\ BuffersRight(file) /\ Filled(file, Brought)
      /\ request = "pending" => Room(file)
      /\ request # "idle" => file.filling # NoBuffer
  <2>1. IsOpen /\ Serves /\ FileRight /\ ~file.issue
    BY <1>1 DEF IsOpen, AsyncInv
  <2>2. file.trouble # "assert"
    BY DEF Ended, DebugBuild
  <2> QED BY <2>1, <2>2 DEF FileRight
<1>4. BuffersRight(f) /\ SamePlace(file, f) /\ SameCall(file, f) /\ Unused(f)
  BY <1>3, ClearedRight
<1>5. /\ f \in File /\ f.filePosition = pos /\ pos \in 0 .. FileSize /\ f.startAsyncRead
      /\ ~f.issue /\ f.trouble = "none"
  BY <1>3, <1>4, FileFields DEF SameCall, BuffersRight
<1>6. PICK native \in Native :
        LET at       == f.filePosition
            found    == FindDataBuffer(f, at, n)
            syncRead == SyncRead(f, native.got)
            got   == IF found THEN n
                     ELSE IF native.seek THEN Least(n, syncRead.syncFilePosition - at) ELSE 0
            after == IF found THEN Advance(Found(f, n), n, native.seekAhead)
                     ELSE IF native.seek THEN Advance(syncRead, got, native.seekAhead)
                     ELSE f
        IN  /\ file' = [after EXCEPT !.issue = FALSE]
            /\ request' = Issued(after) /\ thread' = Woken(after)
            /\ client' = IF got = 0 THEN [op |-> "idle"] ELSE [client EXCEPT !.left = @ - got]
            /\ gave' = Bytes(IF found THEN f ELSE syncRead, at, got)
  BY DEF ReadTurn, Cleared
<1>7. native.got = BufferSize /\ native.seek \in BOOLEAN /\ native.seekAhead \in BOOLEAN
  BY DEF Native, Works, Amounts, DebugBuild
<1> DEFINE got   == IF hit THEN n
                    ELSE IF native.seek THEN Least(n, read.syncFilePosition - pos) ELSE 0
           after == IF hit THEN Advance(Found(f, n), n, native.seekAhead)
                    ELSE IF native.seek THEN Advance(read, got, native.seekAhead)
                    ELSE f
<1>8. /\ file' = [after EXCEPT !.issue = FALSE]
      /\ request' = Issued(after) /\ thread' = Woken(after)
      /\ client' = IF got = 0 THEN [op |-> "idle"] ELSE [client EXCEPT !.left = @ - got]
      /\ gave' = Bytes(IF hit THEN f ELSE read, pos, got)
  <2> HIDE DEF n, f, pos
  <2> QED BY <1>5, <1>6, <1>7
<1> HIDE DEF n, f, pos, hit, read, k
<1> DEFINE Ends(g) ==
      /\ g \in File /\ g.startAsyncRead
      /\ \/ request = "idle" /\ Resumed(g, g)
         \/ /\ BuffersRight(g) /\ Filled(g, Brought) /\ g.trouble = "none" /\ ~g.issue
            /\ request = "pending" => Room(g)
            /\ request # "idle" => g.filling # NoBuffer
<1>9. ASSUME NEW g, BuffersRight(g), SamePlace(f, g), SameCall(f, g), g.linked # <<>>,
             NEW m \in Nat, pos + m <= FileSize, NEW works \in BOOLEAN
      PROVE  Ends(Advance(g, m, works)) /\ Advance(g, m, works).filePosition = pos + m
  <2> DEFINE h == Advance(g, m, works)
  <2>1. /\ Filled(g, Brought) /\ (request = "pending" => Room(g))
        /\ (request # "idle" => g.filling # NoBuffer)
    <3>1. Filled(f, Brought) /\ (request = "pending" => Room(f))
      BY <1>3, <1>4, SamePlaceKeeps
    <3>2. Filled(g, Brought) /\ (request = "pending" => Room(g))
      BY <1>9, <3>1, SamePlaceKeeps
    <3> QED BY <1>3, <1>4, <1>9, <3>2 DEF SamePlace
  <2>2. request = "idle" => Brought = 0
    BY DEF Brought
  <2>3. /\ g.trouble = "none" /\ ~g.issue /\ g.startAsyncRead /\ g.filePosition = pos
    BY <1>5, <1>9 DEF SameCall
  <2>4. /\ h.filePosition = g.filePosition + m /\ h.startAsyncRead
        /\ request = "idle" => Resumed(h, h)
        /\ request # "idle" => /\ BuffersRight(h) /\ Filled(h, Brought) /\ SamePlace(g, h)
                               /\ h.trouble = "none" /\ ~h.issue
    BY <1>9, <2>1, <2>2, <2>3, AdvanceRight
  <2> HIDE DEF h
  <2>5. CASE request = "idle"
    BY <2>3, <2>4, <2>5 DEF Resumed, h
  <2>6. CASE request # "idle"
    <3>1. h \in File
      BY <2>4, <2>6 DEF BuffersRight
    <3>2. (request = "pending" => Room(h)) /\ h.filling # NoBuffer
      BY <2>1, <2>4, <2>6, SamePlaceKeeps DEF SamePlace
    <3> QED BY <2>3, <2>4, <2>6, <3>1, <3>2 DEF h
  <2> QED BY <2>5, <2>6
<1>10. /\ Ends(after) /\ after.filePosition = pos + got /\ got \in 0 .. n
       /\ pos + got <= FileSize /\ gave' = Plain(pos, got)
  <2>1. CASE hit
    <3>1. pos + n <= FileSize /\ Bytes(f, pos, n) = Plain(pos, n)
      BY <1>2, <1>4, <1>5, <2>1, FoundBytes DEF hit
    <3>2. BuffersRight(Found(f, n)) /\ SamePlace(f, Found(f, n)) /\ SameCall(f, Found(f, n))
          /\ Found(f, n).linked # <<>>
      BY <1>2, <1>4, <1>5, <2>1, FoundRight DEF hit
    <3>3. got = n /\ after = Advance(Found(f, n), n, native.seekAhead)
          /\ gave' = Bytes(f, pos, n)
      BY <1>8, <2>1
    <3> HIDE DEF got, after, Ends
    <3> QED BY <1>2, <1>7, <1>9, <3>1, <3>2, <3>3
  <2>2. CASE ~hit /\ native.seek
    <3>1. /\ BuffersRight(read) /\ SamePlace(f, read) /\ SameCall(f, read)
          /\ read.linked # <<>> /\ k \in Nat /\ pos + k <= FileSize
          /\ read.syncFilePosition = pos + k
          /\ \A m \in 0 .. k : Bytes(read, pos, m) = Plain(pos, m)
      BY <1>4, <1>5, SyncReadRight DEF read, k
    <3>2. got = Least(n, k)
      <4>1. read.syncFilePosition - pos = k
        BY <1>5, <3>1
      <4> QED BY <2>2, <4>1
    <3>3. got \in 0 .. n /\ got \in 0 .. k
      BY <1>1, <1>2, <3>1, <3>2 DEF Least
    <3>4. after = Advance(read, got, native.seekAhead) /\ gave' = Bytes(read, pos, got)
      BY <1>8, <2>2
    <3> HIDE DEF got, after, Ends
    <3>5. pos + got <= FileSize /\ got \in Nat
      BY <1>5, <3>1, <3>3, Sizes
    <3> QED BY <1>7, <1>9, <3>1, <3>3, <3>4, <3>5
  <2>3. CASE ~hit /\ ~native.seek
    <3>1. got = 0 /\ after = f /\ gave' = Bytes(read, pos, 0)
      BY <1>8, <2>3
    <3>2. pos .. pos + 0 - 1 = {}
      BY <1>5
    <3>3. gave' = Plain(pos, 0)
      BY <3>1, <3>2 DEF Bytes, Plain
    <3>4. Filled(f, Brought) /\ (request = "pending" => Room(f))
      BY <1>3, <1>4, SamePlaceKeeps
    <3>5. request # "idle" => f.filling # NoBuffer
      BY <1>3, <1>4 DEF SamePlace
    <3>6. Ends(f)
      BY <1>4, <1>5, <3>4, <3>5
    <3> HIDE DEF got, after, Ends
    <3> QED BY <1>2, <1>5, <3>1, <3>3, <3>6
  <2> QED BY <2>1, <2>2, <2>3
<1> HIDE DEF got, after
<1>11. client' \in Client /\ client'.op \in {"idle", "read"}
  <2>1. CASE got = 0
    BY <1>8, <2>1 DEF Client
  <2>2. CASE got # 0
    <3> DEFINE left == client.left - got
               size == client.size
    <3>1. left \in Nat
      BY <1>1, <1>2, <1>10
    <3>2. client' = [client EXCEPT !.left = left]
      BY <1>8, <2>2
    <3>3. client = [op |-> "read", size |-> size, left |-> client.left]
      <4>1. client \in [op : {"read"}, size : ElementSizes, left : Nat]
        BY <1>1 DEF AsyncInv, TypeOK, Client
      <4> QED BY <4>1
    <3> HIDE DEF left
    <3>4. client' = [op |-> "read", size |-> size, left |-> left]
      BY ONLY <3>2, <3>3
    <3> QED BY <1>1, <3>1, <3>4 DEF Client
  <2> QED BY <2>1, <2>2
<1>12. AsyncInv' /\ file'.filePosition = after.filePosition
  BY <1>1, <1>8, <1>10, <1>11, TurnEnds
<1>13. Takes
  <2>1. got \in 0 .. FileSize - pos
    BY <1>2, <1>5, <1>10, Sizes
  <2> QED BY <1>10, <1>12, <2>1 DEF Takes, pos
<1> QED BY <1>3, <1>11, <1>12, <1>13 DEF IsOpen
-----------------------------------------------------------------------------
(* What the caller sees.                                                       *)
Seen == IF IsOpen THEN file.filePosition ELSE 0

(* A step that does not show.                                                  *)
LEMMA SeenStays ==
  ASSUME IsOpen' = IsOpen, Seen' = Seen, Seen \in 0 .. FileSize, gave' = {}
  PROVE  StoredFile!Turn
BY DEF StoredFile!Turn, StoredFile!Stays, StoredFile!Kept, StoredFile!NotSaved,
       StoredFile!Quiet, StoredFile!SameUpTo, Seen

LEMMA SeenTakes ==
  ASSUME file \in File, file' \in File, IsOpen, IsOpen', Takes
  PROVE  /\ StoredFile!Take(file'.filePosition - file.filePosition)
         /\ StoredFile!Next
<1> DEFINE pos == file.filePosition
           bytes == [i \in 0 .. FileSize - 1 |-> i]
<1>1. PICK k \in 0 .. FileSize - pos :
             file'.filePosition = pos + k /\ gave' = Plain(pos, k)
  BY DEF Takes
<1>2. pos \in 0 .. FileSize /\ FileSize \in Nat /\ Seen = pos
  BY FileFields, Sizes DEF Seen
<1>3. file'.filePosition - file.filePosition = k
  BY <1>1, <1>2
<1> HIDE DEF pos
<1>4. gave' = {<<i, bytes[i]>> : i \in pos .. pos + k - 1}
  <2>1. \A i \in pos .. pos + k - 1 : bytes[i] = i
    BY <1>1, <1>2
  <2> HIDE DEF bytes
  <2> QED BY <1>1, <2>1 DEF Plain
<1>5. StoredFile!Take(k)
  BY <1>1, <1>2, <1>4
     DEF StoredFile!Take, StoredFile!Kept, StoredFile!NotSaved, StoredFile!SameUpTo, pos
<1>6. CASE k = 0
  <2>1. pos .. pos + k - 1 = {} /\ Seen' = Seen
    BY <1>1, <1>2, <1>6 DEF Seen, pos
  <2>2. gave' = {}
    BY <1>1, <2>1 DEF Plain
  <2>3. StoredFile!Turn
    BY <1>2, <2>1, <2>2, SeenStays
  <2> QED BY <1>3, <1>5, <2>3 DEF StoredFile!Next
<1>7. CASE k # 0
  <2>1. k \in 1 .. FileSize
    BY <1>1, <1>2, <1>7
  <2> QED BY <1>3, <1>5, <2>1 DEF StoredFile!Next
<1> QED BY <1>6, <1>7

(* Opening and closing: all of the plain file is stored.                       *)
LEMMA SeenOpens ==
  ASSUME ~IsOpen, Seen' = 0, gave' = {}
  PROVE  StoredFile!Open(FALSE)
<1>1. IsOpen' \in BOOLEAN
  BY DEF IsOpen
<1> QED BY <1>1 DEF StoredFile!Open, StoredFile!Quiet, StoredFile!SameUpTo, Seen

LEMMA SeenCloses ==
  ASSUME IsOpen, ~IsOpen', gave' = {}
  PROVE  StoredFile!Close
BY DEF StoredFile!Close, StoredFile!Kept, StoredFile!Saved, StoredFile!Quiet,
       StoredFile!SameUpTo

LEMMA SeenSeeks ==
  ASSUME IsOpen, IsOpen', NEW pos \in 0 .. FileSize, Seen' = pos, gave' = {}
  PROVE  StoredFile!Seek(pos)
BY Sizes DEF StoredFile!Seek, StoredFile!Kept, StoredFile!NotSaved, StoredFile!Quiet,
       StoredFile!SameUpTo, Seen

LEMMA AsyncInvInit ==
  ASSUME Init
  PROVE  AsyncInv /\ StoredFile!Init
<1>1. [NewFile EXCEPT !.startAsyncRead = FALSE] = NewFile
  BY NewFileRight
<1>2. file \in File /\ file.trouble = "none" /\ file.issue = FALSE
  BY <1>1, NewFileRight DEF Init
<1>3. thread \in Thread /\ ~IsOpen /\ client \in Client
  BY Sizes DEF Init, NoThread, Thread, Client, IsOpen
<1>4. AsyncInv
  BY <1>2, <1>3 DEF Init, AsyncInv, TypeOK
<1>5. StoredFile!Init
  <2> DEFINE bytes == [i \in 0 .. FileSize - 1 |-> i]
  <2>1. bytes \in [0 .. FileSize - 1 -> 0 .. FileSize] /\ FileSize \in 0 .. FileSize
    BY Sizes
  <2> QED BY <1>3, <2>1 DEF Init, StoredFile!Init, StoredFile!Files, StoredFile!Positions
<1> QED BY <1>4, <1>5

(* Each call keeps the invariant and is that call of StoredFile.               *)
LEMMA OpenStep ==
  ASSUME AsyncInv, Open
  PROVE  AsyncInv' /\ StoredFile!Open(FALSE)
<1>1. ~IsOpen /\ gave' = {}
  BY DEF Open, IsOpen
<1>2. Seen' = 0
  <2>1. PICK start \in BOOLEAN : file' = [NewFile EXCEPT !.startAsyncRead = start]
    BY DEF Open, Works
  <2> QED BY <2>1 DEF NewFile, Seen
<1> QED BY <1>1, <1>2, OpenInv, SeenOpens

LEMMA CloseStep ==
  ASSUME AsyncInv, Close
  PROVE  AsyncInv' /\ StoredFile!Close
<1>1. IsOpen /\ gave' = {} /\ client' = [op |-> "stopping"]
  BY DEF Close, StopAsyncReadThread, IsOpen
<1>2. ~IsOpen'
  BY <1>1 DEF IsOpen
<1> QED BY <1>1, <1>2, StopInv, SeenCloses

LEMMA SeekStep ==
  ASSUME AsyncInv, NEW pos \in Targets, Seek(pos)
  PROVE  AsyncInv' /\ StoredFile!Seek(pos) /\ pos \in 0 .. FileSize
<1>1. pos \in 0 .. FileSize
  BY AsyncAssumption DEF AsyncAssumption
<1>2. /\ IsOpen /\ IsOpen' /\ client' = client /\ client'.op # "closed" /\ client \in Client
      /\ UNCHANGED <<request, thread>> /\ file' = [file EXCEPT !.filePosition = pos]
      /\ gave' = {} /\ file \in File
  BY DEF Seek, IsOpen, AsyncInv, TypeOK
<1>3. file'.filePosition = pos
  BY ONLY <1>2 DEF File
<1> QED BY <1>1, <1>2, <1>3, CallInv, SeenSeeks DEF Seen

(* The beginning and the end of a call, and of the stop of the thread.         *)
LEMMA CallStep ==
  ASSUME AsyncInv, UNCHANGED <<file, request, thread>>, client' \in Client, IsOpen, IsOpen',
         client'.op # "closed", gave' = {}
  PROVE  AsyncInv' /\ StoredFile!Turn
<1> DEFINE pos == file.filePosition
<1>1. file \in File
  BY DEF AsyncInv, TypeOK
<1>2. file' = [file EXCEPT !.filePosition = pos]
  <2>1. file = [file EXCEPT !.filePosition = file.filePosition]
    BY ONLY <1>1 DEF File
  <2> QED BY <2>1
<1>3. pos \in 0 .. FileSize
  BY <1>1, FileFields
<1>4. Seen' = Seen /\ Seen \in 0 .. FileSize
  BY <1>3 DEF Seen
<1>5. AsyncInv'
  BY <1>2, <1>3, CallInv
<1> QED BY <1>4, <1>5, SeenStays

LEMMA AsyncInvStep ==
  ASSUME DebugBuild, AsyncInv, [Next]_vars
  PROVE  AsyncInv' /\ [StoredFile!Next]_(StoredFile!vars)
<1>0. file \in File /\ file.filePosition \in 0 .. FileSize /\ 0 \in 0 .. FileSize
  BY FileFields, Sizes DEF AsyncInv, TypeOK
<1>1. CASE UNCHANGED vars
  <2>1. /\ file' = file /\ request' = request /\ thread' = thread /\ client' = client
        /\ gave' = gave
    BY <1>1 DEF vars
  <2>2. AsyncInv'
    BY <2>1 DEF AsyncInv, TypeOK, IsOpen, Serves, FileRight, Brought
  <2>3. UNCHANGED StoredFile!vars
    BY <2>1 DEF StoredFile!vars, IsOpen
  <2> QED BY <2>2, <2>3
<1>2. ASSUME gave' = {}, IsOpen' = IsOpen, IsOpen => file'.filePosition = file.filePosition
      PROVE  StoredFile!Next
  <2>1. Seen' = Seen /\ Seen \in 0 .. FileSize
    BY <1>0, <1>2 DEF Seen
  <2> QED BY <1>2, <2>1, SeenStays DEF StoredFile!Next
<1>3. CASE ~Ended /\ ThreadNext
  <2>1. gave' = {} /\ client' = client /\ IsOpen' = IsOpen
    BY <1>3 DEF ThreadNext, IsOpen
  <2>2. CASE ThreadReads
    BY <1>2, <2>1, <2>2, ThreadReadsInv
  <2>3. CASE ThreadTop \/ ThreadWakes \/ ThreadChecks \/ ThreadLeaves \/ ThreadCompletes
    <3>1. file' = file
      BY <2>3 DEF ThreadTop, ThreadWakes, ThreadChecks, ThreadLeaves, ThreadStep,
                  ThreadCompletes
    <3> QED BY <1>2, <2>1, <2>3, <3>1, ThreadTopInv, ThreadCompletesInv
  <2> QED BY <1>3, <2>2, <2>3 DEF ThreadNext
<1>4. CASE ~Ended /\ CallerNext
  <2>1. CASE Open
    BY <2>1, OpenStep DEF StoredFile!Next
  <2>2. CASE Close
    BY <2>2, CloseStep DEF StoredFile!Next
  <2>3. CASE Discard
    <3>1. ~IsOpen /\ IsOpen' = IsOpen /\ gave' = {}
      BY <2>3 DEF Discard, StopAsyncReadThread, IsOpen
    <3> QED BY <1>2, <2>3, <3>1, StopInv
  <2>4. CASE Stopped
    <3>1. ~IsOpen /\ IsOpen' = IsOpen /\ gave' = {}
      BY <2>4 DEF Stopped, IsOpen
    <3> QED BY <1>2, <2>4, <3>1, StoppedInv
  <2>5. CASE \E pos \in Targets : Seek(pos)
    BY <2>5, SeekStep DEF StoredFile!Next
  <2>6. ASSUME NEW size \in ElementSizes, NEW m \in 1 .. MaxElements, Read(size, m)
        PROVE  AsyncInv' /\ StoredFile!Turn
    <3>1. size * m \in Nat
      BY AsyncAssumption DEF AsyncAssumption
    <3>2. client' = [op |-> "read", size |-> size, left |-> size * m]
      BY <2>6 DEF Read
    <3>3. client' \in Client /\ client'.op = "read"
      BY <3>1, <3>2 DEF Client
    <3> QED BY <2>6, <3>3, CallStep DEF Read, IsOpen
  <2>7. CASE ReadTurn
    <3>1. AsyncInv' /\ IsOpen /\ IsOpen' /\ Takes
      BY <1>4, <2>7, ReadTurnInv
    <3>2. file' \in File
      BY <3>1 DEF AsyncInv, TypeOK
    <3> QED BY <1>0, <3>1, <3>2, SeenTakes
  <2>8. CASE ReadReturns
    <3>1. client' \in Client /\ client'.op = "idle" /\ client.op = "read" /\ gave' = {}
      BY <2>8 DEF ReadReturns, Client
    <3>2. StoredFile!Turn /\ AsyncInv'
      BY <2>8, <3>1, CallStep DEF ReadReturns, IsOpen
    <3> QED BY <3>2 DEF StoredFile!Next
  <2>9. CASE Run
    <3>1. gave' = {} /\ IsOpen' = IsOpen
      BY <2>9 DEF Run, IsOpen
    <3> QED BY <1>2, <1>4, <2>9, <3>1, RunInv
  <2>10. CASE \E size \in ElementSizes, m \in 1 .. MaxElements : Read(size, m)
    BY <2>6, <2>10 DEF StoredFile!Next
  <2> QED BY <1>4, <2>1, <2>2, <2>3, <2>4, <2>5, <2>7, <2>8, <2>9, <2>10 DEF CallerNext
<1> QED BY <1>1, <1>3, <1>4 DEF Next
-----------------------------------------------------------------------------
(* The inductive invariant holds in every state.                               *)
THEOREM AsyncStaysRight == DebugBuild => (Spec => []AsyncInv)
<1> SUFFICES ASSUME DebugBuild PROVE Spec => []AsyncInv
  OBVIOUS
<1>1. Init => AsyncInv
  BY AsyncInvInit
<1>2. AsyncInv /\ [Next]_vars => AsyncInv'
  BY AsyncInvStep
<1> QED BY <1>1, <1>2, PTL DEF Spec

(* All is of its type, and the thread, which reads without a lock into a       *)
(* buffer the caller reads from, reads behind what the buffer has, within it,  *)
(* and the continuation of it, whatever the caller does.                       *)
THEOREM ThreadStaysWellPlaced == DebugBuild => (Spec => []WellPlaced)
<1> SUFFICES ASSUME DebugBuild PROVE Spec => []WellPlaced
  OBVIOUS
<1>1. AsyncInv => WellPlaced
  <2> SUFFICES ASSUME AsyncInv PROVE WellPlaced
    OBVIOUS
  <2>1. ASSUME request = "pending", IsOpen
        PROVE  LET b == file.buffers[file.filling]
               IN  /\ file.filling # NoBuffer /\ b.valid /\ file.slot = b.length
                   /\ End(b) = file.asyncFilePosition
                   /\ thread.pc # "complete" => file.nativePosition = End(b)
    <3>1. BuffersRight(file) /\ Filled(file, Brought) /\ Room(file)
      BY <2>1 DEF AsyncInv, FileRight
    <3>2. thread.pc # "complete" => Brought = 0
      BY <2>1 DEF Brought
    <3>3. file.asyncFilePosition \in Nat
      BY FileFields, Sizes DEF AsyncInv, TypeOK
    <3> QED BY <3>1, <3>2, <3>3 DEF BuffersRight, Filled, Room
  <2> QED BY <2>1 DEF AsyncInv, WellPlaced, ThreadHasItsPlace
<1>2. Spec => []AsyncInv
  BY AsyncStaysRight
<1> QED BY <1>1, <1>2, PTL

(* Each call is that call of the plain file.                                   *)
LEMMA ActsStep ==
  ASSUME DebugBuild, AsyncInv, [Next]_vars
  PROVE  [ActsAsCalled]_vars
<1>1. ASSUME Next, ReadTurn
      PROVE  StoredFile!Take(file'.filePosition - file.filePosition)
  <2>1. AsyncInv' /\ IsOpen /\ IsOpen' /\ Takes
    BY <1>1, ReadTurnInv DEF Next
  <2>2. file \in File /\ file' \in File
    BY <2>1 DEF AsyncInv, TypeOK
  <2> QED BY <2>1, <2>2, SeenTakes
<1>2. /\ Open => StoredFile!Open(FALSE)
      /\ Close => StoredFile!Close
      /\ \A pos \in Targets : Seek(pos) => StoredFile!Seek(pos)
  BY OpenStep, CloseStep, SeekStep
<1> QED BY <1>1, <1>2 DEF ActsAsCalled

(* The file read ahead is the plain file to its caller, call by call:          *)
(* AsyncFile implements StoredFile.                                            *)
THEOREM AsyncIsStoredFile == DebugBuild => (Spec => IsStoredFile)
<1> SUFFICES ASSUME DebugBuild PROVE Spec => IsStoredFile
  OBVIOUS
<1> DEFINE Acts == ActsAsCalled
<1>1. Init => StoredFile!Init
  BY AsyncInvInit
<1>2. AsyncInv /\ [Next]_vars => [StoredFile!Next]_(StoredFile!vars)
  BY AsyncInvStep
<1>3. AsyncInv /\ [Next]_vars => [Acts]_vars
  BY ActsStep
<1>4. IsStoredFile <=> StoredFile!Init /\ [][StoredFile!Next]_(StoredFile!vars) /\ [][Acts]_vars
  BY DEF IsStoredFile, StoredFile!Spec
<1>5. Spec => []AsyncInv
  BY AsyncStaysRight
<1> HIDE DEF Acts
<1> QED BY <1>1, <1>2, <1>3, <1>4, <1>5, PTL DEF Spec
=============================================================================
