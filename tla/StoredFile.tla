----------------------------- MODULE StoredFile -----------------------------
(* What a file opened through Oscl_File promises its caller: bytes at         *)
(* positions, one position that reads, writes and seeks move, and a stored    *)
(* copy that catches up with what was written when the file is flushed or     *)
(* closed. Nothing of a cache shows.                                          *)
EXTENDS Naturals

CONSTANTS
    Byte,          \* values of a byte
    MaxSize        \* the most bytes a file has room for

VARIABLES
    isOpen,        \* the file is open
    bytes,         \* the bytes of the file as the caller sees them
    length,        \* how many
    stored,        \* the bytes the file beneath has
    storedLength,  \* how many
    pos,           \* the position the next byte is read from or written to
    gave,          \* the bytes the last step handed to a reader, by position
    failed         \* the last step lost a native write

vars == <<isOpen, bytes, length, stored, storedLength, pos, gave, failed>>

Positions == 0 .. MaxSize - 1
Files     == [Positions -> Byte]

(* Two contents of n bytes are the same when they agree up to n.              *)
SameUpTo(n, a, b) == \A i \in 0 .. n - 1 : a[i] = b[i]

Saved    == storedLength' = length /\ SameUpTo(length, stored', bytes)
NotSaved == UNCHANGED <<stored, storedLength>>
Kept     == length' = length /\ SameUpTo(length, bytes', bytes)
Quiet    == failed' = FALSE /\ gave' = {}

(* The position stays, or is the end of what a loss has left.                 *)
Stays == pos' = IF pos <= length' THEN pos ELSE length'

(* A native write failed: what was not yet stored is lost, but for the part   *)
(* the write managed; no stored byte turns into anything else.                *)
Lost ==
    /\ failed' = TRUE /\ gave' = {}
    /\ \A i \in 0 .. storedLength' - 1 :
          \/ i < length /\ stored'[i] = bytes[i]
          \/ i < storedLength /\ stored'[i] = stored[i]
    /\ storedLength' \in storedLength .. length
    /\ length' = storedLength' /\ SameUpTo(length', bytes', stored')

Init ==
    /\ isOpen = FALSE
    /\ bytes \in Files /\ length \in 0 .. MaxSize
    /\ stored = bytes /\ storedLength = length
    /\ pos = 0 /\ gave = {} /\ failed = FALSE

(* A closed file is opened, or not: it shows what is stored, or is emptied.   *)
Open(empties) ==
    /\ ~isOpen /\ isOpen' \in BOOLEAN
    /\ storedLength' = IF empties THEN 0 ELSE storedLength
    /\ SameUpTo(storedLength', stored', stored)
    /\ length' = storedLength' /\ SameUpTo(length', bytes', stored')
    /\ pos' = 0 /\ Quiet

(* Closing stores everything, as a flush does.                                *)
Close ==
    /\ isOpen /\ isOpen' = FALSE /\ pos' = 0
    /\ (Kept /\ Saved /\ Quiet) \/ Lost

Flush ==
    /\ isOpen /\ isOpen' /\ Stays
    /\ (Kept /\ Saved /\ Quiet) \/ Lost

(* To a position of the file, what was written may be stored first; nowhere   *)
(* if the target is not in the file.                                          *)
Seek(target) ==
    /\ isOpen /\ isOpen'
    /\ \/ /\ Kept /\ (Saved \/ NotSaved) /\ Quiet
          /\ pos' = IF 0 <= target /\ target <= length THEN target ELSE pos
       \/ Lost /\ Stays

(* The reader is given the next k bytes.                                      *)
Take(k) ==
    /\ isOpen /\ isOpen' /\ pos + k <= length
    /\ Kept /\ NotSaved /\ failed' = FALSE
    /\ pos' = pos + k
    /\ gave' = {<<i, bytes[i]>> : i \in pos .. pos + k - 1}

(* The writer puts the byte b k times, all other bytes stay.                  *)
Put(k, b) ==
    /\ isOpen /\ isOpen' /\ pos + k <= MaxSize
    /\ NotSaved /\ Quiet
    /\ pos' = pos + k
    /\ length' = IF pos + k > length THEN pos + k ELSE length
    /\ \A i \in 0 .. length' - 1 :
          bytes'[i] = IF pos <= i /\ i < pos + k THEN b ELSE bytes[i]

(* A read or a write begins, goes on or ends.                                 *)
Turn ==
    /\ isOpen' = isOpen /\ Stays
    /\ (Kept /\ (Saved \/ NotSaved) /\ Quiet) \/ Lost

Next ==
    \/ \E empties \in BOOLEAN : Open(empties)
    \/ Close \/ Flush \/ Turn
    \/ \E target \in 0 .. MaxSize : Seek(target)
    \/ \E k \in 1 .. MaxSize : Take(k) \/ \E b \in Byte : Put(k, b)

Spec == Init /\ [][Next]_vars
==============================================================================
