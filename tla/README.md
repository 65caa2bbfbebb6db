# FoodieNote: verification

FoodieNote (the app calls itself *listener*) is an Android music player with a
social side: one plays the songs on the phone, follows a friend and hears what the
friend hears, uploads songs, chats. The app is `src/listener/src/main/java/com/yaozu/listener`
(below `java/`). Its tag scanner is native code (`src/listener/src/main/jni`, below `jni/`) that brings along the
system library of OpenCORE, `oscl_config`: files with a cache or a reading thread, and a scheduler of active objects. The rest of the repository is vendored
players and libraries. This directory holds a formal model of its core in TLA+, the TLC configurations that
check it on small instances, and TLAPS proofs of the main theorems.

| module | what it is |
|---|---|
| `MediaPlayer` | the life cycle of `android.media.MediaPlayer` the code runs into (external) |
| `MusicService` | the background player, the screens that drive it, its players, kill and restart |
| `MusicServiceProofs` | types, the inductive invariant `Discipline`, `OneVoice`, what sounds is shown and not cut, no exception while the service runs, silence after the kill |
| `Following` | listening together: follow, poll task, pushes, orders; composed with `MusicService` |
| `FollowingProofs` | `Following` implements `MusicService`; who is followed is polled; the user's choice stands |
| `UploadQueue` | the queue that uploads local songs |
| `UploadQueueProofs` | its types and its three safety invariants |
| `ChatInbox` | the chat tables between the library's thread and the main thread |
| `ChatInboxProofs` | its types, no chat out of reach, the dots settle, an open chat is complete |
| `StoredFile` | what an open file promises its caller: the abstract specification of the next two |
| `FileCache` | `OsclFileCache`, the read and write cache over a native file |
| `FileCacheProofs` | its invariants, and that it implements `StoredFile` |
| `AsyncFile` | `OsclAsyncFile`, the buffers of a read-only file and the thread that fills them |
| `AsyncFileProofs` | the reading thread has its place, and the file read ahead implements `StoredFile` |
| `PriorityQueue` | the heap beneath the scheduler's queues, swap by swap |
| `PriorityQueueProofs` | its types, its contents, and its order while nothing is removed from the middle of six |
| `Scheduler` | active objects, timers, the scheduler's loop, and other threads that complete, stop, suspend and resume |
| `SchedulerProofs` | its types, the count of the semaphore, no request lost, callbacks, timers on time |
| `MC*` | the instances TLC checks |

## 1. The system

### Parts, state and operations

* **Music player** (`service/MusicService.java`, `HomeMainActivity`,
  `adapter/HomeListViewAdapter`, `activity/MusicLyricActivity`). State: the current
  `MediaPlayer`, the play list `mSongs`, `mCurrentIndex`, `mCurrentSong`,
  `currentState`, the play mode, the pending `SWITCH_NEXT` message; in the preferences
  the song and index at quitting (`utils/User.java`). Operations: play a row, play or
  pause, seek, switch after 500 ms, play a song of the server, next song on completion
  or error, release on an unknown error, kill. Everything runs on the main looper;
  players prepare and play on their own threads and post events to it.
* **Listening together** (`utils/Order.java`, `YaozuApplication`, `UserDetailActivity`,
  `ChatDetailActivity`, `MyReceivePushMessageListener`, the poll task of `MusicService`).
  State: who is followed, whether the poll task is to run, its threads, requests and
  news under way. It calls `pause`, `start` and `playSong` of the service.
* **Upload** (`utils/UploadSongsUtil.java`, `NetUtil.uploadFile`, `MusicLocalFragment`,
  the row's button in `HomeListViewAdapter`). State: the waiting tasks, the titles ever
  queued, `isRunning`, the context of the singleton, the mark in the song table.
* **Chat inbox** (`listener/MyReceiveMessageListener.java`, `ChatDetailActivity`,
  `ChatListInfoDao`, `ChatDetailInfoDao`, `ChatFragment`, `HomeFragment`,
  `SocialFragment`). State: two tables, written statement by statement from two
  threads; the chat screen, the chat list and the unread dots, kept up to date by
  local broadcasts.
* **Native file** (`oscl_file_io.cpp`, `oscl_file_native.cpp`). `Oscl_File` puts one of two layers
  over the `FILE*`: **the cache** (`oscl_file_cache.cpp`), one buffer with four cursors, a range that is to be written,
  a remembered native position and file size, under open, close, read, write, seek and flush; or **the
  asynchronous buffer** (`oscl_file_async_read.cpp`) for files that are only read: four buffers, the queue of
  those that follow one another, two native handles, a reading thread with two semaphores and an active object whose
  `Run` goes on from what the thread brought.
* **Native scheduler** (`oscl_scheduler*.cpp`, `oscl_priqueue.cpp`, `oscl_semaphore.cpp`). State: a ready queue and a timer
  queue, each a heap; a semaphore that counts the ready queue; per object its status, whether it is
  busy, and its queue; flags to stop and suspend. Operations: the blocking and the non-blocking loop, requests, completion by the own
  or another thread, timers, cancelling (which may wait for another thread), stop, suspend, resume.
* **Not modelled**: see the last section.

The parts meet in few places: the orders of a followed friend and the screens call the
service; a row of the local list ends the following; the home screen's destruction kills
the service; a message of the library is a chat message, a friend request or a push of a
friend's state; and the local song table is the play list and the upload list. In the library, the asynchronous
buffer is an active object of the scheduler, whose two queues are heaps of the priority queue; the cache and the
buffer hide the same native file.

### What is hard here

* `SWITCH_NEXT` comes 500 ms after the switch, an answer of the server at any time
  (volley), the events of a player when it likes; none of them can be taken back, and the
  handlers read fields that may have changed since.
* Every song gets a new `MediaPlayer`; the old one is dropped, not released, and its
  late events run on the new one through the shared listeners.
* `start()`, `pause()`, `seekTo()` and `getDuration()` reach the player in whatever state
  it is; the platform answers a call out of order by an error event.
* Poll answers and pushes of one friend overtake one another, and arrive after the user
  left that friend.
* Find and add, read and increment, on the chat tables are separate statements on
  separate connections, on two threads.
* The process dies at any moment; only preferences and tables survive.
* The file cache defers writes and saves seeks: a native call that falls short finds the cursors, the size
  and the native file apart, in the middle of a loop.
* The reading thread fills a buffer and moves a handle while the caller reads from the buffers and seeks; which
  buffer is next follows from three orders of them (array, offset, queue).
* The semaphore and the ready queue are two things; threads complete requests between a wait and the lock that
  follows it, while a timed wait ends, while the loop is stopped, suspended or waits for one request. The
  tick count of the timers rolls over.

### What makes each part correct

One song sounds, the one that the screens show and the preferences remember; nothing but the user, an
answer or the end of the service cuts it; the list plays on; a killed service stays
silent. A followed friend is polled, and plays here what plays there; one no longer
followed decides nothing. One upload at a time, one task per title, no task forgotten, no
mark without the file. No chat without its entry, no message lost to the open chat, dots
that tell the truth in the end. A file with either layer is a plain file. The scheduler loses no request and runs none twice, its semaphore counts
its queue, a timer runs on time, the first in the queue is the one of highest priority, and a stop ends the loop.

## 2. How the modules follow the code

**MusicService.** The object, with its players and its one delayed message, is the record
`music`; a method of the class is an operator on that record under its own name (`Start`,
`Pause`, `StopPlayBack`, `PrepareToPlay`, `PlayNextSong`, `Completed`, `OnErrorUnknown`,
...), because methods call one another; an action is a whole handler of the looper, from
the screen or message that starts it to its return. An exception that ends the process
sets `npe`; nothing but `Restart` follows. `phase` is the life of the service (`starting`:
intent sent, not yet created), `intents` the `startService` calls under way. The list of the
local screen and `mSongs` may be the same object (`aliased`): `playSong` clears both, as
`mSongs.clear()` does in the code. The support service contributes one bit, whether there
is a position to seek to. `setDataSource` may throw, preparing may fail, a track may break
off, each with a known or the unknown error code.

`disturbed` is a history flag: it becomes true when a control call reached a player in a
state that forbids it, a `start()` revived a track whose completion was already posted, or
`SWITCH_NEXT` or a start intent dropped a player that could still be heard. All of these happen in the
code; each leaves a player the service does not know of, or an event that will hit the wrong
song. The guarantees about sound are stated up to the first of them: they say that *nothing
else* breaks the discipline. The flag is not read by any action.

Consequences of a disturbance, each a behaviour of the model: an answer of the server in the
500 ms gap followed by `SWITCH_NEXT` makes two songs sound; play, pause, a seek or a tick of
the lyric screen in the gap faults the idle player, and its error is taken for a completion
and skips a song; in single-loop mode a song that cannot be played is tried without end; after
`MEDIA_ERROR_UNKNOWN` the current player has no listeners and `currentState` stays `playing`.
Without any disturbance: the index kept for the next run need not be that of the song kept;
a click on row 0 of a fresh start is ignored, since `mCurrentIndex` is 0 already; the headset
receiver and the lyric screen, used before the service exists, end the process, as does the
lyric screen after the kill; a killed service plays on if `SWITCH_NEXT` or an answer was under way.

Left out: the report of each state to the server (`MusicService.java:262-304` puts a request in Volley's queue whose failure is only
logged, so nothing can be promised of what the server knows), `ConnectionChangeReceiver` (`:541-582`), which repeats that report when the
network is back and changes nothing else, a second `MusicService` object in the same process after a kill, the collection
of a dropped player while it sounds, volume and layout.

**Following** EXTENDS `MusicService` and drives it: `FollowStep` of the service (any
order at any time) is replaced by the friends, the server, the poll threads and the network.
`Order` is `Order.switchToNextSongOrPlayPause`; `SetFollowPlayInfo` always adds a thread;
a thread is at its test of `isruntask` or asleep (5 s) and polls after the sleep. News
are a set: any may be lost or handled next. `following` stands for `isFollowPlay` together
with `followUserid`, which are always written together. A friend can be followed while there is no
service: then nothing plays and no task runs. `Kill` leaves the poll threads running, as the
code does. Left out: two equal news at once, and a second request for a song whose first
is unanswered.

**UploadQueue.** The queue's fields, the screen (`attached`), requests, answers, uploads and
outcomes as sets, answered and handled in any order. An answer handled after its screen is gone (`left`) makes
the singleton with a null context, with which every upload fails. A failed upload only logs: `isRunning`
stays set and nothing more is started (`Stalled`). The response of a file that arrived
may be lost. An upload need not end at all: `NetUtil.java:99-102` sets a timeout for the connection only.

**ChatInbox.** A step is one statement of the database or one handler between two; `worker`
and `main` hold the program counter and what the thread has read and will still use. Broadcasts
are queued, `live` when a chat screen is registered as they are sent. `StartWith`
and `Restart` read the tables as they are between two statements. One chat screen exists
at a time; friend requests and notifications are left out. The deletion of a chat
(`deleteChatListById`) has no caller.

**FileCache.** The object with the native file beneath it is the record `cache`, a helper method (`SetCachePosition`,
`WriteCacheToFile`, `FillCacheFromFile`) an operator on it under its own name. `Read` and `Write` are a step for each turn of their loop,
other calls one step. `Native` is how the native calls of one step go: which fail, how many bytes they move.
A native write directly behind a native read, without a seek, is undefined in C, and the cache leaves that seek out when `_nativePosition` says the file
is there (`oscl_file_cache.cpp:581, 605`); `ReadAhead` is what the C library makes of it. `gave` is what the last
step handed to the reader.

**StoredFile** is the abstract file of this module and the next: whether it is open, its bytes and length as the caller sees them, the bytes and length stored
beneath, a position, what was given to a reader. Only a closed file opens, showing what is stored or emptied; a flush and a close store all that was written; a
seek goes to its target if the file has it and nowhere otherwise; a reader is given the next bytes and the position moves by as many; a writer
changes those bytes and no others. A native write that fails may lose what was not stored, never turning a stored byte into another. The two modules
instantiate it with what the caller sees (the native file with the unwritten range laid over it, or the file itself), and `IsStoredFile` says
two things: every step is a step of `StoredFile`, and (`ActsAsCalled`) an `Open` is its `Open`, a `Close` its `Close`, a `Flush` its `Flush`, a `Seek` to a position its
`Seek` to that position, and a turn of `Read` or `Write` its `Take` or `Put` of as many bytes.

**AsyncFile.** `file` holds the buffers, the queue of linked buffers, the positions and what the
thread was given; `thread` its place in `InThread` with its semaphores and exit flag; `request` whether the active object
waits for the thread. A byte of the file is its own position, so a byte from the wrong place shows. A turn of the loop of
`Read` is a step, as is each stretch of the thread between two points where the caller may get in
between. `SortDataBuffers` with the walk over the sorted buffers is `Followers`: the next buffer is the first that begins where the last ends. In a debug build
(`NDebug` is FALSE) an assertion that fails ends the process (`Ended`), in a release build it is nothing. A read with the buffer pointer
not yet set, or past the buffer's end, is undefined and ends the behaviour ("wild").

**PriorityQueue.** `vec` is the vector; `push_heap`, `pop_heap` and `remove` are a step for each turn of their loops, with the
indices of the code, those of `pop_heap` relative to the range it was given. Keys are pairwise different, as the sequence
number makes them in the scheduler. `contents` and `cut` are histories: what is queued, and the largest size at which something
was removed from the middle.

**Scheduler.** `pc` is the place of the scheduler's thread, cut wherever another thread may act in between: before and after the wait of the
semaphore, before the lock of the queue, in each turn of the wait for one request. Other threads complete (`CompleteRemote`) and
command (`at` is their place in `StopScheduler` and its like, whose three looks and signals are separate steps); any of them may. The queues are sets here: `ReadyTop` picks what
the comparison (`OsclReadyCompare`) puts first, up to the five objects for which `PriorityQueue` shows the heap to do so, and anything
beyond. `iSeqNum` only orders, so `ahead` keeps who was queued before whom; it has no width. `tick` counts modulo `Wrap`; a delay becomes ticks by the
unsigned arithmetic of `AddToExecTimerQ` (`Ticks`), and `left` is the history of how
long a timer really has to wait, from the nearest number of ticks (`Nearest`). Where the code leaves a function with a lock held (`EndCancelsStopper`), the place is `dead`.
Left out: installing and uninstalling, statistics, and the objects that never complete a request they keep to
themselves, which the code says must not be.

**MediaPlayer** is not in the repository. It holds the states and rules of the platform's
documented life cycle that the service can meet: where calls are allowed, that a forbidden
one posts an error event, that `reset` removes undelivered events and `release`
listeners, and that events reach the looper in order.

## 3. The runs

| run | module, cfg | distinct states | shows |
|---|---|---|---|
| `music` | `MCMusicService`, `MusicService.cfg` | 404 000 | `Discipline`, `OneVoice`, `SoundIsShown`, `NoCrashWhileRunning`, `SoundingNotCut`, `SilentAfterKill`, `PlaysOn` |
| `following` | `MCFollowing`, `Following.cfg` | 176 000 | `FollowedIsPolled`, `UserChoiceStands`, `PlaysAsMusicService`, `PollingEnds`, `CatchesUpUnlessFailed` |
| `following_after_failure` | `MCFollowAfterFailure.cfg` | violation | `CatchesUp`, a failed player not excepted |
| `upload` | `MCUploadQueue`, `UploadQueue.cfg` | 745 000 | `OneAtATime`, `OneTaskPerTitle`, `MarkedIsThere`, `QueueDrains` |
| `chat` | `MCChatInbox`, `ChatInbox.cfg` | 1.95 million | `TablesInOrder` with `ChatListed`, `BadgeSettles`, `ScreenComplete` |
| `file_cache` | `MCFileCache`, `FileCache.cfg` | 38 000 | `WellFormed` with `CursorsInOrder`, `NativePositionIsTrue`, `CacheAgrees`, `IsStoredFile`, `CallsReturn` |
| `async_file` | `AsyncFile`, `AsyncFile.cfg` | 654 000 | `WellPlaced` with `ThreadHasItsPlace`, `IsStoredFile`, `CloseReturns` |
| `async_release` | `MCAsyncRelease.cfg` | violation | `GivesFile` |
| `heap` | `PriorityQueue`, `PriorityQueue.cfg` | 555 000 | `HoldsContents`, `SmallQueueKeepsOrder` |
| `heap_remove` | `MCHeapRemove.cfg` | violation | `TopIsGreatest` |
| `scheduler` | `MCScheduler`, `Scheduler.cfg` | 586 000 | `SemaphoreCountsReady`, `NoRequestLost`, `CallbackWhenReady`, `TimersOnTime`, `StopEnds`, `ReadyRuns` |
| `stop_overtaken` | `MCStopOvertaken.cfg` | violation | `StopAlwaysEnds` |

The passing runs also check the module's type invariant, by itself or as a part of the first property.

### Bounds

* `music`: two local songs and one of the server, so that a list wraps, a song is not in
  the list, and indices 0 and 1 differ; two players, the current one and one dropped, enough up to the
  first disturbance because every other player is quiet then (that is `Discipline`); two
  events waiting per player (a prepared and the end of the track; a third needs a disturbance).
  `NearlyUndisturbed` cuts the search a little behind the first disturbance, where late events of dropped players are
  ignored. `NoCrashWhileRunning` is proved beyond that, for every behaviour.
* `following`: one local and one server song, one friend whose state changes without limit,
  two poll threads, so that an old one is asleep as a new one starts, two players; the lyric screen stays closed (`LyricClosed`) since `music` covers it, and the
  search ends at the first disturbance (`Undisturbed`). Files, players and requests may fail. `following_after_failure`: the same with one poll thread, beyond
  disturbances.
* `upload`: two songs with one title and a third, three requests
  under way: a scan of the whole table, with one row's request (`OneRow`) and one answer that comes after its screen is gone (`OneLeft`).
* `chat`: two users (symmetric), three messages in all, two broadcasts under way: enough for the two
  threads to meet on one row twice.
* `file_cache`: a file of up to four bytes and a cache of two, elements of one and two: reads and writes
  before, across, behind and at the end of the cache, and an element wider than what is left in it. All four modes; native reads, writes, flushes and
  the allocation may fail. Seeks and the size query do not, and `ReadAhead` is FALSE: each breaks an invariant (section 5).
* `async_file`: a file of four bytes, four buffers of two (the code's count), a thread that reads one byte at a
  time, so that a buffer is filled in two turns, elements of two bytes that straddle buffers, seeks to 0 and 3 as often as one likes; the second handle, the thread and a seek
  may fail. The search ends at the first failed assertion. `async_release` needs a file of eight bytes and no fault.
* `heap`, `heap_remove`: seven elements of nine keys: three levels, and the first size (six) at which a removal from the middle goes wrong.
* `scheduler`: an active object, two timers and the stopper, all of one priority (an `OsclAsyncFile` has the stopper's), two other threads that command (two commands
  between them, so that one may suspend while the other stops), delays of no and of one tick, which take two microseconds (`TickPeriod`), on a count of six values, a
  timer seen to up to one tick late, one call per `Run`; the requests of the active object are completed by
  another thread or its own. `Apart` keeps the second timer to the time before the first command and not beside the active object, since all of
  them at once add states and no new meeting of two. The counts bound the calls between two steps of the loop, not the length of a behaviour.
  `stop_overtaken`: the same without a failing `Run` and without lateness.

The cfgs with `CHECK_DEADLOCK FALSE` are those in which the system may stop: a failed assertion (`async_file`), a request that
would write past the bound on the file (`file_cache`), commands used up (`scheduler`).

### Fairness

`MusicService`: weak fairness of the looper's messages, of its handling of players' events, of preparing and of a track's end: the looper
goes on delivering what is posted, whichever is first, a `MediaPlayer` finishes preparing and a track has an end. None for the user,
the network or failures. `HandsOff`, the premise of `PlaysOn`, says that from some time on nobody
touches the app and files open; tracks may break off. `Following` adds: threads run, a request is
answered or fails (volley times out), news that arrived is handled or lost, and *strong* fairness of a
player's preparing: what disables it in the model is only the bound on waiting events. `UploadQueue`: an
outcome that was posted is handled by the looper, no more. Nothing makes an upload end, for only its connection has a timeout; `QueueDrains` excepts a failure that stalled
the queue, an upload that is on the network for ever, and the death of the process. `FileCache`: a loop
that is in a call goes on; nothing makes the caller call. `AsyncFile`: the reading thread goes on, and so does who is told that it exited. `Scheduler`: the loop's
thread goes on, a thread that has a request completes it, a thread within a command goes on with it; nothing starts the loop, and the clock
need not tick but where the loop waits for it.

### What the violation runs show

* `following_after_failure` (`Order.java:24`: the followed friend's song is played): one failure to open the friend's song, and every later poll calls
  `start()` on the failed player and never prepares it again.
* `heap_remove` (`oscl_priqueue.h:42`, `oscl_scheduler_readyq.cpp:164`: the top is the item of highest priority): `remove` gives `pop_heap` the range behind
  the removed element, whose children are then others than in the heap; with six elements the order is lost.
* `stop_overtaken` (`oscl_scheduler.cpp:821`: any thread can stop the blocking scheduler; `:846`: any thread can suspend it): a thread in `StopScheduler` has seen that nothing is suspended
  and signals no resume (`:835`); another thread's suspension takes effect; the stop is then accepted while the loop waits for `iResumeSem` (`:1306`). `StopEnds` of the
  passing run states what remains: without a suspension during a stop, and without an error that ends the loop just then, it ends.
* `async_release` (`oscl_file_async_read.cpp:400, 761, 948, 1000`, four comments and assertions about what always holds): every buffer that is not linked could
  be; the last option that was to be remembered is forgotten (`:762` assigns the wrong variable), so no buffer is found after the positions were
  swapped. A debug build ends there with an assertion; a release build goes on, and the thread fills a buffer with bytes of another place.

More behaviours of the code that the models contain, and the invariants are stated to hold
with them: a message received and a message sent may both find no row for their chat and
both add one, after which every update goes to both rows; and a title stays in `songtags`
when its upload failed, or when it is the title of another singer's song, so that no task is made
for it until the process restarts, although the log says that one exists. The unread count is read and written back in two statements, so
a chat opened in between gets its count back (`CountsFromTheTable` states otherwise and no run checks it). The read-ahead of `AsyncFile` may stop for want of
a buffer until the caller reads again. `Close` and `Open` of the cache drop the result of the flush.

## 4. What is proved

All constants arbitrary (any list of songs, any number of players, friends and poll threads), from the assumptions
`NoneIsNoSong`, `ServiceAssumption`, `FollowingAssumption`, `UploadAssumption`, `InboxAssumption` and `NoneIsNoRecord`; for
the library any sizes of file, cache and elements, any keys, any
room, any objects, threads, delays and tick width, from `SizesAssumption`, `BytesAssumption`, `AsyncAssumption`, `KeyAssumption`, `SizeAssumption`, `ObjectAssumption`, `TimeAssumption` and
`PriorityAssumption`.

* `TypeCorrect`: `Spec => []TypeOK`. The content is in the list positions: `LocalList`
  shows that the wrapped next index stays a position, and `mSongs` is null, empty or
  the whole list, so no method indexes outside.
* `PlayersDisciplined`: `Spec => []Discipline`, the inductive invariant. `OneVoice` is not inductive:
  a second player could prepare, or post an event that starts or replaces another. `Discipline`
  adds that, undisturbed, every player but `mMediaPlayer` is *quiet* (neither sounding, nor
  preparing, nor with an event under way), that `mMediaPlayer` holds `mCurrentSong` or nothing, and
  that the event that ends a track is the last its player posts (so the handler of a completion or error finds every player
  quiet and may drop it). The proof has one lemma per method, on records `s` with
  `s \in Service` and `Disciplined(s)`, then one per group of actions.
  `prepareToPlay` drops the old player without stopping it, so its lemma needs the stronger
  `AllQuiet`, which `StopPlayBack` and the taking of the last event establish, or `Abandon` records.
* `OnlyOneVoice`: `Spec => []OneVoice`, from the two above.
* `SoundAlwaysShown`: `Spec => []SoundIsShown`. Two invariants make it. `ReportedInv` says that, undisturbed, whatever sounds is *known*: there is a song,
  the state is playing, and the preferences name that song. The hard cases are those in which the state changes before the sound does:
  `onPrepared` sets its state before it calls `start`, and `setDataSource` may throw and leave the old state. They go through because, by `Discipline`, the handler that runs then finds
  all players quiet, or because `start` notifies whenever there is a song. `Announced` says that, as long as
  `mMediaPlayer` has been given a song, the one last broadcast to the screens is `mCurrentSong`: `prepareToPlay` broadcasts it after it has prepared the player, and not when `setDataSource` throws, which leaves a player
  that will never sound. One lemma per method for each, as for `Discipline`.
* `SoundIsNotCut`: `Spec => SoundingNotCut`, an action property: `Uncut` relates the records before and after each method, and the handlers of a completion
  or an error reset a player only where `Discipline` has found all of them quiet. `StartingQuiet` is the invariant it adds: before the first intent is handled there is no message, no
  request and no player in use. It rests on a conjunct of `ServiceAssumption`: `None` is not an index, so that a pending `SWITCH_NEXT` can be told from none.
* `KilledStaysSilent`: `Spec => SilentAfterKill`, an action property that every step has by itself.
* `FollowTypeCorrect`: `FollowSpec => []FollowTypeOK`.
* `FollowingImplementsMusicService`: `FollowSpec => Spec`. Both share the service's variables, so the refinement mapping is the identity:
  each step of the composition is a step of `MusicService` or leaves its variables unchanged. It needs
  `FollowTypeOK`: the song of a piece of news is one of the server's.
* `OneVoiceTogether`: `FollowSpec => []OneVoice`, by the refinement.

* `NeverCrashesWhileRunning`: `Spec => []NoCrashWhileRunning`, disturbances included. The methods use
  `mMediaPlayer` without a test wherever a song, a state of playing or an event seems to imply one; the
  inductive invariant `ServiceableInv` says that it does: while the service runs, no player
  means no current song, nothing playing or paused, and no player with listeners whose event could
  be handled. A service that is still starting may already have met an exception (headset, lyric screen),
  and then nothing but the restart follows.
* `FollowedIsAlwaysPolled`: `FollowSpec => []FollowedIsPolled`. `PolledInv` adds that the task is not told to run
  before the service is there; without it, the service's first start would find `isruntask`
  set and no thread. An old thread that wakes after a stop and a new start goes on with its old
  friend, and the thread for the new friend is another one.
* `UserChoiceAlwaysStands`: `FollowSpec => UserChoiceStands`. An order for a friend who is not followed is dropped before it reaches the player, and with no
  answer to come, each method keeps the song, forgets it, or takes one of the list (`StepChosen`, on records, one method at a time).
* `UploadTypeCorrect`: `Spec => []TypeOK` of `UploadQueue`.
* `QueueUploadsOne`: `Spec => []OneAtATime`. `AtMostOne` adds that `isRunning` is set while something is on
  the network or its outcome unhandled, which is what `onStart` tests.
* `TitlesQueuedOnce`: `Spec => []OneTaskPerTitle`. `TasksDistinct` adds that `songtags` has the title of
  everything waiting or started, which is what `addUploadThread` tests. It needs
  `AtMostOne`: the head of the queue becomes what is started only when nothing was.
* `MarkedSongsAreThere`: `Spec => []MarkedIsThere`. `MarkedOrKnown` carries the reason through the messages:
  an answer "exists" or a successful outcome on its way is about a song the server has.
* `ChatsInReach`, `DotsSettle`, `OpenChatComplete`: `Spec =>` `[]TablesInOrder`, `[]BadgeSettles` and `[]ScreenComplete` of
  `ChatInbox`. `InboxRight` is the types with what each thread remembers from one statement to the next (its message, its user, whether the screen is there)
  and a bound on the unread counts, which a lost increment or a doubled row cannot exceed. None of the three properties is inductive, since each
  speaks of a moment at which nothing is under way. `InReach` says of every moment: a row that was found or added is still there; and whoever
  changed a row, a list or a count has yet to send the broadcast whose receivers read the table anew. `ShownOrComing` says that a
  message the open chat does not show is in a live broadcast or with the listener's thread just before it sends one, which
  is why the screen may register first and read the table afterwards, but not the other way round.

* `CacheStaysRight`: `Positioned => (Spec => []FileInv)` of `FileCache`, the inductive invariant, and from it `CursorsStayInOrder`, `NativePositionStaysTrue`,
  `CacheStaysAgreed` for the three invariants of the run and `CacheIsStoredFile`: `Positioned => (Spec => IsStoredFile)`, the refinement. The premise `Positioned` is that of the
  run: seeks and the size query do not fail, and the C library positions a write that follows a read. The theorems therefore say nothing of the case in which the
  seek that the cache leaves out is the one C requires: there the position that is remembered would be true and the write could still go elsewhere. `NativePositionStaysTrue` says that the remembered position is the
  true one, not that every seek left out was superfluous. Native reads, writes, flushes and
  the allocation may fail, at any byte. `FileInv` has three parts that the runs' invariants lack and that make them inductive: the
  range to be written has room in the file; in append mode it begins where the native file ends, so that a write, which goes to the end, puts it where
  it belongs; and what `Write` has still to put has room, and in append mode goes to the end. Each helper of the cache has
  a lemma for the two ways it may go: `Moved` (or `Filled`, `Flushed`), in which the native file becomes what the caller saw, or `Lost`, in which
  each byte is what the caller saw or what was stored. `IsStoredFile` needs both halves: that each step is one of `StoredFile`, and which one (`ActsAsCalled`). `BytesCopied` is the one on the merging of the written range with the one already there: the
  bytes between the two are unchanged ones, so they are those of the file (`CacheAgrees`) and may be written again.
* `AsyncStaysRight`: `DebugBuild => (Spec => []AsyncInv)` of `AsyncFile`, and from it `ThreadStaysWellPlaced` for `WellPlaced` and `AsyncIsStoredFile`:
  `DebugBuild => (Spec => IsStoredFile)`. The premise `DebugBuild` is a build in which a failed assertion ends the process (the run `async_release` shows that the
  other one breaks the property) and no failure of the caller's own native reads (after one, `iDataBufferInUse` may be read unset);
  the thread's reads, seeks, the second handle and the creation of the thread may fail. `AsyncInv` has the parts that make it inductive: each buffer holds the bytes
  of the file from its offset on, as far as it is counted (`BuffersRight`); those that the thread has brought and `Run` has not counted yet lie right behind
  (`Filled`, with `Brought`, which becomes 0 as `Run` counts them); the read given to the thread has room in its buffer, at the end of what the buffer has (`Room`); and
  the thread is at a point of its loop that agrees with the semaphores and the request (`Serves`). The ranges of two buffers may overlap, since a read of the caller's own may begin within another
  buffer's range; it is `Continued`, by looking at the offset, that joins only what fits. The queue of linked buffers is walked by a recursive
  function, for which `Iterated` shows, by a least counterexample and without induction over an operator, that iterating a function is well defined.
* `HeapTypeCorrect`, `ContentsHeld`: `Spec => []TypeOK` and `Spec => []HoldsContents` of `PriorityQueue`. No index leaves the vector, and the
  elements are always the contents with each key once; the invariant holds between the swaps too, since a swap is a permutation.
* `SmallQueueOrdered`: `Spec => []SmallQueueKeepsOrder`, for a queue of any size. The inductive invariant says, within a loop, that the order holds everywhere but
  at the element on its way, whose parent is above its children; and that a removal from the middle of at most five
  meets only leaves, so that both loops it runs end at once where they should.
* `SchedulerTypeCorrect`, `SemaphoreCounts`, `RequestsKept`, `CallbackTold`: types, `SemaphoreCountsReady`, `NoRequestLost` and `CallbackWhenReady` of `Scheduler`. The inductive invariant
  is `ObjectsRight` (which queue, which status, who has the request, the count of the semaphore, finite queues) with the types of time, thread and flags and `Settled`:
  what the loop's thread remembers of a moment ago (the object it runs, the timer it waits for, the object whose cancelling it
  waits for) is still true, whatever other threads did since. Without `Settled` a step such as `PopTopAfterWait` could not know that what it waited for is still queued.
* `TimersAlwaysOnTime`: `FewObjects => (Spec => TimersOnTime)`, an action property. `Timely` is added to the invariant: the remainder that the tick count is ties each timer's
  `due` to what is `left`, which is less than half of the count either way (`TimersTimed`; a delay becomes ticks without overflow by `TicksOf`, as `TimeAssumption` asks that twice the delay does not), on which `TimesApart` and `TickNearer` do the arithmetic of the
  rolled-over count; what was found due, or not yet due, at the tick `UpdateTimers` read stays so as ticks pass (`TimeTaken`); and the timer the loop waits for is the first,
  and waited for until it is due at least (`FirstWaitedFor`). The premise is at most five objects: the top of a larger heap need not be the first timer (`heap_remove`).

Every invariant and every action property of the runs is stated by a theorem. Model-checked only, because out of the prover's
reach: the liveness properties (`PlaysOn`, `PollingEnds`, `CatchesUpUnlessFailed`, `QueueDrains`, `CallsReturn`, `CloseReturns`, `StopEnds`, `ReadyRuns`), which rest on
fairness and `ENABLED`; induction over data; recursive operators.

## 5. Not modelled, and the plan

* **Premises of `file_cache`.** Seeks and the size query do not fail and the C library positions a write that follows a read. With `"seek"` among the
  `Faults`, `CursorsInOrder` fails after a close and an open of one object (the range to be written survives, `oscl_file_cache.cpp:96`); with `ReadAhead`,
  `NativePositionIsTrue`, `CacheAgrees` and `IsStoredFile` fail. `ReadsWholeElements` is stated and not checked: an element that straddles the
  end of the cache and of the file is read short (`oscl_file_cache.cpp:156`), while `oscl_file_io.h:275-279` promises the elements read.
* **The rest of the app**, next in this order: `Friends` (verify messages, the friend table, check-then-add of two answers, refill after login;
  `MailListFragment`, `FriendDao`, `LoginActivity`); `Session` (login, logout, the other device; a network error read as "not
  logged in elsewhere", `HomeMainActivity:423`); `Lyrics` (LRC parsing and the choice of the line against a reference definition; the last partly filled
  buffer of `FileUtil.write2SDFromInput`); `MediaScan` (check-then-insert of two scans); `Registration` (two countdowns on one button); the
  second player of `SupportMusicService`, composed with `MusicService`.
* **Native parsers** (`pvmi`, ID3, MP3) read a buffer in one pass, without state that outlives the call or an actor beside them; `iconv` is tables, `oscl_snprintf`
  and `oscl_mem_audit` formatting and bookkeeping. They are most of the lines below `jni/` and are left aside, as are the vendored players, image widgets and screens without a
  state of their own.
* **Theorems**, next: what `AsyncFile` promises when a native read of the caller's fails, from a model that goes on where it now ends ("wild");
  the premise `Positioned` of the cache weakened to seeks that may fail where no data is waiting to be written; and the composition of `PriorityQueue` with the two queues of `Scheduler`,
  which would turn the premise of five objects into one about removals.
