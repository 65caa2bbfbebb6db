---------------------------- MODULE MusicService ----------------------------
(* service/MusicService.java: the background player, with the screens that     *)
(* drive it (HomeMainActivity, HomeListViewAdapter, MusicLyricActivity), the   *)
(* orders of a followed user (Order.java) and the players it creates.          *)
(*                                                                             *)
(* Every method runs on the main looper, so a handler is one atomic step; what *)
(* interleaves is the order of handlers, the answers of the server, the        *)
(* 500 ms SWITCH_NEXT message and the players' own threads.  The methods are   *)
(* operators on the record of the service (they call one another), the actions *)
(* are the handlers.                                                           *)
(*                                                                             *)
(* Left out: the report of the song to the server (notificationServerPerson-   *)
(* State only puts a request in Volley's queue, and a failure is logged), and  *)
(* ConnectionChangeReceiver, which only repeats that report.                   *)
EXTENDS MediaPlayer, FiniteSets

CONSTANTS LocalSongs,   \* the songinfo table, in order: the list the user sees
          ServerSongs,  \* songs a friend may be listening to
          Players,      \* identities for MediaPlayer objects (bound)
          MaxEvents     \* events one player has waiting on the looper (bound)

ASSUME ServiceAssumption ==
    /\ LocalSongs \in Seq(Songs) /\ LocalSongs # <<>>
    /\ ServerSongs \subseteq Songs
    /\ None \notin Players /\ None \notin 0 .. Len(LocalSongs) - 1
    /\ MaxEvents \in Nat \ {0}

VARIABLES music,     \* the MusicService object, its players and its message
          phase,     \* life of the service
          intents,   \* startService() calls not yet delivered
          requests,  \* songs asked of the server, answer not yet handled
          shown,     \* rows of the local-music screen; it may BE mSongs (aliased)
          aliased,
          lyric      \* the lyric screen exists, its handler ticks

vars == <<music, phase, intents, requests, shown, aliased, lyric>>
------------------------------------------------------------------------------
Positions  == 0 .. Len(LocalSongs) - 1
Lists      == {None, <<>>, LocalSongs}      \* null, cleared, loaded
PlayStates == {"none", "prepareing", "prepared", "playing", "pause", "completed"}
Modes      == {"ListLoop", "SingleLoop"}
Phases     == {"starting", "running", "killed", "destroyed"}

(* What the preferences hold: the song at quitting and its index.              *)
QuitInfo == [song : Songs \cup {None}, index : Positions]

(* The fields of the object.  disturbed is a history flag, see Control.        *)
Service == [mMediaPlayer   : Players \cup {None},
            mp             : [Players -> Player],
            mSongs         : Lists,
            mCurrentIndex  : Positions,
            mCurrentSong   : Songs \cup {None},
            currentState   : PlayStates,
            playMode       : Modes,
            switchNext     : Positions \cup {None},
            quit           : QuitInfo,
            bar            : Songs \cup {None},
            npe            : BOOLEAN,
            disturbed      : BOOLEAN]

Fresh(quit) == [mMediaPlayer |-> None, mp |-> [p \in Players |-> NewPlayer(FALSE)],
                mSongs |-> None, mCurrentIndex |-> 0, mCurrentSong |-> None,
                currentState |-> "none", playMode |-> "ListLoop",
                switchNext |-> None, quit |-> quit,
                bar |-> None,
                npe |-> FALSE, disturbed |-> FALSE]

Current(s) == s.mp[s.mMediaPlayer]

(* Identities a new MediaPlayer may take: no player of that name is left that  *)
(* could still be heard.                                                       *)
Free(s) == {p \in Players : p # s.mMediaPlayer /\ Quiet(s.mp[p])}
------------------------------------------------------------------------------
(* Calls on mMediaPlayer.  A call the player forbids faults it and is recorded *)
(* in disturbed; so is a start() that revives a track whose end is already     *)
(* posted, and a message or intent that abandons a player in use.              *)
Fault(s) == [s EXCEPT !.mp[s.mMediaPlayer] = Post(@, "error", "error"),
                      !.disturbed = TRUE]

Abandon(s) == [s EXCEPT !.disturbed = @ \/ (/\ s.mMediaPlayer # None
                                            /\ ~Quiet(Current(s)))]

PlayerStart(s) ==
    IF Current(s).st \in Startable
    THEN [s EXCEPT !.mp[s.mMediaPlayer].st = "started",
                   !.disturbed = @ \/ (/\ Current(s).st = "complete"
                                       /\ Current(s).events # <<>>)]
    ELSE Fault(s)

PlayerPause(s) ==
    IF Current(s).st \in Pausable
    THEN [s EXCEPT !.mp[s.mMediaPlayer].st = IF @ = "started" THEN "paused" ELSE @]
    ELSE Fault(s)
------------------------------------------------------------------------------
(* The methods of MusicService. notifyState broadcasts its state to the play   *)
(* buttons as it sets it, and the song (bar, what the screens show) when it is *)
(* prepareing; playing keeps the song in the preferences. The report to the    *)
(* server of playing and pause, which is only put in a queue, is left out.     *)
NotifyPlaying(s) ==
    [s EXCEPT !.currentState = "playing",
              !.quit = [song |-> s.mCurrentSong, index |-> s.mCurrentIndex]]

NotifyPause(s) == [s EXCEPT !.currentState = "pause"]

StartSilently(s) ==                          \* mutant: nobody is notified
    IF s.mCurrentSong = None \/ s.mMediaPlayer = None THEN s
    ELSE [PlayerStart(s) EXCEPT !.currentState = "playing"]

Start(s) ==
    IF s.mCurrentSong = None THEN s
    ELSE IF s.mMediaPlayer = None THEN [s EXCEPT !.npe = TRUE]
    ELSE NotifyPlaying(PlayerStart(s))

PauseByReset(s) ==                           \* mutant: stop() instead of pause()
    IF s.mMediaPlayer = None THEN s
    ELSE NotifyPause([s EXCEPT !.mp[s.mMediaPlayer] = Reset(@)])

Pause(s) ==
    IF s.mMediaPlayer = None THEN s ELSE NotifyPause(PlayerPause(s))

SeekTo(s) ==
    IF s.mMediaPlayer = None \/ Current(s).st \in Startable THEN s ELSE Fault(s)

StopOnly(s) ==                               \* mutant: stop() without reset()
    IF s.mMediaPlayer = None THEN s
    ELSE [s EXCEPT !.mp[s.mMediaPlayer].st = "idle"]

NoStop(s) == s                               \* mutant: the player goes on

(* stop() and reset(): currentState is left as it was.                         *)
StopPlayBack(s) ==
    IF s.mMediaPlayer = None THEN s
    ELSE [s EXCEPT !.mp[s.mMediaPlayer] = Reset(@)]

(* Always a new player p; the old one is dropped, not released, and collected  *)
(* once quiet.  setDataSource may throw (~ok): nothing is prepared or notified.*)
PrepareToPlay(s, p, ok) ==
    [s EXCEPT
        !.mMediaPlayer = p,
        !.mp = [q \in Players |->
                  CASE q = p /\ ok      -> Preparing(s.mCurrentSong)
                    [] q = p /\ ~ok     -> NewPlayer(TRUE)
                    [] q # p /\ Quiet(s.mp[q])  -> NewPlayer(FALSE)
                    [] q # p /\ ~Quiet(s.mp[q]) -> s.mp[q]],
        !.currentState = IF ok THEN "prepareing" ELSE @,
        !.bar          = IF ok THEN s.mCurrentSong ELSE @]

PlayCurrentIndexSong(s, pos, p, ok) ==
    IF s.mSongs \in {None, <<>>} THEN s          \* toast: the list is empty
    ELSE PrepareToPlay([s EXCEPT !.mCurrentIndex = pos,
                                 !.mCurrentSong = s.mSongs[pos + 1]], p, ok)

SkipLast(s, p, ok) ==                        \* mutant: wraps one too early
    LET next == IF s.mCurrentIndex + 1 >= Len(s.mSongs) - 1 THEN 0
                ELSE s.mCurrentIndex + 1
    IN  PlayCurrentIndexSong(StopPlayBack([s EXCEPT !.mCurrentIndex = next]),
                             next, p, ok)

PlayNextSong(s, p, ok) ==
    LET next == IF s.mCurrentIndex + 1 >= Len(s.mSongs) THEN 0
                ELSE s.mCurrentIndex + 1
    IN  PlayCurrentIndexSong(StopPlayBack([s EXCEPT !.mCurrentIndex = next]),
                             next, p, ok)

(* notifyState(completed)                                                      *)
Completed(s, p, ok) ==
    LET c == [s EXCEPT !.currentState = "completed"] IN
    IF c.playMode = "SingleLoop"
    THEN PlayCurrentIndexSong(c, c.mCurrentIndex, p, ok)
    ELSE IF c.mSongs \in {None, <<>>} THEN c ELSE PlayNextSong(c, p, ok)

PlaySong(s, song, p, ok) ==
    PrepareToPlay([StopPlayBack(s) EXCEPT
                     !.mSongs = IF @ = None THEN None ELSE <<>>,
                     !.mCurrentSong = song], p, ok)

SwitchOneBased(s, pos) ==                    \* mutant: counts rows from one
    [StopPlayBack(s) EXCEPT !.switchNext = pos + 1]

SwitchNextSong(s, pos) == [StopPlayBack(s) EXCEPT !.switchNext = pos]

(* The listener is shared and starts mMediaPlayer, whichever player prepared.  *)
(* behind: the support service has a position to catch up with.                *)
OnPrepared(s, behind) ==
    LET prepared == [s EXCEPT !.currentState = "prepared"]
    IN  Start(IF behind THEN SeekTo(prepared) ELSE prepared)

ReleaseOnly(s, p) ==                         \* mutant: no player put in its place
    IF s.mMediaPlayer = None THEN [s EXCEPT !.npe = TRUE]
    ELSE [s EXCEPT !.mp[s.mMediaPlayer] = Released, !.mMediaPlayer = None]

(* onError(MEDIA_ERROR_UNKNOWN): release mMediaPlayer, put a deaf one there.   *)
OnErrorUnknown(s, p) ==
    IF s.mMediaPlayer = None THEN [s EXCEPT !.npe = TRUE]
    ELSE [s EXCEPT !.mp[s.mMediaPlayer] = Released, !.mp[p] = NewPlayer(FALSE),
                   !.mMediaPlayer = p]

KillMyself(s) ==
    IF s.mMediaPlayer = None THEN s
    ELSE [s EXCEPT !.mp[s.mMediaPlayer] = Released, !.mMediaPlayer = None]

IsPlaying(s)    == s.currentState = "playing"
IsPlayInback(s) == s.currentState \in {"playing", "pause"}

(* getCurrentPlayPosition(); getDuration()                                     *)
ReadProgress(s) ==
    CASE ~IsPlayInback(s)        -> s
      [] IsPlayInback(s) /\ s.mMediaPlayer = None -> [s EXCEPT !.npe = TRUE]
      [] OTHER -> IF Current(s).st \in Timed THEN s ELSE Fault(s)

SwitchNextPlayMode(s) ==
    [s EXCEPT !.playMode = IF @ = "ListLoop" THEN "SingleLoop" ELSE "ListLoop"]
------------------------------------------------------------------------------
HomeIntent == [list |-> None, pos |-> 0]     \* no extras: read as null and 0
Intents    == {HomeIntent} \cup [list : {LocalSongs}, pos : Positions]
MaxIntents == 2                              \* bound on undelivered starts

(* The home screen has just been created; what the preferences hold is left    *)
(* from an earlier run.                                                        *)
InitWith(quit) ==
    /\ music = Fresh(quit)
    /\ phase = "starting"
    /\ intents = <<HomeIntent>>
    /\ requests = {}
    /\ shown = LocalSongs
    /\ aliased = FALSE
    /\ lyric = FALSE

Init == \E i \in Positions : InitWith([song |-> LocalSongs[i + 1], index |-> i])

Alive   == ~music.npe                        \* an exception ends the process
Running == Alive /\ phase = "running"        \* getMusicService() finds it

Bounded(s) == \A p \in Players : Len(s.mp[p].events) <= MaxEvents

Only(m) == /\ Bounded(m)
           /\ music' = m
           /\ UNCHANGED <<phase, intents, requests, shown, aliased, lyric>>

(* onCreate with the first intent, onStartCommand and initAuidoData.           *)
StartCommand ==
    /\ Alive /\ phase \in {"starting", "running"} /\ intents # <<>>
    /\ \E p \in Free(music), ok \in BOOLEAN :
         LET i == Head(intents) IN
         music' = PlayCurrentIndexSong(
                    [Abandon(music) EXCEPT !.mSongs = i.list,
                                           !.mCurrentIndex = i.pos],
                    i.pos, p, ok)
    /\ phase' = "running"
    /\ intents' = Tail(intents)
    /\ aliased' = FALSE
    /\ UNCHANGED <<requests, shown, lyric>>

(* A row of the local-music screen: HomeListViewAdapter's onClick.             *)
ClickSong(pos) ==
    /\ Alive /\ shown # <<>>
    /\ \/ /\ phase = "starting" /\ Len(intents) < MaxIntents
          /\ intents' = Append(intents, [list |-> LocalSongs, pos |-> pos])
          /\ UNCHANGED <<music, aliased>>
       \/ /\ phase = "running" /\ music.mCurrentIndex # pos
          /\ music' = SwitchNextSong([music EXCEPT !.mSongs = LocalSongs], pos)
          /\ aliased' = TRUE
          /\ UNCHANGED intents
    /\ UNCHANGED <<phase, requests, shown, lyric>>

(* The screen is built again and reads the table anew.                         *)
ReloadList ==
    /\ Alive /\ phase \in {"starting", "running"}
    /\ shown' = LocalSongs
    /\ aliased' = FALSE
    /\ UNCHANGED <<music, phase, intents, requests, lyric>>

(* The play button of the home screen.                                         *)
ClickPlayPause ==
    /\ Running
    /\ \/ IsPlayInback(music)
          /\ Only(IF IsPlaying(music) THEN Pause(music) ELSE Start(music))
       \/ /\ ~IsPlayInback(music)
          /\ music' = SwitchNextSong([music EXCEPT !.mSongs = LocalSongs],
                                     music.quit.index)
          /\ aliased' = FALSE
          /\ UNCHANGED <<phase, intents, requests, shown, lyric>>

(* ACTION_AUDIO_BECOMING_NOISY: the receiver does not check for null.          *)
HeadsetUnplugged ==
    /\ Alive
    /\ \/ phase = "starting" /\ Only([music EXCEPT !.npe = TRUE])
       \/ phase = "running" /\ IsPlaying(music) /\ Only(Pause(music))

(* The lyric screen takes the service when it opens and keeps it.              *)
OpenLyric ==
    /\ Alive /\ ~lyric /\ phase \in {"starting", "running"}
    /\ music' = IF phase = "starting" THEN [music EXCEPT !.npe = TRUE]
                ELSE ReadProgress(music)
    /\ Bounded(music')
    /\ lyric' = TRUE
    /\ UNCHANGED <<phase, intents, requests, shown, aliased>>

CloseLyric ==
    /\ Alive /\ lyric
    /\ lyric' = FALSE
    /\ UNCHANGED <<music, phase, intents, requests, shown, aliased>>

LyricTick == Alive /\ lyric /\ Only(ReadProgress(music))
LyricPlay == /\ Alive /\ lyric
             /\ Only(IF IsPlaying(music) THEN Pause(music) ELSE Start(music))
LyricSeek == Alive /\ lyric /\ Only(SeekTo(music))
LyricMode == Alive /\ lyric /\ Only(SwitchNextPlayMode(music))

(* A followed user paused, or plays the song this service has (Order.java);    *)
(* for another song the server is asked, as the "listen together" buttons do.  *)
FollowPause == Running /\ Only(Pause(music))
FollowPlay  == Running /\ music.mCurrentSong # None /\ Only(Start(music))

AskEvenIfGone(song) ==                       \* mutant: no check that it runs
    /\ Alive /\ song \notin requests
    /\ requests' = requests \cup {song}
    /\ UNCHANGED <<music, phase, intents, shown, aliased, lyric>>

PlaySongFromServer(song) ==
    /\ Running /\ song \notin requests
    /\ requests' = requests \cup {song}
    /\ UNCHANGED <<music, phase, intents, shown, aliased, lyric>>

(* The answer comes at any time and in any order, after a kill too.            *)
ServerAnswers(song) ==
    /\ Alive /\ song \in requests
    /\ requests' = requests \ {song}
    /\ \/ \E p \in Free(StopPlayBack(music)), ok \in BOOLEAN :
            /\ music' = PlaySong(music, song, p, ok)
            /\ shown' = IF aliased THEN <<>> ELSE shown
       \/ UNCHANGED <<music, shown>>             \* no such song, or no network
    /\ UNCHANGED <<phase, intents, aliased, lyric>>

(* The 500 ms message.  Nothing stops the player found there.                  *)
SwitchFires ==
    /\ Alive /\ music.switchNext # None
    /\ \E p \in Free(music), ok \in BOOLEAN :
         Only(PlayCurrentIndexSong(
                [Abandon(music) EXCEPT !.switchNext = None],
                music.switchNext, p, ok))
------------------------------------------------------------------------------
(* What the players do on their own threads.                                   *)
PostBy(q, st, event) ==
    /\ Alive
    /\ Only([music EXCEPT !.mp[q] = [Post(@, st, event) EXCEPT !.loading = FALSE]])

PrepareDone(q)  == music.mp[q].loading /\ PostBy(q, "prepared", "prepared")
PrepareFails(q) == /\ music.mp[q].loading
                   /\ \E e \in {"error", "unknown"} : PostBy(q, "error", e)
TrackEnds(q)    == Sounding(music.mp[q]) /\ PostBy(q, "complete", "completion")
PlayFails(q)    == /\ Sounding(music.mp[q])
                   /\ \E e \in {"error", "unknown"} : PostBy(q, "error", e)

(* The looper handles the next event of player q.                              *)
Taken(q)       == [music EXCEPT !.mp[q].events = Tail(@)]
Heard(q, kind) == /\ Alive /\ music.mp[q].events # <<>>
                  /\ Head(music.mp[q].events) = kind
                  /\ music.mp[q].heard

HandlePrepared(q) ==
    /\ Heard(q, "prepared")
    /\ \E behind \in BOOLEAN : Only(OnPrepared(Taken(q), behind))

(* onCompletion; an error onError leaves unhandled ends in it too.             *)
HandleCompletion(q) ==
    /\ Heard(q, "completion") \/ Heard(q, "error")
    /\ \E p \in Free(Taken(q)), ok \in BOOLEAN : Only(Completed(Taken(q), p, ok))

(* Released, the failed player has no listener left and onCompletion is not    *)
(* called; if it was another player that was released, it is.                  *)
HandleUnknown(q) ==
    /\ Heard(q, "unknown")
    /\ \E p \in Free(Taken(q)) :
         LET s == OnErrorUnknown(Taken(q), p) IN
         IF s.mp[q].heard /\ ~s.npe
         THEN \E r \in Free(s), ok \in BOOLEAN : Only(Completed(s, r, ok))
         ELSE Only(s)

IgnoreEvent(q) ==
    /\ Alive /\ music.mp[q].events # <<>> /\ ~music.mp[q].heard
    /\ Only(Taken(q))
------------------------------------------------------------------------------
(* HomeMainActivity.onDestroy, then the service's own onDestroy.               *)
Kill ==
    /\ Running
    /\ music' = KillMyself(music)
    /\ phase' = "killed"
    /\ UNCHANGED <<intents, requests, shown, aliased, lyric>>

OnDestroy ==
    /\ Alive /\ phase = "killed"
    /\ phase' = "destroyed"
    /\ UNCHANGED <<music, intents, requests, shown, aliased, lyric>>

(* The process dies, by an exception or by the system, and the user opens the  *)
(* app again: only the preferences are left.                                   *)
Restart ==
    /\ music' = Fresh(music.quit)
    /\ phase' = "starting"
    /\ intents' = <<HomeIntent>>
    /\ requests' = {}
    /\ shown' = LocalSongs
    /\ aliased' = FALSE
    /\ lyric' = FALSE

UserStep ==
    \/ \E pos \in Positions : ClickSong(pos)
    \/ ClickPlayPause \/ HeadsetUnplugged \/ ReloadList
    \/ OpenLyric \/ CloseLyric \/ LyricPlay \/ LyricSeek \/ LyricMode

FollowStep == FollowPause \/ FollowPlay \/ \E song \in ServerSongs : PlaySongFromServer(song)

LooperStep ==
    \/ StartCommand \/ SwitchFires \/ LyricTick
    \/ \E song \in ServerSongs : ServerAnswers(song)
    \/ \E q \in Players : \/ HandlePrepared(q) \/ HandleCompletion(q)
                          \/ HandleUnknown(q)  \/ IgnoreEvent(q)

PlayerStep ==
    \E q \in Players : \/ PrepareDone(q) \/ PrepareFails(q)
                       \/ TrackEnds(q)   \/ PlayFails(q)

LifeStep == Kill \/ OnDestroy \/ Restart

Next == UserStep \/ FollowStep \/ LooperStep \/ PlayerStep \/ LifeStep

Spec == Init /\ [][Next]_vars
------------------------------------------------------------------------------
TypeOK ==
    /\ music \in Service
    /\ phase \in Phases
    /\ intents \in Seq(Intents)
    /\ requests \subseteq ServerSongs
    /\ shown \in {<<>>, LocalSongs}
    /\ aliased \in BOOLEAN
    /\ lyric \in BOOLEAN

(* The event that ends a track is the last its player posts.                   *)
EndsLast(m) ==
    \A i \in 1 .. Len(m.events) : m.events[i] # "prepared" =>
        i = Len(m.events) /\ ~m.loading /\ m.st \in {"complete", "error"}

(* mMediaPlayer holds mCurrentSong, or nothing at all.                         *)
HoldsSong(s, m) == m.src = s.mCurrentSong \/ (m.st = "idle" /\ ~m.loading)

Disciplined(s) ==
    ~s.disturbed =>
        \A q \in Players :
            /\ q # s.mMediaPlayer => Quiet(s.mp[q])
            /\ q = s.mMediaPlayer => HoldsSong(s, s.mp[q])
            /\ EndsLast(s.mp[q])

(* Why OneVoice holds, as an inductive invariant: undisturbed, every player    *)
(* but mMediaPlayer is quiet for good, so nothing it posted can replace or     *)
(* start another.                                                              *)
Discipline == Disciplined(music)

(* Left to itself the service plays one song at a time, and it is the song it  *)
(* shows: while no call reached a player that forbids it and no switch         *)
(* abandoned one in use, only mMediaPlayer sounds, and with mCurrentSong.      *)
OneVoice ==
    ~music.disturbed =>
        \A q \in Players : Sounding(music.mp[q]) =>
            q = music.mMediaPlayer /\ music.mp[q].src = music.mCurrentSong

(* What sounds is what is shown and remembered: the screens were last told of  *)
(* this song, their buttons (currentState) show that it plays, and the         *)
(* preferences keep it, whatever was prepared, failed or paused before.        *)
SoundIsShown ==
    ~music.disturbed =>
      \A q \in Players : Sounding(music.mp[q]) =>
        /\ IsPlaying(music)
        /\ music.bar = music.mCurrentSong /\ music.quit.song = music.mCurrentSong

(* No exception while the service runs: a control that needs a player finds    *)
(* one, after every sequence of errors, kills excepted.                        *)
NoCrashWhileRunning == music.npe => phase # "running"

(* No event cuts a song that sounds: left undisturbed, its player is reset     *)
(* only by the user choosing a song, the server's answer, or the end of the    *)
(* service, never by the completion or the error of some player.               *)
SoundingNotCut ==
    [][\A q \in Players :
         (Sounding(music.mp[q]) /\ music'.mp[q].st = "idle" /\ ~music'.disturbed)
         => \/ requests' # requests
            \/ phase' # phase
            \/ music'.switchNext # None]_vars

(* Something may still make a sound without anyone asking again.               *)
Outstanding ==
    \/ music.switchNext # None
    \/ requests # {}
    \/ lyric
    \/ \E q \in Players : ~Quiet(music.mp[q])

(* killMyself leaves the SWITCH_NEXT message, the answers to come, dropped     *)
(* players and an open lyric screen behind, and they do play on; but once none *)
(* is left, nothing revives the killed service.                                *)
SilentAfterKill ==
    [][~(phase \in {"starting", "running"} \/ Outstanding)
       => ~Outstanding' \/ phase' = "starting"]_vars

(* User.java: the index kept is the index of the song kept, so that the play   *)
(* button of the next run starts the song it names.                            *)
QuitIndexNamesQuitSong ==
    ~music.disturbed => LocalSongs[music.quit.index + 1] = music.quit.song
------------------------------------------------------------------------------
(* The looper goes on handling messages, whichever they are; a preparing       *)
(* player prepares, a track has an end. The user, the network and failures owe *)
(* nothing.                                                                    *)
Fairness ==
    /\ WF_vars(StartCommand \/ SwitchFires)
    /\ WF_vars(\E q \in Players : \/ HandlePrepared(q) \/ HandleCompletion(q)
                                 \/ HandleUnknown(q)  \/ IgnoreEvent(q))
    /\ WF_vars(\E q \in Players : PrepareDone(q))
    /\ WF_vars(\E q \in Players : TrackEnds(q))

FairSpec == Spec /\ Fairness

(* From some time on nobody touches the app and every file opens and loads; a  *)
(* track may still break off.                                                  *)
HandsOff ==
    <>[][/\ \/ SwitchFires \/ StartCommand
            \/ \E q \in Players : \/ HandlePrepared(q) \/ HandleCompletion(q)
                                  \/ PrepareDone(q)    \/ TrackEnds(q)
                                  \/ PlayFails(q)      \/ IgnoreEvent(q)
         /\ \/ UNCHANGED music.mMediaPlayer
            \/ music'.mMediaPlayer # None /\ Current(music').loading]_vars

Plays(song) == /\ music.mMediaPlayer # None
               /\ Sounding(Current(music)) /\ Current(music).src = song

(* Nothing sounds and nothing will, and not because a song of a list ended.    *)
AtRest ==
    /\ music.switchNext = None
    /\ \A q \in Players : Quiet(music.mp[q])
    /\ music.currentState = "completed" =>
         \/ music.mSongs \in {None, <<>>} \/ music.mMediaPlayer = None
         \/ Current(music).st = "idle"

(* The list plays on: left alone, the service comes to rest for a reason       *)
(* (paused, nothing chosen, an empty list, a failure), or repeats its song, or *)
(* plays every song of the list again and again.                               *)
PlaysOn ==
    HandsOff /\ []~music.disturbed =>
        \/ <>[](AtRest \/ music.npe)
        \/ <>[](music.playMode = "SingleLoop")
           /\ \E song \in Songs : []<>Plays(song)
        \/ \A i \in Positions : []<>Plays(LocalSongs[i + 1])
==============================================================================
