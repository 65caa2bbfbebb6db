------------------------- MODULE MusicServiceProofs -------------------------
(* Proofs about MusicService.  First the types, method by method and then step *)
(* by step; then Discipline, the inductive invariant behind OneVoice, in the   *)
(* same order.                                                                 *)
EXTENDS MusicService, SequenceTheorems, TLAPS

USE DEF PlayerStates, Events, PlayStates, Modes

(* A new, a released and a preparing player are well-formed players.          *)
LEMMA NewPlayerType ==
  /\ \A h \in BOOLEAN : NewPlayer(h) \in Player
  /\ Released \in Player
  /\ \A song \in Songs \cup {None} : Preparing(song) \in Player
<1>1. <<>> \in Seq(Events)
  OBVIOUS
<1>2. \A h \in BOOLEAN : NewPlayer(h) \in Player
  BY <1>1 DEF NewPlayer, Player
<1>3. Released \in Player
  BY <1>2 DEF Released, Player
<1>4. \A song \in Songs \cup {None} : Preparing(song) \in Player
  BY <1>1 DEF Preparing, Player
<1> QED BY <1>2, <1>3, <1>4

(* The fields of a player, and what posting, resetting, a change of state and *)
(* taking an event make of it.                                                *)
LEMMA PlayerType ==
  ASSUME NEW m \in Player, NEW st \in PlayerStates, NEW e \in Events
  PROVE  /\ m.st \in PlayerStates /\ m.loading \in BOOLEAN /\ m.heard \in BOOLEAN
         /\ m.events \in Seq(Events)
         /\ Post(m, st, e) \in Player
         /\ Reset(m) \in Player
         /\ [m EXCEPT !.st = st] \in Player
         /\ m.events # <<>> => [m EXCEPT !.events = Tail(@)] \in Player
<1>1. m.events \in Seq(Events) /\ m.heard \in BOOLEAN /\ m.st \in PlayerStates
      /\ m.loading \in BOOLEAN
  BY DEF Player
<1>2. Append(m.events, e) \in Seq(Events)
  BY <1>1
<1>3. Post(m, st, e) \in Player
  BY <1>2 DEF Post, Player
<1>4. Reset(m) \in Player
  BY <1>1, NewPlayerType DEF Reset
<1>5. [m EXCEPT !.st = st] \in Player
  BY DEF Player
<1>6. m.events # <<>> => [m EXCEPT !.events = Tail(@)] \in Player
  BY <1>1 DEF Player
<1> QED BY <1>1, <1>3, <1>4, <1>5, <1>6

(* mMediaPlayer, if any, names a well-formed player.                          *)
LEMMA CurrentType ==
  ASSUME NEW s \in Service, s.mMediaPlayer # None
  PROVE  /\ s.mMediaPlayer \in Players
         /\ s.mp \in [Players -> Player]
         /\ s.mp[s.mMediaPlayer] \in Player
BY DEF Service

(* A forbidden call leaves a well-formed service.                             *)
LEMMA FaultType ==
  ASSUME NEW s \in Service, s.mMediaPlayer # None
  PROVE  Fault(s) \in Service
<1>1. Post(s.mp[s.mMediaPlayer], "error", "error") \in Player
  BY CurrentType, PlayerType
<1> QED BY <1>1, CurrentType DEF Fault, Service

(* An index of the list keeps a service well formed.                          *)
LEMMA IndexType ==
  ASSUME NEW s \in Service, NEW i \in Positions
  PROVE  [s EXCEPT !.mCurrentIndex = i] \in Service
BY DEF Service

(* start() on mMediaPlayer leaves a well-formed service, allowed or not.      *)
LEMMA PlayerStartType ==
  ASSUME NEW s \in Service, s.mMediaPlayer # None
  PROVE  PlayerStart(s) \in Service
<1> DEFINE m == [s.mp[s.mMediaPlayer] EXCEPT !.st = "started"]
<1>1. m \in Player
  BY CurrentType, PlayerType
<1> HIDE DEF m
<1>2. \A d \in BOOLEAN :
        [s EXCEPT !.mp = [s.mp EXCEPT ![s.mMediaPlayer] = m], !.disturbed = d] \in Service
  BY <1>1, CurrentType DEF Service
<1>3. CASE Current(s).st \in Startable
  <2>1. s.disturbed \in BOOLEAN
    BY DEF Service
  <2>2. \E d \in BOOLEAN : PlayerStart(s) =
          [s EXCEPT !.mp = [s.mp EXCEPT ![s.mMediaPlayer] = m], !.disturbed = d]
    BY <1>3, <2>1 DEF PlayerStart, m, Current
  <2> QED BY <1>2, <2>2
<1>4. CASE Current(s).st \notin Startable
  BY <1>4, FaultType DEF PlayerStart
<1> QED BY <1>3, <1>4

(* pause() on mMediaPlayer leaves a well-formed service, allowed or not.      *)
LEMMA PlayerPauseType ==
  ASSUME NEW s \in Service, s.mMediaPlayer # None
  PROVE  PlayerPause(s) \in Service
<1> DEFINE m == s.mp[s.mMediaPlayer]
           st == IF m.st = "started" THEN "paused" ELSE m.st
<1>1. m \in Player /\ m.st \in PlayerStates
  BY CurrentType, PlayerType
<1>2. [m EXCEPT !.st = st] \in Player
  BY <1>1, PlayerType
<1> QED BY <1>2, CurrentType, FaultType DEF PlayerPause, Service

(* Notifying the buttons and the preferences keeps the types.                 *)
LEMMA NotifyType ==
  ASSUME NEW s \in Service
  PROVE  NotifyPlaying(s) \in Service /\ NotifyPause(s) \in Service
<1>1. [song |-> s.mCurrentSong, index |-> s.mCurrentIndex] \in QuitInfo
  BY DEF Service, QuitInfo
<1> QED BY <1>1 DEF NotifyPlaying, NotifyPause, Service

(* MusicService.start() keeps the types, the missing player included.         *)
LEMMA StartType ==
  ASSUME NEW s \in Service
  PROVE  Start(s) \in Service
<1>1. [s EXCEPT !.npe = TRUE] \in Service
  BY DEF Service
<1> QED BY <1>1, PlayerStartType, NotifyType DEF Start

(* So do pause(), seekTo(), the reading of the progress and the mode.         *)
LEMMA ControlType ==
  ASSUME NEW s \in Service
  PROVE  /\ Pause(s) \in Service
         /\ SeekTo(s) \in Service
         /\ ReadProgress(s) \in Service
         /\ SwitchNextPlayMode(s) \in Service
<1>1. [s EXCEPT !.npe = TRUE] \in Service
  BY DEF Service
<1>2. Pause(s) \in Service
  BY PlayerPauseType, NotifyType DEF Pause
<1>3. SeekTo(s) \in Service
  BY FaultType DEF SeekTo
<1>4. ReadProgress(s) \in Service
  BY <1>1, FaultType DEF ReadProgress
<1>5. SwitchNextPlayMode(s) \in Service
  BY DEF SwitchNextPlayMode, Service
<1> QED BY <1>2, <1>3, <1>4, <1>5

(* So do stopPlayBack(), switchNextSong() and killMyself().                   *)
LEMMA StopPlayBackType ==
  ASSUME NEW s \in Service
  PROVE  /\ StopPlayBack(s) \in Service
         /\ \A pos \in Positions : SwitchNextSong(s, pos) \in Service
         /\ KillMyself(s) \in Service
<1>1. s.mMediaPlayer # None => Reset(s.mp[s.mMediaPlayer]) \in Player /\ Released \in Player
  BY CurrentType, PlayerType, NewPlayerType
<1>2. StopPlayBack(s) \in Service
  BY <1>1, CurrentType DEF StopPlayBack, Service
<1>3. KillMyself(s) \in Service
  BY <1>1, CurrentType DEF KillMyself, Service
<1>4. ASSUME NEW pos \in Positions PROVE SwitchNextSong(s, pos) \in Service
  BY <1>2 DEF SwitchNextSong, Service
<1> QED BY <1>2, <1>3, <1>4

(* The next index, wrapped at the end, is a position of the local list, and   *)
(* every position holds a song.                                               *)
LEMMA LocalList ==
  /\ Len(LocalSongs) \in Nat /\ Len(LocalSongs) > 0
  /\ 0 \in Positions
  /\ \A pos \in Positions : LocalSongs[pos + 1] \in Songs
  /\ \A pos \in Positions :
       (IF pos + 1 >= Len(LocalSongs) THEN 0 ELSE pos + 1) \in Positions
BY ServiceAssumption DEF Positions

(* prepareToPlay() keeps the types, whether setDataSource throws or not.      *)
LEMMA PrepareToPlayType ==
  ASSUME NEW s \in Service, NEW p \in Players, NEW ok \in BOOLEAN
  PROVE  PrepareToPlay(s, p, ok) \in Service
<1> DEFINE mp == PrepareToPlay(s, p, ok).mp
<1>1. s.mCurrentSong \in Songs \cup {None} /\ s.mp \in [Players -> Player]
  BY DEF Service
<1>2. ASSUME NEW q \in Players
      PROVE  (CASE q = p /\ ok      -> Preparing(s.mCurrentSong)
                [] q = p /\ ~ok     -> NewPlayer(TRUE)
                [] q # p /\ Quiet(s.mp[q])  -> NewPlayer(FALSE)
                [] q # p /\ ~Quiet(s.mp[q]) -> s.mp[q]) \in Player
  BY <1>1, NewPlayerType
<1> QED BY <1>2 DEF PrepareToPlay, Service

(* playCurrentIndexSong() reads inside the list: mSongs is null, cleared, or  *)
(* the whole local list.                                                      *)
LEMMA PlayCurrentIndexSongType ==
  ASSUME NEW s \in Service, NEW pos \in Positions, NEW p \in Players, NEW ok \in BOOLEAN
  PROVE  PlayCurrentIndexSong(s, pos, p, ok) \in Service
<1> DEFINE t == [s EXCEPT !.mCurrentIndex = pos, !.mCurrentSong = s.mSongs[pos + 1]]
<1>1. CASE s.mSongs \in {None, <<>>}
  BY <1>1 DEF PlayCurrentIndexSong
<1>2. CASE s.mSongs \notin {None, <<>>}
  <2>1. s.mSongs = LocalSongs
    BY <1>2 DEF Service, Lists
  <2>2. t \in Service
    BY <2>1, LocalList DEF Service
  <2> QED BY <1>2, <2>2, PrepareToPlayType DEF PlayCurrentIndexSong
<1> QED BY <1>1, <1>2

(* The end of a track keeps the types: the next index wraps inside the list.  *)
LEMMA CompletedType ==
  ASSUME NEW s \in Service, NEW p \in Players, NEW ok \in BOOLEAN
  PROVE  Completed(s, p, ok) \in Service
<1> DEFINE c == [s EXCEPT !.currentState = "completed"]
<1>1. c \in Service /\ c.mCurrentIndex \in Positions
  BY DEF Service
<1>2. ASSUME c.mSongs \notin {None, <<>>} PROVE PlayNextSong(c, p, ok) \in Service
  <2> DEFINE next == IF c.mCurrentIndex + 1 >= Len(c.mSongs) THEN 0
                     ELSE c.mCurrentIndex + 1
  <2>1. next \in Positions
    BY <1>1, <1>2, LocalList DEF Service, Lists
  <2>2. [c EXCEPT !.mCurrentIndex = next] \in Service
    BY <1>1, <2>1, IndexType
  <2> QED BY <2>1, <2>2, StopPlayBackType, PlayCurrentIndexSongType DEF PlayNextSong
<1> QED BY <1>1, <1>2, PlayCurrentIndexSongType DEF Completed

(* A song of its own, with the list null or cleared.                          *)
LEMMA SongChosen ==
  ASSUME NEW r \in Service, NEW song \in Songs
  PROVE  LET t == [r EXCEPT !.mSongs = IF @ = None THEN None ELSE <<>>, !.mCurrentSong = song]
         IN  t \in Service /\ t.mp = r.mp /\ t.npe = r.npe /\ t.disturbed = r.disturbed
<1> DEFINE list == IF r.mSongs = None THEN None ELSE <<>>
           u == [r EXCEPT !.mSongs = list, !.mCurrentSong = song]
<1>1. list \in Lists
  BY DEF Lists
<1> HIDE DEF list
<1>2. u.mp = r.mp /\ u.npe = r.npe /\ u.disturbed = r.disturbed
  BY DEF Service
<1>3. u \in Service
  BY ONLY <1>1, r \in Service, song \in Songs DEF Service
<1> HIDE DEF u
<1>4. u = [r EXCEPT !.mSongs = IF @ = None THEN None ELSE <<>>, !.mCurrentSong = song]
  BY DEF u, list
<1> QED BY <1>2, <1>3, <1>4

(* playSong() keeps the types, with the list null or cleared.                 *)
LEMMA PlaySongType ==
  ASSUME NEW s \in Service, NEW song \in Songs, NEW p \in Players, NEW ok \in BOOLEAN
  PROVE  PlaySong(s, song, p, ok) \in Service
<1>1. StopPlayBack(s) \in Service
  BY StopPlayBackType
<1>2. [StopPlayBack(s) EXCEPT !.mSongs = IF @ = None THEN None ELSE <<>>,
                              !.mCurrentSong = song] \in Service
  BY <1>1, SongChosen
<1> QED BY <1>2, PrepareToPlayType DEF PlaySong

(* onPrepared, onError and an abandoned player keep the types.                *)
LEMMA HandlerType ==
  ASSUME NEW s \in Service, NEW p \in Players
  PROVE  /\ \A behind \in BOOLEAN : OnPrepared(s, behind) \in Service
         /\ OnErrorUnknown(s, p) \in Service
         /\ Abandon(s) \in Service
<1>1. [s EXCEPT !.currentState = "prepared"] \in Service
  BY DEF Service
<1>2. \A behind \in BOOLEAN : OnPrepared(s, behind) \in Service
  BY <1>1, ControlType, StartType DEF OnPrepared
<1>3. OnErrorUnknown(s, p) \in Service
  BY NewPlayerType, CurrentType DEF OnErrorUnknown, Service
<1>4. Abandon(s) \in Service
  BY DEF Abandon, Service
<1> QED BY <1>2, <1>3, <1>4

(* Taking an event from the looper keeps the types.                           *)
LEMMA TakenType ==
  ASSUME music \in Service, NEW q \in Players, music.mp[q].events # <<>>
  PROVE  Taken(q) \in Service
<1>1. music.mp \in [Players -> Player] /\ music.mp[q] \in Player
  BY DEF Service
<1>2. [music.mp[q] EXCEPT !.events = Tail(@)] \in Player
  BY <1>1, PlayerType
<1> QED BY <1>1, <1>2 DEF Taken, Service

(* An event posted by a player's thread keeps the types.                      *)
LEMMA PostByType ==
  ASSUME music \in Service, NEW q \in Players, NEW st \in PlayerStates,
         NEW e \in Events, PostBy(q, st, e)
  PROVE  music' \in Service
<1>1. music.mp \in [Players -> Player] /\ music.mp[q] \in Player
  BY DEF Service
<1>2. Post(music.mp[q], st, e) \in Player
  BY <1>1, PlayerType
<1>3. [Post(music.mp[q], st, e) EXCEPT !.loading = FALSE] \in Player
  BY <1>2 DEF Player
<1> QED BY <1>1, <1>3 DEF PostBy, Only, Service

(* A service just created is well formed, whatever the preferences hold.      *)
LEMMA FreshType ==
  ASSUME NEW quit \in QuitInfo
  PROVE  Fresh(quit) \in Service
BY NewPlayerType, LocalList DEF Fresh, Service, Lists

(* The intent of the home screen is an intent.                                *)
LEMMA HomeIntentType == <<HomeIntent>> \in Seq(Intents)
<1>1. HomeIntent \in Intents
  BY DEF Intents
<1> QED BY <1>1

(* The types hold when the app is opened.                                     *)
LEMMA InitType == Init => TypeOK
<1> SUFFICES ASSUME NEW i \in Positions,
                    InitWith([song |-> LocalSongs[i + 1], index |-> i])
             PROVE  TypeOK
  BY DEF Init
<1>1. [song |-> LocalSongs[i + 1], index |-> i] \in QuitInfo
  BY LocalList DEF QuitInfo
<1> QED BY <1>1, FreshType, HomeIntentType DEF InitWith, TypeOK, Phases

(* Every step of the service keeps the types.                                 *)
LEMMA StepType == TypeOK /\ [Next]_vars => TypeOK'
<1> SUFFICES ASSUME TypeOK, [Next]_vars PROVE TypeOK'
  OBVIOUS
<1>1. music \in Service
  BY DEF TypeOK
<1>2. \A p \in Players : p \in Free(music) => p \in Players
  OBVIOUS
<1>3. CASE UserStep
  <2>1. ASSUME NEW pos \in Positions, ClickSong(pos) PROVE TypeOK'
    <3>1. [music EXCEPT !.mSongs = LocalSongs] \in Service
      BY <1>1 DEF Service, Lists
    <3>2. SwitchNextSong([music EXCEPT !.mSongs = LocalSongs], pos) \in Service
      BY <3>1, StopPlayBackType
    <3>3. [list |-> LocalSongs, pos |-> pos] \in Intents
      BY DEF Intents
    <3>4. Append(intents, [list |-> LocalSongs, pos |-> pos]) \in Seq(Intents)
      BY <3>3 DEF TypeOK
    <3> QED BY <2>1, <3>2, <3>4 DEF ClickSong, TypeOK
  <2>2. CASE ClickPlayPause
    <3>1. [music EXCEPT !.mSongs = LocalSongs] \in Service /\ music.quit.index \in Positions
      BY <1>1 DEF Service, Lists, QuitInfo
    <3>2. SwitchNextSong([music EXCEPT !.mSongs = LocalSongs], music.quit.index) \in Service
      BY <3>1, StopPlayBackType
    <3> QED BY <1>1, <2>2, <3>2, ControlType, StartType DEF ClickPlayPause, Only, TypeOK
  <2>3. CASE HeadsetUnplugged
    <3>1. [music EXCEPT !.npe = TRUE] \in Service
      BY <1>1 DEF Service
    <3> QED BY <1>1, <2>3, <3>1, ControlType DEF HeadsetUnplugged, Only, TypeOK
  <2>4. CASE ReloadList
    BY <2>4 DEF ReloadList, TypeOK
  <2>5. CASE OpenLyric
    <3>1. [music EXCEPT !.npe = TRUE] \in Service
      BY <1>1 DEF Service
    <3> QED BY <1>1, <2>5, <3>1, ControlType DEF OpenLyric, TypeOK
  <2>6. CASE CloseLyric
    BY <2>6 DEF CloseLyric, TypeOK
  <2>7. CASE LyricPlay \/ LyricSeek \/ LyricMode
    BY <1>1, <2>7, ControlType, StartType DEF LyricPlay, LyricSeek, LyricMode, Only, TypeOK
  <2> QED BY <1>3, <2>1, <2>2, <2>3, <2>4, <2>5, <2>6, <2>7 DEF UserStep
<1>4. CASE FollowStep
  <2>1. CASE FollowPause \/ FollowPlay
    BY <1>1, <2>1, ControlType, StartType DEF FollowPause, FollowPlay, Only, TypeOK
  <2>2. ASSUME NEW song \in ServerSongs, PlaySongFromServer(song) PROVE TypeOK'
    BY <2>2 DEF PlaySongFromServer, TypeOK
  <2> QED BY <1>4, <2>1, <2>2 DEF FollowStep
<1>5. CASE LooperStep
  <2>1. CASE StartCommand
    <3> DEFINE i == Head(intents)
               s == [Abandon(music) EXCEPT !.mSongs = i.list, !.mCurrentIndex = i.pos]
    <3>1. i \in Intents /\ Tail(intents) \in Seq(Intents)
      BY <2>1 DEF StartCommand, TypeOK
    <3>2. i.list \in Lists /\ i.pos \in Positions
      BY <3>1, LocalList DEF Intents, HomeIntent, Lists
    <3>3. s \in Service
      <4>1. Abandon(music) \in Service
        BY <1>1, <2>1, HandlerType DEF StartCommand, Free
      <4> QED BY <3>2, <4>1 DEF Service
    <3>4. PICK p \in Players, ok \in BOOLEAN : music' = PlayCurrentIndexSong(s, i.pos, p, ok)
      BY <2>1 DEF StartCommand, Free
    <3>5. music' \in Service
      BY <3>2, <3>3, <3>4, PlayCurrentIndexSongType
    <3> QED BY <2>1, <3>1, <3>5 DEF StartCommand, TypeOK, Phases
  <2>2. CASE SwitchFires
    <3> DEFINE s == [Abandon(music) EXCEPT !.switchNext = None]
    <3>1. s \in Service /\ music.switchNext \in Positions
      BY <1>1, <2>2 DEF Service, Abandon, SwitchFires
    <3>2. PICK p \in Players, ok \in BOOLEAN :
            Only(PlayCurrentIndexSong(s, music.switchNext, p, ok))
      BY <2>2 DEF SwitchFires, Free
    <3> QED BY <3>1, <3>2, PlayCurrentIndexSongType DEF Only, TypeOK
  <2>3. CASE LyricTick
    BY <1>1, <2>3, ControlType DEF LyricTick, Only, TypeOK
  <2>4. ASSUME NEW song \in ServerSongs, ServerAnswers(song) PROVE TypeOK'
    <3>1. song \in Songs
      BY ServiceAssumption
    <3>2. music' \in Service
      BY <1>1, <2>4, <3>1, PlaySongType DEF ServerAnswers, Free
    <3> QED BY <2>4, <3>2 DEF ServerAnswers, TypeOK
  <2>5. ASSUME NEW q \in Players, HandlePrepared(q) PROVE TypeOK'
    BY <1>1, <2>5, TakenType, HandlerType DEF HandlePrepared, Heard, Only, TypeOK
  <2>6. ASSUME NEW q \in Players, HandleCompletion(q) PROVE TypeOK'
    <3>1. Taken(q) \in Service
      BY <1>1, <2>6, TakenType DEF HandleCompletion, Heard
    <3> QED BY <2>6, <3>1, CompletedType DEF HandleCompletion, Only, TypeOK, Free
  <2>7. ASSUME NEW q \in Players, HandleUnknown(q) PROVE TypeOK'
    <3>1. Taken(q) \in Service
      BY <1>1, <2>7, TakenType DEF HandleUnknown, Heard
    <3>2. PICK p \in Players :
            LET s == OnErrorUnknown(Taken(q), p) IN
            IF s.mp[q].heard /\ ~s.npe
            THEN \E r \in Free(s), ok \in BOOLEAN : Only(Completed(s, r, ok))
            ELSE Only(s)
      BY <2>7 DEF HandleUnknown, Free
    <3>3. OnErrorUnknown(Taken(q), p) \in Service
      BY <3>1, HandlerType
    <3> QED BY <3>2, <3>3, CompletedType DEF Only, TypeOK, Free
  <2>8. ASSUME NEW q \in Players, IgnoreEvent(q) PROVE TypeOK'
    BY <1>1, <2>8, TakenType DEF IgnoreEvent, Only, TypeOK
  <2> QED BY <1>5, <2>1, <2>2, <2>3, <2>4, <2>5, <2>6, <2>7, <2>8 DEF LooperStep
<1>6. CASE PlayerStep
  <2>1. PICK q \in Players, st \in PlayerStates, e \in Events : PostBy(q, st, e)
    BY <1>6 DEF PlayerStep, PrepareDone, PrepareFails, TrackEnds, PlayFails
  <2> QED BY <1>1, <2>1, PostByType DEF PostBy, Only, TypeOK
<1>7. CASE LifeStep
  <2>1. CASE Kill
    BY <1>1, <2>1, StopPlayBackType DEF Kill, TypeOK, Phases
  <2>2. CASE OnDestroy
    BY <1>1, <2>2 DEF OnDestroy, TypeOK, Phases
  <2>3. CASE Restart
    <3>1. music.quit \in QuitInfo
      BY <1>1 DEF Service
    <3> QED BY <2>3, <3>1, FreshType, HomeIntentType DEF Restart, TypeOK, Phases
  <2> QED BY <1>7, <2>1, <2>2, <2>3 DEF LifeStep
<1>8. CASE UNCHANGED vars
  BY <1>8 DEF vars, TypeOK
<1> QED BY <1>3, <1>4, <1>5, <1>6, <1>7, <1>8 DEF Next

(* Every value of every field stays in its type: the index inside the list it  *)
(* indexes, whichever list was set, and the current player one of the players. *)
THEOREM TypeCorrect == Spec => []TypeOK
BY InitType, StepType, PTL DEF Spec
------------------------------------------------------------------------------
(* Undisturbed, no player can be heard.                                        *)
AllQuiet(s) == ~s.disturbed => \A q \in Players : Quiet(s.mp[q])

(* A new or released player is quiet, and one that is quiet or only preparing *)
(* has posted no end of a track.                                              *)
LEMMA NewPlayerQuiet ==
  /\ \A h \in BOOLEAN : Quiet(NewPlayer(h)) /\ EndsLast(NewPlayer(h))
  /\ Quiet(Released) /\ EndsLast(Released)
  /\ \A song : EndsLast(Preparing(song)) /\ Preparing(song).src = song
  /\ \A m \in Player : Quiet(m) => EndsLast(m)
BY DEF Quiet, Sounding, NewPlayer, Released, EndsLast, Preparing, Player

(* A forbidden call is a disturbance.                                         *)
LEMMA FaultDisturbs ==
  ASSUME NEW s \in Service
  PROVE  Fault(s).disturbed
BY DEF Fault, Service

(* start() on mMediaPlayer: it holds mCurrentSong, and no end of its track is *)
(* posted, or the start is a disturbance.                                     *)
LEMMA PlayerStartDiscipline ==
  ASSUME NEW s \in Service, s.mMediaPlayer # None, Disciplined(s)
  PROVE  Disciplined(PlayerStart(s))
<1> DEFINE cur == s.mMediaPlayer
           m == s.mp[cur]
           t == PlayerStart(s)
<1> SUFFICES ASSUME ~t.disturbed, NEW q \in Players
             PROVE  /\ q # t.mMediaPlayer => Quiet(t.mp[q])
                    /\ q = t.mMediaPlayer => HoldsSong(t, t.mp[q])
                    /\ EndsLast(t.mp[q])
  BY DEF Disciplined
<1>1. m.st \in Startable
  BY FaultDisturbs DEF PlayerStart, Current
<1>2. t = [s EXCEPT !.mp[cur].st = "started",
                    !.disturbed = @ \/ (m.st = "complete" /\ m.events # <<>>)]
  BY <1>1 DEF PlayerStart, Current
<1>3. cur \in Players /\ s.mp \in [Players -> Player] /\ m \in Player
  BY CurrentType
<1>4. ~s.disturbed /\ ~(m.st = "complete" /\ m.events # <<>>)
  BY <1>2 DEF Service
<1>5. /\ t.mMediaPlayer = cur /\ t.mCurrentSong = s.mCurrentSong
      /\ t.mp = [s.mp EXCEPT ![cur].st = "started"]
  BY <1>2 DEF Service
<1>6. CASE q # cur
  BY <1>3, <1>4, <1>5, <1>6 DEF Disciplined
<1>7. CASE q = cur
  <2>1. t.mp[q] = [m EXCEPT !.st = "started"]
    BY <1>3, <1>5, <1>7
  <2>2. t.mp[q].events = m.events /\ t.mp[q].src = m.src
    BY <1>3, <2>1 DEF Player
  <2>3. HoldsSong(s, m) /\ EndsLast(m)
    BY <1>3, <1>4 DEF Disciplined
  <2>4. \A i \in 1 .. Len(m.events) : m.events[i] = "prepared"
    BY <1>1, <1>3, <1>4, <2>3 DEF EndsLast, Startable, Player
  <2>5. m.src = s.mCurrentSong
    BY <1>1, <2>3 DEF HoldsSong, Startable
  <2> QED BY <1>5, <1>7, <2>2, <2>4, <2>5 DEF HoldsSong, EndsLast
<1> QED BY <1>6, <1>7

(* pause() starts nothing and posts nothing.                                  *)
LEMMA PlayerPauseDiscipline ==
  ASSUME NEW s \in Service, s.mMediaPlayer # None, Disciplined(s)
  PROVE  Disciplined(PlayerPause(s))
<1> DEFINE cur == s.mMediaPlayer
           m == s.mp[cur]
           st == IF m.st = "started" THEN "paused" ELSE m.st
           t == PlayerPause(s)
<1> SUFFICES ASSUME ~t.disturbed, NEW q \in Players
             PROVE  /\ q # t.mMediaPlayer => Quiet(t.mp[q])
                    /\ q = t.mMediaPlayer => HoldsSong(t, t.mp[q])
                    /\ EndsLast(t.mp[q])
  BY DEF Disciplined
<1>1. m.st \in Pausable
  BY FaultDisturbs DEF PlayerPause, Current
<1>2. t = [s EXCEPT !.mp[cur].st = st]
  BY <1>1 DEF PlayerPause, Current
<1>3. cur \in Players /\ s.mp \in [Players -> Player] /\ m \in Player
  BY CurrentType
<1>4. /\ t.mMediaPlayer = cur /\ t.mCurrentSong = s.mCurrentSong /\ ~s.disturbed
      /\ t.mp = [s.mp EXCEPT ![cur].st = st]
  BY <1>2 DEF Service
<1>6. CASE q # cur
  BY <1>3, <1>4, <1>6 DEF Disciplined
<1>7. CASE q = cur
  <2>1. t.mp[q] = [m EXCEPT !.st = st]
    BY <1>3, <1>4, <1>7
  <2>2. /\ t.mp[q].events = m.events /\ t.mp[q].src = m.src
        /\ t.mp[q].st = st /\ t.mp[q].loading = m.loading
    BY <1>3, <2>1 DEF Player
  <2>3. HoldsSong(s, m) /\ EndsLast(m)
    BY <1>3, <1>4 DEF Disciplined
  <2> QED BY <1>1, <1>4, <1>7, <2>2, <2>3 DEF HoldsSong, EndsLast, Pausable
<1> QED BY <1>6, <1>7

(* The discipline is about four fields only.                                   *)
LEMMA FrameDiscipline ==
  ASSUME NEW s, NEW t, t.mp = s.mp, t.mMediaPlayer = s.mMediaPlayer,
         t.mCurrentSong = s.mCurrentSong, t.disturbed = s.disturbed
  PROVE  /\ Disciplined(s) <=> Disciplined(t)
         /\ AllQuiet(s) <=> AllQuiet(t)
BY DEF Disciplined, AllQuiet, HoldsSong

(* Notifying touches none of the four.                                        *)
LEMMA NotifyFrame ==
  ASSUME NEW s \in Service
  PROVE  \A t \in {NotifyPlaying(s), NotifyPause(s)} :
           /\ t.mp = s.mp /\ t.mMediaPlayer = s.mMediaPlayer /\ t.bar = s.bar
           /\ t.mCurrentSong = s.mCurrentSong /\ t.disturbed = s.disturbed
BY DEF NotifyPlaying, NotifyPause, Service

(* start() and pause() of the service keep the discipline.                    *)
LEMMA StartDiscipline ==
  ASSUME NEW s \in Service, Disciplined(s)
  PROVE  Disciplined(Start(s)) /\ Disciplined(Pause(s))
<1>1. Disciplined([s EXCEPT !.npe = TRUE])
  BY FrameDiscipline DEF Service
<1>2. s.mMediaPlayer # None => Disciplined(NotifyPlaying(PlayerStart(s)))
  BY PlayerStartType, PlayerStartDiscipline, NotifyFrame, FrameDiscipline
<1>3. s.mMediaPlayer # None => Disciplined(NotifyPause(PlayerPause(s)))
  BY PlayerPauseType, PlayerPauseDiscipline, NotifyFrame, FrameDiscipline
<1> QED BY <1>1, <1>2, <1>3 DEF Start, Pause

(* seekTo(), the reading of the progress and the mode keep it: what they may  *)
(* do to a player is a disturbance.                                           *)
LEMMA ControlDiscipline ==
  ASSUME NEW s \in Service, Disciplined(s)
  PROVE  /\ Disciplined(SeekTo(s))
         /\ Disciplined(ReadProgress(s))
         /\ Disciplined(SwitchNextPlayMode(s))
<1>1. Disciplined([s EXCEPT !.npe = TRUE])
  BY FrameDiscipline DEF Service
<1>2. Disciplined(Fault(s))
  BY FaultDisturbs DEF Disciplined
<1>3. Disciplined(SwitchNextPlayMode(s))
  BY FrameDiscipline DEF SwitchNextPlayMode, Service
<1> QED BY <1>1, <1>2, <1>3 DEF SeekTo, ReadProgress

(* stopPlayBack() silences the only player that could be heard; killMyself()  *)
(* and switchNextSong() keep the discipline.                                  *)
LEMMA StopDiscipline ==
  ASSUME NEW s \in Service, Disciplined(s)
  PROVE  /\ AllQuiet(StopPlayBack(s)) /\ Disciplined(StopPlayBack(s))
         /\ \A pos : Disciplined(SwitchNextSong(s, pos))
         /\ Disciplined(KillMyself(s))
<1> DEFINE cur == s.mMediaPlayer
           m == s.mp[cur]
           t == StopPlayBack(s)
<1>1. CASE cur = None
  <2>1. t = s /\ KillMyself(s) = s
    BY <1>1 DEF StopPlayBack, KillMyself
  <2>2. AllQuiet(s)
    BY <1>1, ServiceAssumption DEF Disciplined, AllQuiet
  <2>3. \A pos : Disciplined(SwitchNextSong(s, pos))
    BY <2>1, FrameDiscipline DEF SwitchNextSong, Service
  <2> QED BY <2>1, <2>2, <2>3
<1>2. CASE cur # None
  <2>1. cur \in Players /\ s.mp \in [Players -> Player] /\ m \in Player
    BY <1>2, CurrentType
  <2>2. m.heard \in BOOLEAN
    BY <2>1, PlayerType
  <2>3. /\ t.mMediaPlayer = cur /\ t.mp = [s.mp EXCEPT ![cur] = Reset(m)]
        /\ t.disturbed = s.disturbed /\ t.mCurrentSong = s.mCurrentSong
    BY <1>2 DEF StopPlayBack, Service
  <2>4. t.mp[cur] = NewPlayer(m.heard) /\ \A q \in Players : q # cur => t.mp[q] = s.mp[q]
    BY <2>1, <2>3 DEF Reset
  <2>5. AllQuiet(t)
    BY <2>2, <2>3, <2>4, NewPlayerQuiet DEF AllQuiet, Disciplined
  <2>6. Disciplined(t)
    BY <2>2, <2>3, <2>4, <2>5, NewPlayerQuiet DEF AllQuiet, Disciplined, HoldsSong, NewPlayer
  <2>7. \A pos : Disciplined(SwitchNextSong(s, pos))
    BY <2>6, StopPlayBackType, FrameDiscipline DEF SwitchNextSong, Service
  <2>8. LET k == KillMyself(s) IN
        /\ k.mMediaPlayer = None /\ k.mp = [s.mp EXCEPT ![cur] = Released]
        /\ k.disturbed = s.disturbed
    BY <1>2 DEF KillMyself, Service
  <2>9. Disciplined(KillMyself(s))
    BY <2>1, <2>8, NewPlayerQuiet, ServiceAssumption DEF Disciplined
  <2> QED BY <2>5, <2>6, <2>7, <2>9
<1> QED BY <1>1, <1>2

(* prepareToPlay() drops the old player without a word: the discipline needs  *)
(* every player quiet before it.                                              *)
LEMMA PrepareToPlayDiscipline ==
  ASSUME NEW s \in Service, NEW p \in Players, NEW ok \in BOOLEAN, AllQuiet(s)
  PROVE  Disciplined(PrepareToPlay(s, p, ok))
<1> DEFINE t == PrepareToPlay(s, p, ok)
<1>1. /\ t.mMediaPlayer = p /\ t.mCurrentSong = s.mCurrentSong
      /\ t.disturbed = s.disturbed
  BY DEF PrepareToPlay, Service
<1>2. \A q \in Players :
        t.mp[q] = CASE q = p /\ ok      -> Preparing(s.mCurrentSong)
                    [] q = p /\ ~ok     -> NewPlayer(TRUE)
                    [] q # p /\ Quiet(s.mp[q])  -> NewPlayer(FALSE)
                    [] q # p /\ ~Quiet(s.mp[q]) -> s.mp[q]
  BY DEF PrepareToPlay, Service
<1> SUFFICES ASSUME ~s.disturbed, NEW q \in Players
             PROVE  /\ q # p => Quiet(t.mp[q])
                    /\ q = p => HoldsSong(t, t.mp[q])
                    /\ EndsLast(t.mp[q])
  BY <1>1 DEF Disciplined
<1>3. q # p => t.mp[q] = NewPlayer(FALSE)
  BY <1>2 DEF AllQuiet
<1>4. q = p => t.mp[q] = Preparing(s.mCurrentSong) \/ t.mp[q] = NewPlayer(TRUE)
  BY <1>2
<1>5. EndsLast(t.mp[q])
  BY <1>3, <1>4, NewPlayerQuiet
<1>6. q # p => Quiet(t.mp[q])
  BY <1>3, NewPlayerQuiet
<1>7. q = p => HoldsSong(t, t.mp[q])
  <2>1. t.mp[q] = Preparing(s.mCurrentSong) => t.mp[q].src = t.mCurrentSong
    BY <1>1 DEF Preparing
  <2>2. t.mp[q] = NewPlayer(TRUE) => t.mp[q].st = "idle" /\ ~t.mp[q].loading
    BY DEF NewPlayer
  <2> QED BY <1>4, <2>1, <2>2 DEF HoldsSong
<1> QED BY <1>5, <1>6, <1>7

(* So does playCurrentIndexSong(), which changes mCurrentSong with the        *)
(* player.                                                                    *)
LEMMA PlayCurrentIndexSongDiscipline ==
  ASSUME NEW s \in Service, NEW pos \in Positions, NEW p \in Players,
         NEW ok \in BOOLEAN, AllQuiet(s), Disciplined(s)
  PROVE  Disciplined(PlayCurrentIndexSong(s, pos, p, ok))
<1> DEFINE t == [s EXCEPT !.mCurrentIndex = pos, !.mCurrentSong = s.mSongs[pos + 1]]
<1>1. CASE s.mSongs \in {None, <<>>}
  BY <1>1 DEF PlayCurrentIndexSong
<1>2. CASE s.mSongs \notin {None, <<>>}
  <2>1. s.mSongs = LocalSongs
    BY <1>2 DEF Service, Lists
  <2>2. t \in Service /\ AllQuiet(t)
    BY <2>1, LocalList DEF Service, AllQuiet
  <2> QED BY <1>2, <2>2, PrepareToPlayDiscipline DEF PlayCurrentIndexSong
<1> QED BY <1>1, <1>2

(* The end of a track finds every player quiet, so the next one may be        *)
(* prepared.                                                                  *)
LEMMA CompletedDiscipline ==
  ASSUME NEW s \in Service, NEW p \in Players, NEW ok \in BOOLEAN,
         AllQuiet(s), Disciplined(s)
  PROVE  Disciplined(Completed(s, p, ok))
<1> DEFINE c == [s EXCEPT !.currentState = "completed"]
<1>1. c \in Service /\ c.mCurrentIndex \in Positions /\ AllQuiet(c) /\ Disciplined(c)
  BY FrameDiscipline DEF Service
<1>2. ASSUME c.mSongs \notin {None, <<>>} PROVE Disciplined(PlayNextSong(c, p, ok))
  <2> DEFINE next == IF c.mCurrentIndex + 1 >= Len(c.mSongs) THEN 0
                     ELSE c.mCurrentIndex + 1
             d == [c EXCEPT !.mCurrentIndex = next]
  <2>1. next \in Positions
    BY <1>1, <1>2, LocalList DEF Service, Lists
  <2>2. d \in Service
    BY <1>1, <2>1, IndexType
  <2>3. Disciplined(d)
    <3>1. /\ d.mp = c.mp /\ d.mMediaPlayer = c.mMediaPlayer
          /\ d.mCurrentSong = c.mCurrentSong /\ d.disturbed = c.disturbed
      BY <1>1 DEF Service
    <3> HIDE DEF d
    <3> QED BY <1>1, <3>1, FrameDiscipline
  <2>4. /\ StopPlayBack(d) \in Service
        /\ AllQuiet(StopPlayBack(d)) /\ Disciplined(StopPlayBack(d))
    BY <2>2, <2>3, StopPlayBackType, StopDiscipline
  <2> QED BY <2>1, <2>4, PlayCurrentIndexSongDiscipline DEF PlayNextSong
<1> QED BY <1>1, <1>2, PlayCurrentIndexSongDiscipline DEF Completed

(* playSong() stops the player there is before it prepares another.           *)
LEMMA PlaySongDiscipline ==
  ASSUME NEW s \in Service, NEW song \in Songs, NEW p \in Players,
         NEW ok \in BOOLEAN, Disciplined(s)
  PROVE  Disciplined(PlaySong(s, song, p, ok))
<1> DEFINE t == [StopPlayBack(s) EXCEPT !.mSongs = IF @ = None THEN None ELSE <<>>,
                                        !.mCurrentSong = song]
<1>1. StopPlayBack(s) \in Service /\ AllQuiet(StopPlayBack(s))
  BY StopPlayBackType, StopDiscipline
<1>2. t \in Service /\ AllQuiet(t)
  BY <1>1, SongChosen DEF AllQuiet
<1> QED BY <1>2, PrepareToPlayDiscipline DEF PlaySong

(* The shared listener seeks and starts mMediaPlayer, which prepared.         *)
LEMMA OnPreparedDiscipline ==
  ASSUME NEW s \in Service, NEW behind \in BOOLEAN, Disciplined(s)
  PROVE  Disciplined(OnPrepared(s, behind))
<1> DEFINE t == [s EXCEPT !.currentState = "prepared"]
<1>1. t \in Service /\ Disciplined(t)
  BY FrameDiscipline DEF Service
<1> QED BY <1>1, ControlType, ControlDiscipline, StartDiscipline DEF OnPrepared

(* The first message or intent that abandons a player in use is a disturbance. *)
LEMMA AbandonDiscipline ==
  ASSUME NEW s \in Service, Disciplined(s)
  PROVE  AllQuiet(Abandon(s)) /\ Disciplined(Abandon(s))
<1> DEFINE t == Abandon(s)
<1>1. /\ t.mp = s.mp /\ t.mMediaPlayer = s.mMediaPlayer
      /\ t.mCurrentSong = s.mCurrentSong
      /\ t.disturbed = (s.disturbed \/ (s.mMediaPlayer # None /\ ~Quiet(Current(s))))
  BY DEF Abandon, Service
<1>2. ~t.disturbed => Disciplined(s) /\ ~s.disturbed
                      /\ (s.mMediaPlayer = None \/ Quiet(s.mp[s.mMediaPlayer]))
  BY <1>1 DEF Current
<1>3. AllQuiet(t)
  BY <1>1, <1>2, ServiceAssumption DEF AllQuiet, Disciplined
<1>4. Disciplined(t)
  BY <1>1, <1>2 DEF Disciplined, HoldsSong
<1> QED BY <1>3, <1>4

(* Taking an event from the queue: an event that ends the track was the last.  *)
LEMMA TakenDiscipline ==
  ASSUME music \in Service, Disciplined(music),
         NEW q \in Players, music.mp[q].events # <<>>
  PROVE  /\ Disciplined(Taken(q))
         /\ Head(music.mp[q].events) # "prepared" => AllQuiet(Taken(q))
         /\ ~Taken(q).disturbed => q = music.mMediaPlayer
         /\ Taken(q).mMediaPlayer = music.mMediaPlayer
<1> DEFINE m == music.mp[q]
           t == Taken(q)
           n == [m EXCEPT !.events = Tail(@)]
<1>1. music.mp \in [Players -> Player] /\ m \in Player /\ m.events \in Seq(Events)
  BY PlayerType DEF Service
<1>2. /\ t.mMediaPlayer = music.mMediaPlayer /\ t.mCurrentSong = music.mCurrentSong
      /\ t.disturbed = music.disturbed /\ t.mp = [music.mp EXCEPT ![q] = n]
  BY DEF Taken, Service
<1>3. /\ t.mp[q] = n /\ \A r \in Players : r # q => t.mp[r] = music.mp[r]
  BY <1>1, <1>2
<1>4. /\ n.st = m.st /\ n.src = m.src /\ n.loading = m.loading
      /\ n.events = Tail(m.events)
  BY <1>1 DEF Player
<1>5. ~t.disturbed => q = music.mMediaPlayer
  BY <1>2 DEF Disciplined, Quiet
<1>6. EndsLast(m) => EndsLast(n)
  <2> SUFFICES ASSUME EndsLast(m), NEW i \in 1 .. Len(n.events),
                      n.events[i] # "prepared"
               PROVE  i = Len(n.events) /\ ~n.loading /\ n.st \in {"complete", "error"}
    BY DEF EndsLast
  <2>1. /\ Len(n.events) = Len(m.events) - 1 /\ i + 1 \in 1 .. Len(m.events)
        /\ n.events[i] = m.events[i + 1]
    BY <1>1, <1>4
  <2> QED BY <1>1, <1>4, <2>1 DEF EndsLast
<1>7. Disciplined(t)
  <2> SUFFICES ASSUME ~t.disturbed, NEW r \in Players
               PROVE  /\ r # t.mMediaPlayer => Quiet(t.mp[r])
                      /\ r = t.mMediaPlayer => HoldsSong(t, t.mp[r])
                      /\ EndsLast(t.mp[r])
    BY DEF Disciplined
  <2>1. CASE r # q
    BY <1>2, <1>3, <2>1 DEF Disciplined, HoldsSong
  <2>2. CASE r = q
    BY <1>2, <1>3, <1>4, <1>5, <1>6, <2>2 DEF Disciplined, HoldsSong
  <2> QED BY <2>1, <2>2
<1>8. ASSUME Head(m.events) # "prepared" PROVE AllQuiet(t)
  <2> SUFFICES ASSUME ~t.disturbed, NEW r \in Players PROVE Quiet(t.mp[r])
    BY DEF AllQuiet
  <2>1. CASE r # q
    BY <1>2, <1>3, <1>5, <2>1 DEF Disciplined
  <2>2. CASE r = q
    <3>1. EndsLast(m)
      BY <1>2 DEF Disciplined
    <3>2. 1 \in 1 .. Len(m.events) /\ m.events[1] # "prepared"
      BY <1>1, <1>8
    <3>3. Len(m.events) = 1 /\ ~m.loading /\ m.st \in {"complete", "error"}
      BY <3>1, <3>2 DEF EndsLast
    <3>4. Tail(m.events) \in Seq(Events) /\ Len(Tail(m.events)) = 0
      BY <1>1, <3>3
    <3>5. Tail(m.events) = <<>>
      BY <3>4, EmptySeq
    <3> QED BY <1>3, <1>4, <2>2, <3>3, <3>5 DEF Quiet, Sounding
  <2> QED BY <2>1, <2>2
<1> QED BY <1>2, <1>5, <1>7, <1>8

(* Undisturbed, the player in error is mMediaPlayer itself: releasing it takes *)
(* its listeners, and onCompletion is not reached.                             *)
LEMMA OnErrorUnknownDiscipline ==
  ASSUME NEW s \in Service, NEW p \in Players, NEW q \in Players,
         AllQuiet(s), Disciplined(s),
         ~s.disturbed => q = s.mMediaPlayer
  PROVE  LET t == OnErrorUnknown(s, p) IN
         /\ Disciplined(t) /\ AllQuiet(t)
<1> DEFINE t == OnErrorUnknown(s, p)
<1>1. CASE s.mMediaPlayer = None
  <2>1. /\ t.mp = s.mp /\ t.mMediaPlayer = s.mMediaPlayer
        /\ t.mCurrentSong = s.mCurrentSong /\ t.disturbed = s.disturbed
    BY <1>1 DEF OnErrorUnknown, Service
  <2> QED BY <2>1, FrameDiscipline
<1>2. CASE s.mMediaPlayer # None
  <2>1. /\ t.mMediaPlayer = p /\ t.disturbed = s.disturbed
        /\ \A r \in Players : t.mp[r] \in {s.mp[r], Released, NewPlayer(FALSE)}
        /\ t.mp[p] = NewPlayer(FALSE)
    BY <1>2, CurrentType DEF OnErrorUnknown, Service
  <2>2. AllQuiet(t)
    BY <2>1, NewPlayerQuiet DEF AllQuiet
  <2>3. t.mp[p].st = "idle" /\ ~t.mp[p].loading
    BY <2>1 DEF NewPlayer
  <2>4. Disciplined(t)
    BY <2>1, <2>2, <2>3, NewPlayerQuiet DEF AllQuiet, Disciplined, HoldsSong
  <2> QED BY <2>2, <2>4
<1> QED BY <1>1, <1>2

(* What the threads of a player post: undisturbed, only mMediaPlayer has any,  *)
(* and what ends a track comes after everything else.                          *)
LEMMA PostByDiscipline ==
  ASSUME music \in Service, Disciplined(music), NEW q \in Players,
         PrepareDone(q) \/ PrepareFails(q) \/ TrackEnds(q) \/ PlayFails(q)
  PROVE  Disciplined(music')
<1> DEFINE m == music.mp[q]
<1>1. PICK st \in {"prepared", "error", "complete"}, e \in Events :
        /\ music' = [music EXCEPT !.mp[q] = [Post(@, st, e) EXCEPT !.loading = FALSE]]
        /\ e # "prepared" => st \in {"complete", "error"}
        /\ m.loading \/ Sounding(m)
  BY DEF PrepareDone, PrepareFails, TrackEnds, PlayFails, PostBy, Only
<1>2. music.mp \in [Players -> Player] /\ m \in Player /\ m.events \in Seq(Events)
  BY PlayerType DEF Service
<1> DEFINE n == [Post(m, st, e) EXCEPT !.loading = FALSE]
<1>3. /\ music'.mMediaPlayer = music.mMediaPlayer
      /\ music'.mCurrentSong = music.mCurrentSong
      /\ music'.disturbed = music.disturbed
      /\ music'.mp = [music.mp EXCEPT ![q] = n]
  BY <1>1 DEF Service
<1>4. music'.mp[q] = n /\ \A r \in Players : r # q => music'.mp[r] = music.mp[r]
  BY <1>2, <1>3
<1>5. /\ n.st = st /\ n.src = m.src /\ ~n.loading
      /\ n.events = Append(m.events, e)
  BY <1>2 DEF Post, Player
<1> SUFFICES ASSUME ~music.disturbed, NEW r \in Players
             PROVE  /\ r # music.mMediaPlayer => Quiet(music'.mp[r])
                    /\ r = music.mMediaPlayer => HoldsSong(music', music'.mp[r])
                    /\ EndsLast(music'.mp[r])
  BY <1>3 DEF Disciplined
<1>6. CASE r # q
  BY <1>3, <1>4, <1>6 DEF Disciplined, HoldsSong
<1>7. CASE r = q
  <2>1. q = music.mMediaPlayer
    BY <1>1 DEF Disciplined, Quiet
  <2>2. HoldsSong(music, m) /\ EndsLast(m)
    BY <2>1 DEF Disciplined
  <2>3. m.src = music.mCurrentSong
    BY <1>1, <2>2 DEF HoldsSong, Sounding
  <2>4. \A i \in 1 .. Len(m.events) : m.events[i] = "prepared"
    BY <1>1, <2>2 DEF EndsLast, Sounding
  <2>5. /\ Len(n.events) = Len(m.events) + 1
        /\ \A i \in 1 .. Len(n.events) :
             n.events[i] = IF i = Len(n.events) THEN e ELSE m.events[i]
    BY <1>2, <1>5
  <2>6. EndsLast(n)
    BY <1>1, <1>2, <1>5, <2>4, <2>5 DEF EndsLast
  <2> QED BY <1>3, <1>4, <1>5, <1>7, <2>1, <2>3, <2>6 DEF HoldsSong
<1> QED BY <1>6, <1>7

(* A service just created has no player at all.                               *)
LEMMA FreshDiscipline ==
  \A quit \in QuitInfo : Disciplined(Fresh(quit))
BY NewPlayerQuiet, ServiceAssumption DEF Fresh, Disciplined

(* What the user does, on either screen, keeps the discipline.                *)
LEMMA UserStepDiscipline ==
  TypeOK /\ Discipline /\ UserStep => Discipline'
<1> SUFFICES ASSUME TypeOK, Disciplined(music), UserStep PROVE Disciplined(music')
  BY DEF Discipline
<1>1. music \in Service
  BY DEF TypeOK
<1> DEFINE listed == [music EXCEPT !.mSongs = LocalSongs]
<1>2. \A pos : Disciplined(SwitchNextSong(listed, pos))
  <2>1. listed \in Service /\ Disciplined(listed)
    BY <1>1, FrameDiscipline DEF Service, Lists
  <2> QED BY <2>1, StopDiscipline
<1>3. Disciplined([music EXCEPT !.npe = TRUE])
  BY <1>1, FrameDiscipline DEF Service
<1>4. ASSUME NEW pos \in Positions, ClickSong(pos) PROVE Disciplined(music')
  BY <1>2, <1>4 DEF ClickSong
<1>5. CASE ClickPlayPause
  BY <1>1, <1>2, <1>5, StartDiscipline DEF ClickPlayPause, Only
<1>6. CASE HeadsetUnplugged
  BY <1>1, <1>3, <1>6, StartDiscipline DEF HeadsetUnplugged, Only
<1>7. CASE OpenLyric
  BY <1>1, <1>3, <1>7, ControlDiscipline DEF OpenLyric
<1>8. CASE LyricPlay \/ LyricSeek \/ LyricMode
  BY <1>1, <1>8, StartDiscipline, ControlDiscipline
     DEF LyricPlay, LyricSeek, LyricMode, Only
<1>9. CASE ReloadList \/ CloseLyric
  BY <1>9 DEF ReloadList, CloseLyric
<1> QED BY <1>4, <1>5, <1>6, <1>7, <1>8, <1>9 DEF UserStep

(* What the looper handles keeps it: intents, SWITCH_NEXT, answers and        *)
(* events.                                                                    *)
LEMMA LooperStepDiscipline ==
  TypeOK /\ Discipline /\ LooperStep => Discipline'
<1> SUFFICES ASSUME TypeOK, Disciplined(music), LooperStep PROVE Disciplined(music')
  BY DEF Discipline
<1>1. music \in Service
  BY DEF TypeOK
<1>2. Abandon(music) \in Service /\ AllQuiet(Abandon(music)) /\ Disciplined(Abandon(music))
  <2>1. Abandon(music) \in Service
    BY <1>1 DEF Abandon, Service
  <2> QED BY <1>1, <2>1, AbandonDiscipline
<1>3. CASE StartCommand
  <2> DEFINE i == Head(intents)
             s == [Abandon(music) EXCEPT !.mSongs = i.list, !.mCurrentIndex = i.pos]
  <2>1. i.list \in Lists /\ i.pos \in Positions
    BY <1>3, LocalList DEF StartCommand, TypeOK, Intents, HomeIntent, Lists
  <2>2. s \in Service
    BY <1>2, <2>1 DEF Service
  <2>3. AllQuiet(s) /\ Disciplined(s)
    BY <1>2, FrameDiscipline DEF Service
  <2>4. PICK p \in Players, ok \in BOOLEAN : music' = PlayCurrentIndexSong(s, i.pos, p, ok)
    BY <1>3 DEF StartCommand, Free
  <2> QED BY <2>1, <2>2, <2>3, <2>4, PlayCurrentIndexSongDiscipline
<1>4. CASE SwitchFires
  <2> DEFINE s == [Abandon(music) EXCEPT !.switchNext = None]
  <2>1. s \in Service /\ music.switchNext \in Positions
    BY <1>1, <1>2, <1>4 DEF Service, SwitchFires
  <2>2. AllQuiet(s) /\ Disciplined(s)
    BY <1>2, FrameDiscipline DEF Service
  <2>3. PICK p \in Players, ok \in BOOLEAN :
          music' = PlayCurrentIndexSong(s, music.switchNext, p, ok)
    BY <1>4 DEF SwitchFires, Only, Free
  <2> QED BY <2>1, <2>2, <2>3, PlayCurrentIndexSongDiscipline
<1>5. CASE LyricTick
  BY <1>1, <1>5, ControlDiscipline DEF LyricTick, Only
<1>6. ASSUME NEW song \in ServerSongs, ServerAnswers(song) PROVE Disciplined(music')
  <2>1. song \in Songs
    BY ServiceAssumption
  <2> QED BY <1>1, <1>6, <2>1, PlaySongDiscipline DEF ServerAnswers, Free
<1>7. ASSUME NEW q \in Players, music.mp[q].events # <<>>
      PROVE  /\ Taken(q) \in Service /\ Disciplined(Taken(q))
             /\ Head(music.mp[q].events) # "prepared" => AllQuiet(Taken(q))
             /\ ~Taken(q).disturbed => q = Taken(q).mMediaPlayer
  BY <1>1, <1>7, TakenType, TakenDiscipline
<1>8. ASSUME NEW q \in Players, HandlePrepared(q) PROVE Disciplined(music')
  BY <1>7, <1>8, OnPreparedDiscipline DEF HandlePrepared, Heard, Only
<1>9. ASSUME NEW q \in Players, HandleCompletion(q) PROVE Disciplined(music')
  <2>1. Taken(q) \in Service /\ AllQuiet(Taken(q)) /\ Disciplined(Taken(q))
    BY <1>7, <1>9 DEF HandleCompletion, Heard
  <2> QED BY <1>9, <2>1, CompletedDiscipline DEF HandleCompletion, Only, Free
<1>10. ASSUME NEW q \in Players, HandleUnknown(q) PROVE Disciplined(music')
  <2>1. /\ Taken(q) \in Service /\ AllQuiet(Taken(q)) /\ Disciplined(Taken(q))
        /\ ~Taken(q).disturbed => q = Taken(q).mMediaPlayer
    BY <1>7, <1>10 DEF HandleUnknown, Heard
  <2>2. PICK p \in Players :
          LET s == OnErrorUnknown(Taken(q), p) IN
          IF s.mp[q].heard /\ ~s.npe
          THEN \E r \in Free(s), ok \in BOOLEAN : Only(Completed(s, r, ok))
          ELSE Only(s)
    BY <1>10 DEF HandleUnknown, Free
  <2> DEFINE s == OnErrorUnknown(Taken(q), p)
  <2>3. s \in Service /\ AllQuiet(s) /\ Disciplined(s)
    BY <2>1, HandlerType, OnErrorUnknownDiscipline
  <2> QED BY <2>2, <2>3, CompletedDiscipline DEF Only, Free
<1>11. ASSUME NEW q \in Players, IgnoreEvent(q) PROVE Disciplined(music')
  BY <1>7, <1>11 DEF IgnoreEvent, Only
<1> QED BY <1>3, <1>4, <1>5, <1>6, <1>8, <1>9, <1>10, <1>11 DEF LooperStep

(* Every step keeps the discipline.                                           *)
LEMMA StepDiscipline == TypeOK /\ Discipline /\ [Next]_vars => Discipline'
<1> SUFFICES ASSUME TypeOK, Disciplined(music), [Next]_vars PROVE Disciplined(music')
  BY DEF Discipline
<1>1. music \in Service
  BY DEF TypeOK
<1>2. CASE UserStep
  BY <1>2, UserStepDiscipline DEF Discipline
<1>3. CASE FollowStep
  BY <1>1, <1>3, StartDiscipline
     DEF FollowStep, FollowPause, FollowPlay, PlaySongFromServer, Only
<1>4. CASE LooperStep
  BY <1>4, LooperStepDiscipline DEF Discipline
<1>5. CASE PlayerStep
  BY <1>1, <1>5, PostByDiscipline DEF PlayerStep
<1>6. CASE LifeStep
  <2>1. CASE Kill
    BY <1>1, <2>1, StopDiscipline DEF Kill
  <2>2. CASE OnDestroy
    BY <1>1, <2>2 DEF OnDestroy
  <2>3. CASE Restart
    BY <1>1, <2>3, FreshDiscipline DEF Restart, Service
  <2> QED BY <1>6, <2>1, <2>2, <2>3 DEF LifeStep
<1>7. CASE UNCHANGED vars
  BY <1>7 DEF vars
<1> QED BY <1>2, <1>3, <1>4, <1>5, <1>6, <1>7 DEF Next

(* For every list, server and number of players, as long as nothing disturbed  *)
(* it: every player but mMediaPlayer is silent for good, mMediaPlayer holds    *)
(* mCurrentSong, and what ends a track is the last its player has to say.      *)
THEOREM PlayersDisciplined == Spec => []Discipline
<1>1. Init => Discipline
  <2> SUFFICES ASSUME NEW i \in Positions,
                      InitWith([song |-> LocalSongs[i + 1], index |-> i])
               PROVE  Discipline
    BY DEF Init
  <2>1. [song |-> LocalSongs[i + 1], index |-> i] \in QuitInfo
    BY LocalList DEF QuitInfo
  <2> QED BY <2>1, FreshDiscipline DEF InitWith, Discipline
<1>2. TypeOK /\ Discipline /\ [Next]_vars => Discipline'
  BY StepDiscipline
<1> QED BY <1>1, <1>2, TypeCorrect, PTL DEF Spec

(* The service left to itself plays one song at a time, with mMediaPlayer, and *)
(* the song is mCurrentSong, the one every screen shows.                       *)
THEOREM OnlyOneVoice == Spec => []OneVoice
<1>1. TypeOK /\ Discipline => OneVoice
  BY DEF TypeOK, Discipline, Disciplined, OneVoice, Quiet, HoldsSong, Sounding
<1> QED BY <1>1, TypeCorrect, PlayersDisciplined, PTL
------------------------------------------------------------------------------
(* MusicService throws no exception while it runs, for any list, server and    *)
(* players, disturbances included.  A null mMediaPlayer is met by start(),     *)
(* getCurrentPlayPosition() and onError(); what keeps them from it is that a   *)
(* service without a player has no song, no state of playing, and no player    *)
(* with listeners.                                                             *)
Serviceable(s) ==
    /\ ~s.npe
    /\ s.mMediaPlayer = None =>
         /\ s.mCurrentSong = None
         /\ ~IsPlayInback(s)
         /\ \A q \in Players : ~s.mp[q].heard

(* Before the service exists an exception can end the process: the headset's   *)
(* receiver and the lyric screen.                                              *)
ServiceableInv ==
    /\ phase = "running" => Serviceable(music)
    /\ phase = "starting" => Serviceable(music) \/ music.npe
------------------------------------------------------------------------------
(* Once there is a player, whatever keeps it cannot fail for want of one.      *)
LEMMA KeepsPlayer ==
  ASSUME NEW s, NEW t, Serviceable(s), s.mMediaPlayer # None,
         t.mMediaPlayer = s.mMediaPlayer, t.npe = s.npe
  PROVE  Serviceable(t)
BY DEF Serviceable

(* What starting, pausing, faulting and notifying leave of the service.        *)
LEMMA ControlKeepsPlayer ==
  ASSUME NEW s \in Service, s.mMediaPlayer # None
  PROVE  \A t \in {Fault(s), PlayerStart(s), PlayerPause(s)} :
           t \in Service /\ t.mMediaPlayer = s.mMediaPlayer /\ t.npe = s.npe
<1>1. Fault(s).mMediaPlayer = s.mMediaPlayer /\ Fault(s).npe = s.npe
  BY DEF Fault, Service
<1>2. PlayerStart(s).mMediaPlayer = s.mMediaPlayer /\ PlayerStart(s).npe = s.npe
  BY <1>1 DEF PlayerStart, Service
<1>3. PlayerPause(s).mMediaPlayer = s.mMediaPlayer /\ PlayerPause(s).npe = s.npe
  BY <1>1 DEF PlayerPause, Service
<1> QED BY <1>1, <1>2, <1>3, FaultType, PlayerStartType, PlayerPauseType

(* Notifying touches neither the player nor npe.                               *)
LEMMA NotifyKeepsPlayer ==
  ASSUME NEW s \in Service
  PROVE  \A t \in {NotifyPlaying(s), NotifyPause(s)} :
           t.mMediaPlayer = s.mMediaPlayer /\ t.npe = s.npe
BY DEF NotifyPlaying, NotifyPause, Service

(* The controls do not fail, with or without a player.                         *)
LEMMA ControlServiceable ==
  ASSUME NEW s \in Service, Serviceable(s)
  PROVE  /\ Serviceable(Start(s)) /\ Serviceable(Pause(s)) /\ Serviceable(SeekTo(s))
         /\ Serviceable(ReadProgress(s)) /\ Serviceable(SwitchNextPlayMode(s))
         /\ Serviceable(StopPlayBack(s))
         /\ \A pos : Serviceable(SwitchNextSong(s, pos))
<1>1. CASE s.mMediaPlayer = None
  <2>1. /\ Start(s) = s /\ Pause(s) = s /\ SeekTo(s) = s /\ ReadProgress(s) = s
        /\ StopPlayBack(s) = s
    BY <1>1 DEF Serviceable, Start, Pause, SeekTo, ReadProgress, StopPlayBack
  <2>2. Serviceable(SwitchNextPlayMode(s)) /\ \A pos : Serviceable(SwitchNextSong(s, pos))
    BY <1>1, <2>1 DEF Serviceable, SwitchNextPlayMode, SwitchNextSong, Service, IsPlayInback
  <2> QED BY <2>1, <2>2
<1>2. CASE s.mMediaPlayer # None
  <2>1. Serviceable(Start(s)) /\ Serviceable(Pause(s))
    BY <1>2, ControlKeepsPlayer, NotifyKeepsPlayer, KeepsPlayer DEF Start, Pause
  <2>2. Serviceable(SeekTo(s)) /\ Serviceable(ReadProgress(s))
    BY <1>2, ControlKeepsPlayer, KeepsPlayer DEF SeekTo, ReadProgress
  <2>3. /\ StopPlayBack(s).mMediaPlayer = s.mMediaPlayer /\ StopPlayBack(s).npe = s.npe
        /\ StopPlayBack(s) \in Service
    BY <1>2, StopPlayBackType DEF StopPlayBack, Service
  <2>4. /\ SwitchNextPlayMode(s).mMediaPlayer = s.mMediaPlayer
        /\ SwitchNextPlayMode(s).npe = s.npe
    BY DEF SwitchNextPlayMode, Service
  <2>5. \A pos : /\ SwitchNextSong(s, pos).mMediaPlayer = s.mMediaPlayer
                 /\ SwitchNextSong(s, pos).npe = s.npe
    BY <2>3 DEF SwitchNextSong, Service
  <2> QED BY <1>2, <2>1, <2>2, <2>3, <2>4, <2>5, KeepsPlayer
<1> QED BY <1>1, <1>2

(* A prepared song comes with a player.                                        *)
LEMMA PrepareServiceable ==
  ASSUME NEW s \in Service, ~s.npe, NEW p \in Players, NEW ok \in BOOLEAN
  PROVE  Serviceable(PrepareToPlay(s, p, ok))
<1>1. /\ PrepareToPlay(s, p, ok).mMediaPlayer = p
      /\ PrepareToPlay(s, p, ok).npe = s.npe
  BY DEF PrepareToPlay, Service
<1> QED BY <1>1, ServiceAssumption DEF Serviceable

(* The current song is played, or the list is empty and nothing happens.       *)
LEMMA PlayCurrentServiceable ==
  ASSUME NEW s \in Service, Serviceable(s), NEW pos \in Positions,
         NEW p \in Players, NEW ok \in BOOLEAN
  PROVE  Serviceable(PlayCurrentIndexSong(s, pos, p, ok))
<1> DEFINE t == [s EXCEPT !.mCurrentIndex = pos, !.mCurrentSong = s.mSongs[pos + 1]]
<1>1. CASE s.mSongs \in {None, <<>>}
  BY <1>1 DEF PlayCurrentIndexSong
<1>2. CASE s.mSongs \notin {None, <<>>}
  <2>1. t \in Service /\ ~t.npe
    BY <1>2, LocalList DEF Serviceable, Service, Lists
  <2> QED BY <1>2, <2>1, PrepareServiceable DEF PlayCurrentIndexSong
<1> QED BY <1>1, <1>2

(* The end of a track, for any player that ended it.                           *)
LEMMA CompletedServiceable ==
  ASSUME NEW s \in Service, Serviceable(s), NEW p \in Players, NEW ok \in BOOLEAN
  PROVE  Serviceable(Completed(s, p, ok))
<1> DEFINE c == [s EXCEPT !.currentState = "completed"]
<1>1. c \in Service /\ Serviceable(c) /\ c.mCurrentIndex \in Positions
  BY DEF Serviceable, Service, IsPlayInback
<1>2. ASSUME c.mSongs \notin {None, <<>>} PROVE Serviceable(PlayNextSong(c, p, ok))
  <2> DEFINE next == IF c.mCurrentIndex + 1 >= Len(c.mSongs) THEN 0
                     ELSE c.mCurrentIndex + 1
             d == [c EXCEPT !.mCurrentIndex = next]
  <2>1. next \in Positions
    BY <1>1, <1>2, LocalList DEF Service, Lists
  <2>2. d \in Service /\ Serviceable(d)
    <3>1. d \in Service
      BY <1>1, <2>1, IndexType
    <3> HIDE DEF c
    <3>2. /\ d.npe = c.npe /\ d.mMediaPlayer = c.mMediaPlayer /\ d.mp = c.mp
          /\ d.mCurrentSong = c.mCurrentSong /\ d.currentState = c.currentState
      BY <1>1 DEF Service
    <3> HIDE DEF d
    <3>3. Serviceable(d)
      BY <1>1, <3>2 DEF Serviceable, IsPlayInback
    <3> QED BY <3>1, <3>3
  <2>3. StopPlayBack(d) \in Service /\ Serviceable(StopPlayBack(d))
    BY <2>2, StopPlayBackType, ControlServiceable
  <2> QED BY <2>1, <2>3, PlayCurrentServiceable DEF PlayNextSong
<1>3. Serviceable(PlayCurrentIndexSong(c, c.mCurrentIndex, p, ok))
  BY <1>1, PlayCurrentServiceable
<1>4. \/ Completed(s, p, ok) = PlayCurrentIndexSong(c, c.mCurrentIndex, p, ok)
      \/ Completed(s, p, ok) = c
      \/ c.mSongs \notin {None, <<>>} /\ Completed(s, p, ok) = PlayNextSong(c, p, ok)
  BY DEF Completed
<1> QED BY <1>1, <1>2, <1>3, <1>4

(* A song of the server; and the prepared and the failed player of the shared  *)
(* listeners, which exist only with a player.                                  *)
LEMMA HandlerServiceable ==
  ASSUME NEW s \in Service, Serviceable(s), NEW p \in Players
  PROVE  /\ \A song \in Songs, ok \in BOOLEAN : Serviceable(PlaySong(s, song, p, ok))
         /\ s.mMediaPlayer # None =>
              /\ \A behind \in BOOLEAN : Serviceable(OnPrepared(s, behind))
              /\ Serviceable(OnErrorUnknown(s, p))
         /\ Serviceable(Abandon(s))
<1>1. ASSUME NEW song \in Songs, NEW ok \in BOOLEAN
      PROVE  Serviceable(PlaySong(s, song, p, ok))
  <2> DEFINE r == StopPlayBack(s)
             t == [r EXCEPT !.mSongs = IF @ = None THEN None ELSE <<>>,
                            !.mCurrentSong = song]
  <2>1. r \in Service /\ ~r.npe
    BY StopPlayBackType, ControlServiceable DEF Serviceable
  <2>2. t \in Service /\ ~t.npe
    BY <2>1, SongChosen
  <2> QED BY <2>2, PrepareServiceable DEF PlaySong
<1>2. ASSUME s.mMediaPlayer # None, NEW behind \in BOOLEAN
      PROVE  Serviceable(OnPrepared(s, behind))
  <2> DEFINE t == [s EXCEPT !.currentState = "prepared"]
  <2>1. t \in Service /\ Serviceable(t)
    BY <1>2 DEF Serviceable, Service
  <2>2. SeekTo(t) \in Service /\ Serviceable(SeekTo(t))
    BY <2>1, ControlType, ControlServiceable
  <2>3. Serviceable(Start(t)) /\ Serviceable(Start(SeekTo(t)))
    BY <2>1, <2>2, ControlServiceable
  <2>4. OnPrepared(s, behind) \in {Start(t), Start(SeekTo(t))}
    BY DEF OnPrepared
  <2> QED BY <2>3, <2>4
<1>3. ASSUME s.mMediaPlayer # None PROVE Serviceable(OnErrorUnknown(s, p))
  BY <1>3, ServiceAssumption DEF OnErrorUnknown, Serviceable, Service
<1>4. Serviceable(Abandon(s))
  BY DEF Abandon, Serviceable, Service, IsPlayInback
<1> QED BY <1>1, <1>2, <1>3, <1>4

(* Taking an event, and posting one, change no listener.                       *)
LEMMA EventServiceable ==
  ASSUME music \in Service, Serviceable(music), NEW q \in Players
  PROVE  /\ music.mp[q].events # <<>> => Serviceable(Taken(q))
         /\ \A kind : Heard(q, kind) => music.mMediaPlayer # None
         /\ Taken(q).mMediaPlayer = music.mMediaPlayer
         /\ \A st, e : PostBy(q, st, e) => Serviceable(music')
<1>1. music.mp \in [Players -> Player]
  BY DEF Service
<1>2. Serviceable(Taken(q)) /\ Taken(q).mMediaPlayer = music.mMediaPlayer
  BY <1>1 DEF Taken, Serviceable, Service, Player, IsPlayInback
<1>3. \A kind : Heard(q, kind) => music.mMediaPlayer # None
  BY DEF Heard, Serviceable
<1>4. ASSUME NEW st, NEW e, PostBy(q, st, e) PROVE Serviceable(music')
  BY <1>1, <1>4 DEF PostBy, Only, Post, Serviceable, Service, Player, IsPlayInback
<1> QED BY <1>2, <1>3, <1>4
------------------------------------------------------------------------------
(* The list that a click gives the service.                                    *)
LEMMA ListServiceable ==
  ASSUME NEW s \in Service, Serviceable(s), NEW list \in Lists, NEW pos \in Positions
  PROVE  /\ [s EXCEPT !.mSongs = list] \in Service
         /\ Serviceable([s EXCEPT !.mSongs = list])
         /\ Serviceable([s EXCEPT !.mSongs = list, !.mCurrentIndex = pos])
         /\ [s EXCEPT !.mSongs = list, !.mCurrentIndex = pos] \in Service
BY DEF Serviceable, Service, IsPlayInback

(* Nothing the user does leaves a running service without what it needs.       *)
LEMMA UserStepServiceable ==
  TypeOK /\ ServiceableInv /\ Alive /\ UserStep => ServiceableInv'
<1> SUFFICES ASSUME TypeOK, ServiceableInv, Alive, UserStep PROVE ServiceableInv'
  OBVIOUS
<1>1. music \in Service /\ phase \in Phases
  BY DEF TypeOK
<1>2. phase \in {"starting", "running"} => Serviceable(music)
  BY DEF ServiceableInv, Alive
<1>3. ASSUME phase' = phase, phase \in {"starting", "running"} => Serviceable(music')
      PROVE  ServiceableInv'
  BY <1>3 DEF ServiceableInv
<1>4. ASSUME phase' = phase, phase = "starting" /\ music'.npe PROVE ServiceableInv'
  BY <1>4 DEF ServiceableInv
<1>5. ASSUME UNCHANGED <<music, phase>> PROVE ServiceableInv'
  BY <1>2, <1>3, <1>5
<1> DEFINE listed == [music EXCEPT !.mSongs = LocalSongs]
<1>6. ASSUME phase = "running" PROVE \A pos : Serviceable(SwitchNextSong(listed, pos))
  <2>1. LocalSongs \in Lists /\ 0 \in Positions
    BY LocalList DEF Lists
  <2>2. listed \in Service /\ Serviceable(listed)
    BY <1>1, <1>2, <1>6, <2>1, ListServiceable
  <2> QED BY <2>2, ControlServiceable
<1>7. ASSUME NEW pos \in Positions, ClickSong(pos) PROVE ServiceableInv'
  BY <1>3, <1>5, <1>6, <1>7 DEF ClickSong
<1>8. CASE ClickPlayPause
  <2>1. CASE Only(IF IsPlaying(music) THEN Pause(music) ELSE Start(music))
    BY <1>1, <1>2, <1>3, <2>1, ControlServiceable DEF Only
  <2>2. CASE music' = SwitchNextSong(listed, music.quit.index) /\ phase' = phase
    BY <1>3, <1>6, <1>8, <2>2 DEF ClickPlayPause, Running
  <2> QED BY <1>8, <2>1, <2>2 DEF ClickPlayPause
<1>9. CASE HeadsetUnplugged
  <2>1. CASE phase = "starting" /\ Only([music EXCEPT !.npe = TRUE])
    <3>1. music'.npe /\ phase' = phase
      BY <1>1, <2>1 DEF Only, Service
    <3> QED BY <1>4, <2>1, <3>1
  <2>2. CASE phase = "running" /\ Only(Pause(music))
    BY <1>1, <1>2, <1>3, <2>2, ControlServiceable DEF Only
  <2> QED BY <1>9, <2>1, <2>2 DEF HeadsetUnplugged
<1>10. CASE OpenLyric
  <2>1. CASE phase = "starting"
    <3>1. music'.npe /\ phase' = phase
      BY <1>1, <1>10, <2>1 DEF OpenLyric, Service
    <3> QED BY <1>4, <2>1, <3>1
  <2>2. CASE phase = "running"
    BY <1>1, <1>2, <1>3, <1>10, <2>2, ControlServiceable DEF OpenLyric
  <2> QED BY <1>10, <2>1, <2>2 DEF OpenLyric
<1>11. CASE ReloadList \/ CloseLyric
  BY <1>5, <1>11 DEF ReloadList, CloseLyric
<1>12. CASE LyricPlay \/ LyricSeek \/ LyricMode
  <2>1. phase' = phase /\ music' \in {Pause(music), Start(music), SeekTo(music),
                                     SwitchNextPlayMode(music)}
    BY <1>12 DEF LyricPlay, LyricSeek, LyricMode, Only
  <2> QED BY <1>1, <1>2, <1>3, <2>1, ControlServiceable
<1> QED BY <1>7, <1>8, <1>9, <1>10, <1>11, <1>12 DEF UserStep

(* What the looper handles finds a player wherever it needs one.               *)
LEMMA LooperStepServiceable ==
  TypeOK /\ ServiceableInv /\ Alive /\ LooperStep => ServiceableInv'
<1> SUFFICES ASSUME TypeOK, ServiceableInv, Alive, LooperStep PROVE ServiceableInv'
  OBVIOUS
<1>1. music \in Service
  BY DEF TypeOK
<1>2. phase \in {"starting", "running"} => Serviceable(music)
  BY DEF ServiceableInv, Alive
<1>3. ASSUME phase' = phase, phase \in {"starting", "running"} => Serviceable(music')
      PROVE  ServiceableInv'
  BY <1>3 DEF ServiceableInv
<1>4. CASE StartCommand
  <2> DEFINE i == Head(intents)
             s == [Abandon(music) EXCEPT !.mSongs = i.list, !.mCurrentIndex = i.pos]
  <2>1. i \in Intents /\ Serviceable(music) /\ phase' = "running"
    BY <1>2, <1>4 DEF StartCommand, TypeOK
  <2>2. i.list \in Lists /\ i.pos \in Positions
    BY <2>1, LocalList DEF Intents, HomeIntent, Lists
  <2>3. PICK p \in Players, ok \in BOOLEAN : music' = PlayCurrentIndexSong(s, i.pos, p, ok)
    BY <1>4 DEF StartCommand, Free
  <2>4. Abandon(music) \in Service /\ Serviceable(Abandon(music))
    BY <1>1, <2>1, HandlerType, HandlerServiceable
  <2>5. s \in Service /\ Serviceable(s)
    BY <2>2, <2>4, ListServiceable
  <2>6. Serviceable(music')
    BY <2>2, <2>3, <2>5, PlayCurrentServiceable
  <2> QED BY <2>1, <2>6 DEF ServiceableInv
<1>5. CASE SwitchFires
  <2> DEFINE s == [Abandon(music) EXCEPT !.switchNext = None]
  <2>1. SUFFICES ASSUME phase \in {"starting", "running"} PROVE Serviceable(music')
    BY <1>3, <1>5 DEF SwitchFires, Only
  <2>2. PICK p \in Players, ok \in BOOLEAN :
          Only(PlayCurrentIndexSong(s, music.switchNext, p, ok))
    BY <1>5 DEF SwitchFires, Free
  <2>3. Abandon(music) \in Service /\ Serviceable(Abandon(music))
    BY <1>1, <1>2, <2>1, HandlerType, HandlerServiceable
  <2>4. s \in Service /\ Serviceable(s)
    BY <2>3 DEF Service, Serviceable, IsPlayInback
  <2>5. music.switchNext \in Positions
    BY <1>1, <1>5 DEF SwitchFires, Service
  <2> QED BY <2>2, <2>4, <2>5, PlayCurrentServiceable DEF Only
<1>6. CASE LyricTick
  BY <1>1, <1>2, <1>3, <1>6, ControlServiceable DEF LyricTick, Only
<1>7. ASSUME NEW song \in ServerSongs, ServerAnswers(song) PROVE ServiceableInv'
  <2>1. song \in Songs
    BY ServiceAssumption
  <2>2. phase' = phase
    BY <1>7 DEF ServerAnswers
  <2>3. phase \in {"starting", "running"} => Serviceable(music')
    BY <1>1, <1>2, <1>7, <2>1, HandlerServiceable DEF ServerAnswers, Free
  <2> QED BY <1>3, <2>2, <2>3
<1>8. ASSUME NEW q \in Players, HandlePrepared(q) PROVE ServiceableInv'
  <2>1. PICK behind \in BOOLEAN : Only(OnPrepared(Taken(q), behind))
    BY <1>8 DEF HandlePrepared
  <2>2. SUFFICES ASSUME phase \in {"starting", "running"}
                 PROVE  Serviceable(OnPrepared(Taken(q), behind))
    BY <1>3, <2>1 DEF Only
  <2>3. Taken(q) \in Service
    BY <1>1, <1>8, TakenType DEF HandlePrepared, Heard
  <2>4. Serviceable(Taken(q)) /\ Taken(q).mMediaPlayer # None
    BY <1>1, <1>2, <1>8, <2>2, EventServiceable DEF HandlePrepared, Heard
  <2> QED BY <2>3, <2>4, HandlerServiceable
<1>9. ASSUME NEW q \in Players, HandleCompletion(q) PROVE ServiceableInv'
  <2>1. PICK p \in Players, ok \in BOOLEAN : Only(Completed(Taken(q), p, ok))
    BY <1>9 DEF HandleCompletion, Free
  <2>2. SUFFICES ASSUME phase \in {"starting", "running"}
                 PROVE  Serviceable(Completed(Taken(q), p, ok))
    BY <1>3, <2>1 DEF Only
  <2>3. Taken(q) \in Service /\ Serviceable(Taken(q))
    BY <1>1, <1>2, <1>9, <2>2, TakenType, EventServiceable DEF HandleCompletion, Heard
  <2> QED BY <2>3, CompletedServiceable
<1>10. ASSUME NEW q \in Players, HandleUnknown(q) PROVE ServiceableInv'
  <2>1. PICK p \in Players :
          LET s == OnErrorUnknown(Taken(q), p) IN
          IF s.mp[q].heard /\ ~s.npe
          THEN \E r \in Free(s), ok \in BOOLEAN : Only(Completed(s, r, ok))
          ELSE Only(s)
    BY <1>10 DEF HandleUnknown, Free
  <2> DEFINE s == OnErrorUnknown(Taken(q), p)
  <2>2. PICK t : Only(t) /\ (t = s \/ \E r \in Players, ok \in BOOLEAN : t = Completed(s, r, ok))
    BY <2>1 DEF Free
  <2>3. SUFFICES ASSUME phase \in {"starting", "running"} PROVE Serviceable(t)
    BY <1>3, <2>2 DEF Only
  <2>4. Taken(q) \in Service
    BY <1>1, <1>10, TakenType DEF HandleUnknown, Heard
  <2>5. Serviceable(Taken(q)) /\ Taken(q).mMediaPlayer # None
    BY <1>1, <1>2, <1>10, <2>3, EventServiceable DEF HandleUnknown, Heard
  <2>6. s \in Service /\ Serviceable(s)
    BY <2>4, <2>5, HandlerType, HandlerServiceable
  <2> QED BY <2>2, <2>6, CompletedServiceable
<1>11. ASSUME NEW q \in Players, IgnoreEvent(q) PROVE ServiceableInv'
  BY <1>1, <1>2, <1>3, <1>11, EventServiceable DEF IgnoreEvent, Only
<1> QED BY <1>4, <1>5, <1>6, <1>7, <1>8, <1>9, <1>10, <1>11 DEF LooperStep

(* Every step leaves a service that runs with what it needs.                   *)
LEMMA StepServiceable == TypeOK /\ ServiceableInv /\ [Next]_vars => ServiceableInv'
<1> SUFFICES ASSUME TypeOK, ServiceableInv, [Next]_vars PROVE ServiceableInv'
  OBVIOUS
<1>1. music \in Service
  BY DEF TypeOK
<1>2. CASE UserStep
  <2>1. Alive
    BY <1>2 DEF UserStep, ClickSong, ClickPlayPause, Running, HeadsetUnplugged, ReloadList,
                OpenLyric, CloseLyric, LyricPlay, LyricSeek, LyricMode
  <2> QED BY <1>2, <2>1, UserStepServiceable
<1>3. CASE FollowStep
  <2>1. phase' = phase /\ music' \in {music, Pause(music), Start(music)}
        /\ phase = "running"
    BY <1>3 DEF FollowStep, FollowPause, FollowPlay, PlaySongFromServer, Only, Running
  <2> QED BY <1>1, <2>1, ControlServiceable DEF ServiceableInv
<1>4. CASE LooperStep
  <2>1. Alive
    BY <1>4 DEF LooperStep, StartCommand, SwitchFires, LyricTick, ServerAnswers,
                HandlePrepared, HandleCompletion, HandleUnknown, IgnoreEvent, Heard
  <2> QED BY <1>4, <2>1, LooperStepServiceable
<1>5. CASE PlayerStep
  <2>1. \E q \in Players : \E st, e : PostBy(q, st, e)
    BY <1>5 DEF PlayerStep, PrepareDone, PrepareFails, TrackEnds, PlayFails
  <2> PICK q \in Players : \E st, e : PostBy(q, st, e)
    BY <2>1
  <2> PICK st, e : PostBy(q, st, e)
    OBVIOUS
  <2>2. Serviceable(music) => Serviceable(music')
    BY <1>1, EventServiceable
  <2>3. phase' = phase /\ ~music.npe
    BY DEF PostBy, Only, Alive
  <2> QED BY <2>2, <2>3 DEF ServiceableInv
<1>6. CASE LifeStep
  <2>1. CASE Kill \/ OnDestroy
    BY <2>1 DEF Kill, OnDestroy, ServiceableInv
  <2>2. CASE Restart
    BY <2>2 DEF Restart, ServiceableInv, Serviceable, Fresh, NewPlayer, IsPlayInback
  <2> QED BY <1>6, <2>1, <2>2 DEF LifeStep
<1>7. CASE UNCHANGED vars
  BY <1>7 DEF vars, ServiceableInv
<1> QED BY <1>2, <1>3, <1>4, <1>5, <1>6, <1>7 DEF Next

(* No call, message, event or answer makes a running service throw, however    *)
(* often players were faulted, abandoned or released before.                   *)
THEOREM NeverCrashesWhileRunning == Spec => []NoCrashWhileRunning
<1>1. Init => ServiceableInv
  BY DEF Init, InitWith, ServiceableInv, Serviceable, Fresh, NewPlayer, IsPlayInback
<1>2. ServiceableInv => NoCrashWhileRunning
  BY DEF ServiceableInv, Serviceable, NoCrashWhileRunning
<1> QED BY <1>1, <1>2, StepServiceable, TypeCorrect, PTL DEF Spec
------------------------------------------------------------------------------
(* What sounds is known to the buttons and the preferences.                    *)
Known(s) ==
    s.mCurrentSong # None /\ IsPlaying(s) /\ s.quit.song = s.mCurrentSong

Reported(s) == ~s.disturbed => \A q \in Players : Sounding(s.mp[q]) => Known(s)

(* Why the buttons and the preferences of SoundIsShown are right: start()      *)
(* notifies of a song that is not null, so that onPrepared, which calls it     *)
(* after it changed currentState, never leaves a sound unreported.             *)
ReportedInv == Reported(music)

(* Where nothing sounds nothing is to be reported.                             *)
LEMMA QuietReported ==
  ASSUME NEW s, AllQuiet(s)
  PROVE  Reported(s)
BY DEF AllQuiet, Reported, Quiet

(* It is about five fields.                                                    *)
LEMMA FrameReported ==
  ASSUME NEW s, NEW t, Reported(s), t.mp = s.mp, t.mCurrentSong = s.mCurrentSong,
         t.currentState = s.currentState, t.quit = s.quit,
         t.disturbed = s.disturbed
  PROVE  Reported(t)
BY DEF Reported, Known, IsPlaying

(* start() notifies, or finds no song, and then nothing sounds; and after     *)
(* pause() nothing does.                                                       *)
LEMMA StartReported ==
  ASSUME NEW s \in Service, Disciplined(s), s.mCurrentSong = None => Reported(s)
  PROVE  Reported(Start(s))
<1>1. CASE s.mCurrentSong = None
  BY <1>1 DEF Start
<1>2. CASE s.mCurrentSong # None /\ s.mMediaPlayer = None
  <2>1. AllQuiet(s)
    BY <1>2, ServiceAssumption DEF Disciplined, AllQuiet
  <2>2. Start(s) = [s EXCEPT !.npe = TRUE]
    BY <1>2 DEF Start
  <2>3. AllQuiet(Start(s))
    BY <2>1, <2>2, FrameDiscipline DEF Service
  <2> QED BY <2>3, QuietReported
<1>3. CASE s.mCurrentSong # None /\ s.mMediaPlayer # None
  <2> DEFINE t == PlayerStart(s)
  <2>1. t \in Service /\ t.mCurrentSong = s.mCurrentSong
    BY <1>3, PlayerStartType DEF PlayerStart, Fault, Service
  <2> HIDE DEF t
  <2>4. Known(NotifyPlaying(t))
    BY <1>3, <2>1 DEF Known, IsPlaying, NotifyPlaying, Service
  <2>5. Start(s) = NotifyPlaying(t)
    BY <1>3 DEF Start, t
  <2> QED BY <2>4, <2>5 DEF Reported
<1> QED BY <1>1, <1>2, <1>3

LEMMA PauseReported ==
  ASSUME NEW s \in Service, Disciplined(s), Reported(s)
  PROVE  Reported(Pause(s))
<1>1. CASE s.mMediaPlayer = None
  BY <1>1 DEF Pause
<1>2. CASE s.mMediaPlayer # None
  <2> DEFINE t == PlayerPause(s)
             cur == s.mMediaPlayer
  <2>1. t \in Service /\ Disciplined(t) /\ t.mMediaPlayer = cur
    BY <1>2, PlayerPauseType, PlayerPauseDiscipline DEF PlayerPause, Fault, Service
  <2>2. ~t.disturbed => ~Sounding(t.mp[cur])
    <3>1. CASE Current(s).st \in Pausable
      <4> DEFINE m == s.mp[cur]
                 st == IF m.st = "started" THEN "paused" ELSE m.st
      <4>1. t = [s EXCEPT !.mp[cur].st = st]
        BY <3>1 DEF PlayerPause, Current
      <4>2. cur \in Players /\ s.mp \in [Players -> Player] /\ m \in Player
        BY <1>2, CurrentType
      <4>3. t.mp[cur] = [m EXCEPT !.st = st]
        BY <4>1, <4>2 DEF Service
      <4> QED BY <4>2, <4>3 DEF Sounding, Player
    <3>2. CASE Current(s).st \notin Pausable
      BY <3>2, FaultDisturbs DEF PlayerPause
    <3> QED BY <3>1, <3>2
  <2>3. ~t.disturbed => \A q \in Players : ~Sounding(t.mp[q])
    BY <2>1, <2>2 DEF Disciplined, Quiet
  <2> HIDE DEF t
  <2>4. NotifyPause(t).mp = t.mp /\ NotifyPause(t).disturbed = t.disturbed
    BY <2>1, NotifyFrame
  <2>5. Pause(s) = NotifyPause(t)
    BY <1>2 DEF Pause, t
  <2> QED BY <2>3, <2>4, <2>5 DEF Reported
<1> QED BY <1>1, <1>2

(* A seek, a look at the progress and the mode change nothing it is about, or *)
(* disturb.                                                                    *)
LEMMA ControlReported ==
  ASSUME NEW s \in Service
  PROVE  /\ Reported(s) => /\ Reported(ReadProgress(s)) /\ Reported(SwitchNextPlayMode(s))
                           /\ Reported([s EXCEPT !.npe = TRUE])
         /\ SeekTo(s).mCurrentSong = s.mCurrentSong
         /\ Reported(s) => Reported(SeekTo(s))
<1>1. Reported(Fault(s)) /\ Fault(s).mCurrentSong = s.mCurrentSong
  BY FaultDisturbs DEF Reported, Fault, Service
<1>2. Reported(s) => Reported([s EXCEPT !.npe = TRUE])
  BY FrameReported DEF Service
<1>3. Reported(s) => Reported(SwitchNextPlayMode(s))
  BY FrameReported DEF SwitchNextPlayMode, Service
<1>4. Reported(s) => Reported(ReadProgress(s))
  BY <1>1, <1>2 DEF ReadProgress
<1>5. Reported(s) => Reported(SeekTo(s))
  BY <1>1 DEF SeekTo
<1>6. SeekTo(s).mCurrentSong = s.mCurrentSong
  BY <1>1 DEF SeekTo
<1> QED BY <1>2, <1>3, <1>4, <1>5, <1>6

(* The listener: with a song it is start() that reports; without one nothing  *)
(* sounds, since what sounds was reported with a song.                         *)
LEMMA OnPreparedReported ==
  ASSUME NEW s \in Service, NEW behind \in BOOLEAN, Disciplined(s), Reported(s)
  PROVE  Reported(OnPrepared(s, behind))
<1> DEFINE t == [s EXCEPT !.currentState = "prepared"]
<1>1. /\ t \in Service /\ t.mp = s.mp /\ t.mMediaPlayer = s.mMediaPlayer
      /\ t.mCurrentSong = s.mCurrentSong /\ t.disturbed = s.disturbed
  BY DEF Service
<1> HIDE DEF t
<1>2. Disciplined(t)
  BY <1>1, FrameDiscipline
<1>3. t.mCurrentSong = None => Reported(t)
  BY <1>1 DEF Reported, Known
<1>4. /\ SeekTo(t) \in Service /\ Disciplined(SeekTo(t))
      /\ SeekTo(t).mCurrentSong = None => Reported(SeekTo(t))
  BY <1>1, <1>2, <1>3, ControlType, ControlDiscipline, ControlReported
<1>5. Reported(Start(t)) /\ Reported(Start(SeekTo(t)))
  BY <1>1, <1>2, <1>3, <1>4, StartReported
<1> QED BY <1>5 DEF OnPrepared, t

(* A song that is prepared replaces one that was quiet.                        *)
LEMMA PrepareReported ==
  ASSUME NEW s \in Service, NEW pos \in Positions, NEW p \in Players, NEW ok \in BOOLEAN,
         AllQuiet(s)
  PROVE  /\ Reported(PrepareToPlay(s, p, ok))
         /\ Reported(PlayCurrentIndexSong(s, pos, p, ok))
<1>1. ASSUME NEW r \in Service, AllQuiet(r) PROVE Reported(PrepareToPlay(r, p, ok))
  <2> DEFINE t == PrepareToPlay(r, p, ok)
  <2>1. t.disturbed = r.disturbed
    BY DEF PrepareToPlay, Service
  <2>2. \A q \in Players : \/ t.mp[q] = Preparing(r.mCurrentSong)
                           \/ t.mp[q] = NewPlayer(TRUE) \/ t.mp[q] = NewPlayer(FALSE)
                           \/ t.mp[q] = r.mp[q]
    BY DEF PrepareToPlay, Service
  <2>3. ~r.disturbed => \A q \in Players : ~Sounding(r.mp[q])
    BY <1>1 DEF AllQuiet, Quiet
  <2>4. /\ \A h \in BOOLEAN : ~Sounding(NewPlayer(h))
        /\ ~Sounding(Preparing(r.mCurrentSong))
    BY DEF Sounding, NewPlayer, Preparing
  <2> QED BY <2>1, <2>2, <2>3, <2>4 DEF Reported
<1>2. CASE s.mSongs \in {None, <<>>}
  BY <1>1, <1>2, QuietReported DEF PlayCurrentIndexSong
<1>3. CASE s.mSongs \notin {None, <<>>}
  <2> DEFINE t == [s EXCEPT !.mCurrentIndex = pos, !.mCurrentSong = s.mSongs[pos + 1]]
  <2>1. s.mSongs = LocalSongs
    BY <1>3 DEF Service, Lists
  <2>2. t \in Service /\ AllQuiet(t)
    BY <2>1, LocalList DEF Service, AllQuiet
  <2> QED BY <1>1, <1>3, <2>2 DEF PlayCurrentIndexSong
<1> QED BY <1>1, <1>2, <1>3

(* So do the next song at the end of a track, and the song of a friend.        *)
LEMMA NextReported ==
  ASSUME NEW s \in Service, NEW p \in Players, NEW ok \in BOOLEAN, Disciplined(s)
  PROVE  /\ AllQuiet(s) => Reported(Completed(s, p, ok))
         /\ \A song \in Songs : Reported(PlaySong(s, song, p, ok))
<1>1. ASSUME AllQuiet(s) PROVE Reported(Completed(s, p, ok))
  <2> DEFINE c == [s EXCEPT !.currentState = "completed"]
             next == IF c.mCurrentIndex + 1 >= Len(c.mSongs) THEN 0 ELSE c.mCurrentIndex + 1
             d == [c EXCEPT !.mCurrentIndex = next]
  <2>1. c \in Service /\ c.mCurrentIndex \in Positions /\ AllQuiet(c) /\ Disciplined(c)
    BY <1>1, FrameDiscipline DEF Service
  <2> HIDE DEF c
  <2>2. ASSUME c.mSongs \notin {None, <<>>} PROVE Reported(PlayNextSong(c, p, ok))
    <3>1. next \in Positions
      BY <2>1, <2>2, LocalList DEF Service, Lists
    <3> HIDE DEF next
    <3>2. d \in Service
      BY <2>1, <3>1, IndexType
    <3>3. /\ d.mp = c.mp /\ d.mMediaPlayer = c.mMediaPlayer
          /\ d.mCurrentSong = c.mCurrentSong /\ d.disturbed = c.disturbed
      BY <2>1 DEF Service
    <3> HIDE DEF d
    <3>4. Disciplined(d)
      BY <2>1, <3>3, FrameDiscipline
    <3>5. StopPlayBack(d) \in Service /\ AllQuiet(StopPlayBack(d))
      BY <3>2, <3>4, StopPlayBackType, StopDiscipline
    <3> QED BY <3>1, <3>5, PrepareReported DEF PlayNextSong, next, d
  <2>3. Reported(c) /\ Reported(PlayCurrentIndexSong(c, c.mCurrentIndex, p, ok))
    BY <2>1, QuietReported, PrepareReported
  <2> QED BY <2>2, <2>3 DEF Completed, c
<1>2. ASSUME NEW song \in Songs PROVE Reported(PlaySong(s, song, p, ok))
  <2> DEFINE r == StopPlayBack(s)
             t == [r EXCEPT !.mSongs = IF @ = None THEN None ELSE <<>>, !.mCurrentSong = song]
  <2>1. r \in Service /\ AllQuiet(r)
    BY StopPlayBackType, StopDiscipline
  <2>2. t \in Service /\ AllQuiet(t)
    BY <2>1, SongChosen DEF AllQuiet
  <2>3. 0 \in Positions
    BY LocalList
  <2> QED BY <2>2, <2>3, PrepareReported DEF PlaySong
<1> QED BY <1>1, <1>2

(* An event taken changes no state of a player; one that its threads post ends *)
(* the sound of it.                                                            *)
LEMMA EventReported ==
  ASSUME music \in Service, Reported(music), NEW q \in Players
  PROVE  /\ music.mp[q].events # <<>> => Reported(Taken(q))
         /\ \A st \in PlayerStates \ {"started"}, e \in Events :
              PostBy(q, st, e) => Reported(music')
<1>1. music.mp \in [Players -> Player] /\ music.mp[q] \in Player
  BY DEF Service
<1>2. ASSUME NEW t, NEW n, t = [music EXCEPT !.mp[q] = n], Sounding(n) => Sounding(music.mp[q])
      PROVE  Reported(t)
  <2>1. /\ t.mCurrentSong = music.mCurrentSong /\ t.currentState = music.currentState
        /\ t.quit = music.quit /\ t.disturbed = music.disturbed
        /\ t.mp = [music.mp EXCEPT ![q] = n]
    BY <1>2 DEF Service
  <2>2. \A r \in Players : Sounding(t.mp[r]) => Sounding(music.mp[r])
    BY <1>1, <1>2, <2>1
  <2> QED BY <2>1, <2>2 DEF Reported, Known, IsPlaying
<1>3. Reported(Taken(q))
  <2> DEFINE n == [music.mp[q] EXCEPT !.events = Tail(@)]
  <2>1. n.st = music.mp[q].st
    BY <1>1 DEF Player
  <2>2. Taken(q) = [music EXCEPT !.mp[q] = n]
    BY <1>1 DEF Taken, Service
  <2> QED BY <1>2, <2>1, <2>2 DEF Sounding
<1>4. ASSUME NEW st \in PlayerStates \ {"started"}, NEW e \in Events, PostBy(q, st, e)
      PROVE  Reported(music')
  <2> DEFINE n == [Post(music.mp[q], st, e) EXCEPT !.loading = FALSE]
  <2>1. n.st = st
    BY <1>1 DEF Post, Player
  <2>2. music' = [music EXCEPT !.mp[q] = n]
    BY <1>4 DEF PostBy, Only
  <2>3. ~Sounding(n)
    BY <2>1 DEF Sounding
  <2> HIDE DEF n
  <2> QED BY <1>2, <2>2, <2>3
<1> QED BY <1>3, <1>4

(* What the looper handles: every song that is prepared finds the players      *)
(* quiet, and of the events only "prepared" leads to a sound.                  *)
LEMMA LooperStepReported ==
  TypeOK /\ Discipline /\ Reported(music) /\ LooperStep => Reported(music')
<1> SUFFICES ASSUME TypeOK, Disciplined(music), Reported(music), LooperStep
             PROVE  Reported(music')
  BY DEF Discipline
<1>1. music \in Service
  BY DEF TypeOK
<1>2. Abandon(music) \in Service /\ AllQuiet(Abandon(music)) /\ Disciplined(Abandon(music))
  <2>1. Abandon(music) \in Service
    BY <1>1 DEF Abandon, Service
  <2> QED BY <1>1, <2>1, AbandonDiscipline
<1>3. CASE StartCommand
  <2> DEFINE i == Head(intents)
             s == [Abandon(music) EXCEPT !.mSongs = i.list, !.mCurrentIndex = i.pos]
  <2>1. i.list \in Lists /\ i.pos \in Positions
    BY <1>3, LocalList DEF StartCommand, TypeOK, Intents, HomeIntent, Lists
  <2>2. s \in Service
    BY <1>2, <2>1 DEF Service
  <2>3. AllQuiet(s)
    BY <1>2, FrameDiscipline DEF Service
  <2>4. PICK p \in Players, ok \in BOOLEAN : music' = PlayCurrentIndexSong(s, i.pos, p, ok)
    BY <1>3 DEF StartCommand, Free
  <2> QED BY <2>1, <2>2, <2>3, <2>4, PrepareReported
<1>4. CASE SwitchFires
  <2> DEFINE s == [Abandon(music) EXCEPT !.switchNext = None]
  <2>1. s \in Service /\ music.switchNext \in Positions
    BY <1>1, <1>2, <1>4 DEF Service, SwitchFires
  <2>2. AllQuiet(s)
    BY <1>2, FrameDiscipline DEF Service
  <2>3. PICK p \in Players, ok \in BOOLEAN :
          music' = PlayCurrentIndexSong(s, music.switchNext, p, ok)
    BY <1>4 DEF SwitchFires, Only, Free
  <2> QED BY <2>1, <2>2, <2>3, PrepareReported
<1>5. CASE LyricTick
  BY <1>1, <1>5, ControlReported DEF LyricTick, Only
<1>6. ASSUME NEW song \in ServerSongs, ServerAnswers(song) PROVE Reported(music')
  <2>1. song \in Songs
    BY ServiceAssumption
  <2> QED BY <1>1, <1>6, <2>1, NextReported DEF ServerAnswers, Free
<1>7. ASSUME NEW q \in Players, music.mp[q].events # <<>>
      PROVE  /\ Taken(q) \in Service /\ Disciplined(Taken(q)) /\ Reported(Taken(q))
             /\ Head(music.mp[q].events) # "prepared" => AllQuiet(Taken(q))
             /\ ~Taken(q).disturbed => q = Taken(q).mMediaPlayer
  BY <1>1, <1>7, TakenType, TakenDiscipline, EventReported
<1>8. ASSUME NEW q \in Players, HandlePrepared(q) PROVE Reported(music')
  BY <1>7, <1>8, OnPreparedReported DEF HandlePrepared, Heard, Only
<1>9. ASSUME NEW q \in Players, HandleCompletion(q) PROVE Reported(music')
  <2>1. Taken(q) \in Service /\ AllQuiet(Taken(q)) /\ Disciplined(Taken(q))
    BY <1>7, <1>9 DEF HandleCompletion, Heard
  <2> QED BY <1>9, <2>1, NextReported DEF HandleCompletion, Only, Free
<1>10. ASSUME NEW q \in Players, HandleUnknown(q) PROVE Reported(music')
  <2>1. /\ Taken(q) \in Service /\ AllQuiet(Taken(q)) /\ Disciplined(Taken(q))
        /\ ~Taken(q).disturbed => q = Taken(q).mMediaPlayer
    BY <1>7, <1>10 DEF HandleUnknown, Heard
  <2>2. PICK p \in Players :
          LET s == OnErrorUnknown(Taken(q), p) IN
          IF s.mp[q].heard /\ ~s.npe
          THEN \E r \in Free(s), ok \in BOOLEAN : Only(Completed(s, r, ok))
          ELSE Only(s)
    BY <1>10 DEF HandleUnknown, Free
  <2> DEFINE s == OnErrorUnknown(Taken(q), p)
  <2>3. s \in Service /\ AllQuiet(s) /\ Disciplined(s)
    BY <2>1, HandlerType, OnErrorUnknownDiscipline
  <2> QED BY <2>2, <2>3, NextReported, QuietReported DEF Only, Free
<1>11. ASSUME NEW q \in Players, IgnoreEvent(q) PROVE Reported(music')
  BY <1>7, <1>11 DEF IgnoreEvent, Only
<1> QED BY <1>3, <1>4, <1>5, <1>6, <1>8, <1>9, <1>10, <1>11 DEF LooperStep

(* What the user does, what a friend orders and what the players' threads post. *)
LEMMA OtherStepReported ==
  TypeOK /\ Discipline /\ Reported(music) /\ (UserStep \/ FollowStep \/ PlayerStep)
    => Reported(music')
<1> SUFFICES ASSUME TypeOK, Disciplined(music), Reported(music),
                    UserStep \/ FollowStep \/ PlayerStep
             PROVE  Reported(music')
  BY DEF Discipline
<1>1. music \in Service
  BY DEF TypeOK
<1> DEFINE listed == [music EXCEPT !.mSongs = LocalSongs]
<1>2. \A pos : Reported(SwitchNextSong(listed, pos))
  <2>1. listed \in Service /\ Disciplined(listed)
    BY <1>1, FrameDiscipline DEF Service, Lists
  <2>2. AllQuiet(StopPlayBack(listed)) /\ StopPlayBack(listed) \in Service
    BY <2>1, StopDiscipline, StopPlayBackType
  <2>3. \A pos : AllQuiet(SwitchNextSong(listed, pos))
    BY <2>2, FrameDiscipline DEF SwitchNextSong, Service
  <2> QED BY <2>3, QuietReported
<1>3. /\ Reported(Start(music)) /\ Reported(Pause(music)) /\ Reported(SeekTo(music))
      /\ Reported(ReadProgress(music)) /\ Reported(SwitchNextPlayMode(music))
      /\ Reported([music EXCEPT !.npe = TRUE])
  BY <1>1, StartReported, PauseReported, ControlReported
<1>4. CASE UserStep
  <2>1. ASSUME NEW pos \in Positions, ClickSong(pos) PROVE Reported(music')
    BY <1>2, <2>1 DEF ClickSong
  <2>2. CASE ClickPlayPause
    BY <1>2, <1>3, <2>2 DEF ClickPlayPause, Only
  <2>3. CASE HeadsetUnplugged \/ OpenLyric
    BY <1>3, <2>3 DEF HeadsetUnplugged, OpenLyric, Only
  <2>4. CASE LyricPlay \/ LyricSeek \/ LyricMode
    BY <1>3, <2>4 DEF LyricPlay, LyricSeek, LyricMode, Only
  <2>5. CASE ReloadList \/ CloseLyric
    BY <2>5 DEF ReloadList, CloseLyric
  <2> QED BY <1>4, <2>1, <2>2, <2>3, <2>4, <2>5 DEF UserStep
<1>5. CASE FollowStep
  BY <1>3, <1>5 DEF FollowStep, FollowPause, FollowPlay, PlaySongFromServer, Only
<1>6. CASE PlayerStep
  <2>1. PICK q \in Players : \E st \in PlayerStates \ {"started"}, e \in Events : PostBy(q, st, e)
    BY <1>6 DEF PlayerStep, PrepareDone, PrepareFails, TrackEnds, PlayFails
  <2> QED BY <1>1, <2>1, EventReported
<1> QED BY <1>4, <1>5, <1>6

(* Every step reports what it makes sound.                                     *)
LEMMA StepReported == TypeOK /\ Discipline /\ ReportedInv /\ [Next]_vars => ReportedInv'
<1> SUFFICES ASSUME TypeOK, Discipline, ReportedInv, [Next]_vars
             PROVE  Reported(music')
  BY DEF ReportedInv
<1>1. music \in Service /\ Disciplined(music)
  BY DEF TypeOK, Discipline
<1>2. CASE UserStep \/ FollowStep \/ PlayerStep
  BY <1>2, OtherStepReported DEF ReportedInv
<1>3. CASE LooperStep
  BY <1>3, LooperStepReported DEF ReportedInv
<1>4. CASE LifeStep
  <2>1. CASE Kill
    <3>1. CASE music.mMediaPlayer = None
      BY <1>1, <2>1, <3>1, ServiceAssumption
         DEF Kill, KillMyself, ReportedInv, Running
    <3>2. CASE music.mMediaPlayer # None
      <4>1. /\ music'.mp = [music.mp EXCEPT ![music.mMediaPlayer] = Released]
            /\ music'.disturbed = music.disturbed
        BY <1>1, <2>1, <3>2 DEF Kill, KillMyself, Service
      <4>2. AllQuiet(music')
        BY <1>1, <3>2, <4>1, CurrentType, NewPlayerQuiet DEF AllQuiet, Disciplined
      <4> QED BY <4>2, QuietReported
    <3> QED BY <3>1, <3>2
  <2>2. CASE OnDestroy
    BY <2>2 DEF OnDestroy, ReportedInv
  <2>3. CASE Restart
    BY <2>3 DEF Restart, Fresh, Reported, NewPlayer, Sounding
  <2> QED BY <1>4, <2>1, <2>2, <2>3 DEF LifeStep
<1>5. CASE UNCHANGED vars
  BY <1>5 DEF vars, ReportedInv
<1> QED BY <1>2, <1>3, <1>4, <1>5 DEF Next

(* The player has been given a song, or is to fail with it.                    *)
Loaded(m) == m.st # "idle" \/ m.loading

(* Why the song shown is right: the screens are told of mCurrentSong with the  *)
(* player that is prepared for it, and a player of which they were not told,   *)
(* for setDataSource threw or it stands in for a released one, stays idle.     *)
Announced(s) ==
    ~s.disturbed /\ s.mMediaPlayer # None /\ Loaded(Current(s)) => s.bar = s.mCurrentSong

(* A step that shows no other song and loads no player.                        *)
SameShown(s, t) ==
    /\ t.mMediaPlayer = s.mMediaPlayer /\ t.bar = s.bar /\ t.mCurrentSong = s.mCurrentSong
    /\ ~t.disturbed => ~s.disturbed
    /\ ~t.disturbed /\ s.mMediaPlayer # None /\ Loaded(Current(t)) => Loaded(Current(s))

LEMMA SameAnnounced ==
  ASSUME NEW s, NEW t, NEW u, Announced(s), SameShown(s, t)
  PROVE  Announced(t) /\ (SameShown(t, u) => SameShown(s, u))
BY DEF SameShown, Announced

(* It is about five fields.                                                    *)
LEMMA FrameShown ==
  ASSUME NEW s, NEW t, t.mp = s.mp, t.mMediaPlayer = s.mMediaPlayer, t.bar = s.bar,
         t.mCurrentSong = s.mCurrentSong, t.disturbed = s.disturbed
  PROVE  SameShown(s, t)
BY DEF SameShown, Current

(* A player that is changed but not loaded.                                    *)
LEMMA PlayerShown ==
  ASSUME NEW s \in Service, NEW q \in Players, NEW m, Loaded(m) => Loaded(s.mp[q])
  PROVE  SameShown(s, [s EXCEPT !.mp[q] = m])
<1> DEFINE t == [s EXCEPT !.mp[q] = m]
<1>1. /\ s.mp \in [Players -> Player] /\ s.mMediaPlayer \in Players \cup {None}
      /\ t.mp = [s.mp EXCEPT ![q] = m] /\ t.mMediaPlayer = s.mMediaPlayer /\ t.bar = s.bar
      /\ t.mCurrentSong = s.mCurrentSong /\ t.disturbed = s.disturbed
  BY DEF Service
<1> HIDE DEF t
<1>2. s.mMediaPlayer # None /\ Loaded(Current(t)) => Loaded(Current(s))
  BY <1>1 DEF Current
<1> QED BY <1>1, <1>2 DEF SameShown, t

(* The controls: what they do to a player is only done to one that is loaded,  *)
(* or disturbs.                                                                *)
LEMMA ControlShown ==
  ASSUME NEW s \in Service
  PROVE  /\ SameShown(s, Start(s)) /\ SameShown(s, Pause(s)) /\ SameShown(s, SeekTo(s))
         /\ SameShown(s, ReadProgress(s)) /\ SameShown(s, SwitchNextPlayMode(s))
         /\ SameShown(s, [s EXCEPT !.npe = TRUE])
<1>1. SameShown(s, s) /\ SameShown(s, [s EXCEPT !.npe = TRUE])
      /\ SameShown(s, SwitchNextPlayMode(s))
  BY FrameShown DEF SwitchNextPlayMode, Service
<1>2. SameShown(s, Fault(s))
  <2>1. Fault(s).disturbed /\ Fault(s).mMediaPlayer = s.mMediaPlayer /\ Fault(s).bar = s.bar
        /\ Fault(s).mCurrentSong = s.mCurrentSong
    BY DEF Fault, Service
  <2> QED BY <2>1 DEF SameShown
<1>3. SameShown(s, SeekTo(s)) /\ SameShown(s, ReadProgress(s))
  BY <1>1, <1>2 DEF SeekTo, ReadProgress
<1>4. ASSUME NEW t \in Service, SameShown(s, t)
      PROVE  SameShown(s, NotifyPlaying(t)) /\ SameShown(s, NotifyPause(t))
  BY <1>4, NotifyFrame DEF SameShown, Current
<1>5. ASSUME s.mMediaPlayer # None PROVE SameShown(s, PlayerStart(s))
  <2> DEFINE cur == s.mMediaPlayer
             late == s.disturbed \/ (Current(s).st = "complete" /\ Current(s).events # <<>>)
             t == [s EXCEPT !.mp[cur].st = "started", !.disturbed = late]
  <2>1. CASE Current(s).st \in Startable
    <3>1. t.mMediaPlayer = s.mMediaPlayer /\ t.bar = s.bar /\ t.mCurrentSong = s.mCurrentSong
          /\ t.disturbed = late
      BY DEF Service
    <3>2. Loaded(Current(s))
      BY <2>1 DEF Loaded, Startable
    <3>3. PlayerStart(s) = t
      BY <2>1 DEF PlayerStart
    <3> HIDE DEF t
    <3> QED BY <3>1, <3>2, <3>3 DEF SameShown
  <2> QED BY <1>2, <2>1 DEF PlayerStart
<1>6. ASSUME s.mMediaPlayer # None PROVE SameShown(s, PlayerPause(s))
  <2> DEFINE cur == s.mMediaPlayer
             t == [s EXCEPT !.mp[cur].st = IF @ = "started" THEN "paused" ELSE @]
  <2>1. CASE Current(s).st \in Pausable
    <3>1. t.mMediaPlayer = s.mMediaPlayer /\ t.bar = s.bar /\ t.mCurrentSong = s.mCurrentSong
          /\ t.disturbed = s.disturbed
      BY DEF Service
    <3>2. Loaded(Current(s))
      BY <2>1 DEF Loaded, Pausable
    <3>3. PlayerPause(s) = t
      BY <2>1 DEF PlayerPause
    <3> HIDE DEF t
    <3> QED BY <3>1, <3>2, <3>3 DEF SameShown
  <2> QED BY <1>2, <2>1 DEF PlayerPause
<1>7. SameShown(s, Start(s)) /\ SameShown(s, Pause(s))
  BY <1>1, <1>4, <1>5, <1>6, PlayerStartType, PlayerPauseType DEF Start, Pause
<1> QED BY <1>1, <1>3, <1>7

LEMMA OnPreparedShown ==
  ASSUME NEW s \in Service, NEW behind \in BOOLEAN, Announced(s)
  PROVE  Announced(OnPrepared(s, behind))
<1> DEFINE t == [s EXCEPT !.currentState = "prepared"]
<1>1. t \in Service /\ SameShown(s, t)
  BY FrameShown DEF Service
<1> HIDE DEF t
<1>2. Announced(t) /\ SeekTo(t) \in Service
  BY <1>1, SameAnnounced, ControlType
<1>3. Announced(SeekTo(t)) /\ Announced(Start(t))
  BY <1>1, <1>2, SameAnnounced, ControlShown
<1>4. Announced(Start(SeekTo(t)))
  BY <1>2, <1>3, SameAnnounced, ControlShown
<1> QED BY <1>3, <1>4 DEF OnPrepared, t

(* stop() and reset() unload the player.                                       *)
LEMMA StopShown ==
  ASSUME NEW s \in Service
  PROVE  SameShown(s, StopPlayBack(s)) /\ \A pos : SameShown(s, SwitchNextSong(s, pos))
<1>1. SameShown(s, s)
  BY FrameShown
<1>2. \A m \in Player : ~Loaded(Reset(m))
  BY DEF Loaded, Reset, NewPlayer
<1>3. SameShown(s, StopPlayBack(s))
  <2>1. CASE s.mMediaPlayer = None
    BY <1>1, <2>1 DEF StopPlayBack
  <2>2. CASE s.mMediaPlayer # None
    BY <1>2, <2>2, CurrentType, PlayerShown DEF StopPlayBack, Current
  <2> QED BY <2>1, <2>2
<1>4. ASSUME NEW pos PROVE SameShown(s, SwitchNextSong(s, pos))
  <2> DEFINE r == StopPlayBack(s)
             t == [r EXCEPT !.switchNext = pos]
  <2>1. r \in Service
    BY StopPlayBackType
  <2> HIDE DEF r
  <2>2. t.mp = r.mp /\ t.mMediaPlayer = r.mMediaPlayer /\ t.bar = r.bar
        /\ t.mCurrentSong = r.mCurrentSong /\ t.disturbed = r.disturbed
    BY <2>1 DEF Service
  <2> HIDE DEF t
  <2> QED BY <1>3, <2>2 DEF SameShown, Current, SwitchNextSong, r, t
<1> QED BY <1>3, <1>4

(* A song that is prepared is shown; one that is not leaves the player idle.   *)
LEMMA PrepareShown ==
  ASSUME NEW s \in Service, NEW pos \in Positions, NEW p \in Players, NEW ok \in BOOLEAN
  PROVE  /\ Announced(PrepareToPlay(s, p, ok))
         /\ Announced(s) => Announced(PlayCurrentIndexSong(s, pos, p, ok))
<1>1. ASSUME NEW r \in Service PROVE Announced(PrepareToPlay(r, p, ok))
  <2> DEFINE t == PrepareToPlay(r, p, ok)
  <2>1. /\ t.mMediaPlayer = p /\ t.mCurrentSong = r.mCurrentSong
        /\ ok => t.bar = r.mCurrentSong
        /\ ~ok => t.mp[p] = NewPlayer(TRUE)
    BY DEF PrepareToPlay, Service
  <2> HIDE DEF t
  <2>2. ~Loaded(NewPlayer(TRUE))
    BY DEF Loaded, NewPlayer
  <2> QED BY <2>1, <2>2 DEF Announced, Current, t
<1>2. CASE s.mSongs \notin {None, <<>>}
  <2>1. s.mSongs = LocalSongs
    BY <1>2 DEF Service, Lists
  <2>2. [s EXCEPT !.mCurrentIndex = pos, !.mCurrentSong = s.mSongs[pos + 1]] \in Service
    BY <2>1, LocalList DEF Service
  <2> QED BY <1>1, <1>2, <2>2 DEF PlayCurrentIndexSong
<1>3. CASE s.mSongs \in {None, <<>>}
  BY <1>1, <1>3 DEF PlayCurrentIndexSong
<1> QED BY <1>1, <1>2, <1>3

LEMMA NextShown ==
  ASSUME NEW s \in Service, NEW p \in Players, NEW ok \in BOOLEAN, Announced(s)
  PROVE  /\ Announced(Completed(s, p, ok))
         /\ \A song \in Songs : Announced(PlaySong(s, song, p, ok))
<1>1. Announced(Completed(s, p, ok))
  <2> DEFINE c == [s EXCEPT !.currentState = "completed"]
             next == IF c.mCurrentIndex + 1 >= Len(c.mSongs) THEN 0 ELSE c.mCurrentIndex + 1
             d == [c EXCEPT !.mCurrentIndex = next]
  <2>1. c \in Service /\ c.mCurrentIndex \in Positions /\ SameShown(s, c)
    BY FrameShown DEF Service
  <2> HIDE DEF c
  <2>2. Announced(c)
    BY <2>1, SameAnnounced
  <2>3. ASSUME c.mSongs \notin {None, <<>>} PROVE Announced(PlayNextSong(c, p, ok))
    <3>1. next \in Positions
      BY <2>1, <2>3, LocalList DEF Service, Lists
    <3> HIDE DEF next
    <3>2. d \in Service /\ SameShown(c, d)
      BY <2>1, <3>1, IndexType, FrameShown DEF Service
    <3> HIDE DEF d
    <3>3. Announced(d)
      BY <2>2, <3>2, SameAnnounced
    <3>4. StopPlayBack(d) \in Service /\ Announced(StopPlayBack(d))
      BY <3>2, <3>3, StopPlayBackType, StopShown, SameAnnounced
    <3> QED BY <3>1, <3>4, PrepareShown DEF PlayNextSong, next, d
  <2>4. Announced(PlayCurrentIndexSong(c, c.mCurrentIndex, p, ok))
    BY <2>1, <2>2, PrepareShown
  <2> QED BY <2>2, <2>3, <2>4 DEF Completed, c
<1>2. ASSUME NEW song \in Songs PROVE Announced(PlaySong(s, song, p, ok))
  <2> DEFINE r == StopPlayBack(s)
             t == [r EXCEPT !.mSongs = IF @ = None THEN None ELSE <<>>, !.mCurrentSong = song]
  <2>1. r \in Service
    BY StopPlayBackType
  <2>2. t \in Service
    BY <2>1, SongChosen
  <2>3. 0 \in Positions
    BY LocalList
  <2> QED BY <2>2, <2>3, PrepareShown DEF PlaySong
<1> QED BY <1>1, <1>2

(* What is posted and heard loads no player; the one that stands in for a      *)
(* released one is not loaded.                                                 *)
LEMMA EventShown ==
  ASSUME music \in Service, Announced(music), NEW q \in Players
  PROVE  /\ music.mp[q].events # <<>> => Announced(Taken(q))
         /\ \A st \in PlayerStates, e \in Events :
              Loaded(music.mp[q]) /\ PostBy(q, st, e) => Announced(music')
<1>1. music.mp \in [Players -> Player] /\ music.mp[q] \in Player
  BY DEF Service
<1>2. Announced(Taken(q))
  <2> DEFINE n == [music.mp[q] EXCEPT !.events = Tail(@)]
  <2>1. Loaded(n) => Loaded(music.mp[q])
    BY <1>1 DEF Player, Loaded
  <2>2. Taken(q) = [music EXCEPT !.mp[q] = n]
    BY <1>1 DEF Taken, Service
  <2> HIDE DEF n
  <2> QED BY <2>1, <2>2, PlayerShown, SameAnnounced
<1>3. ASSUME NEW st \in PlayerStates, NEW e \in Events, Loaded(music.mp[q]), PostBy(q, st, e)
      PROVE  Announced(music')
  <2> DEFINE n == [Post(music.mp[q], st, e) EXCEPT !.loading = FALSE]
  <2>1. music' = [music EXCEPT !.mp[q] = n]
    BY <1>3 DEF PostBy, Only
  <2> HIDE DEF n
  <2> QED BY <1>3, <2>1, PlayerShown, SameAnnounced
<1> QED BY <1>2, <1>3

LEMMA ErrorShown ==
  ASSUME NEW s \in Service, NEW p \in Players, Announced(s)
  PROVE  Announced(OnErrorUnknown(s, p))
<1>1. Announced([s EXCEPT !.npe = TRUE])
  BY ControlShown, SameAnnounced
<1>2. Announced(OnErrorUnknown(s, p))
  <2> DEFINE t == [s EXCEPT !.mp[s.mMediaPlayer] = Released, !.mp[p] = NewPlayer(FALSE),
                            !.mMediaPlayer = p]
  <2>1. CASE s.mMediaPlayer # None
    <3>1. t.mMediaPlayer = p /\ t.mp[p] = NewPlayer(FALSE)
      BY DEF Service
    <3>2. ~Loaded(NewPlayer(FALSE))
      BY DEF Loaded, NewPlayer
    <3>3. OnErrorUnknown(s, p) = t
      BY <2>1 DEF OnErrorUnknown
    <3> HIDE DEF t
    <3> QED BY <3>1, <3>2, <3>3 DEF Announced, Current
  <2> QED BY <1>1, <2>1 DEF OnErrorUnknown
<1> QED BY <1>2

(* Nor does killing the service or abandoning its player.                      *)
LEMMA LeftShown ==
  ASSUME NEW s \in Service, Announced(s)
  PROVE  Announced(KillMyself(s)) /\ Announced(Abandon(s))
<1>1. Announced(KillMyself(s))
  <2>1. KillMyself(s).mMediaPlayer = None
    BY DEF KillMyself, Service
  <2> QED BY <2>1 DEF Announced
<1>2. Announced(Abandon(s))
  <2>1. /\ Abandon(s).mp = s.mp /\ Abandon(s).mMediaPlayer = s.mMediaPlayer
        /\ Abandon(s).bar = s.bar /\ Abandon(s).mCurrentSong = s.mCurrentSong
        /\ ~Abandon(s).disturbed => ~s.disturbed
    BY DEF Abandon, Service
  <2> QED BY <2>1 DEF Announced, Current
<1> QED BY <1>1, <1>2

LEMMA LooperStepShown ==
  TypeOK /\ Announced(music) /\ LooperStep => Announced(music')
<1> SUFFICES ASSUME TypeOK, Announced(music), LooperStep PROVE Announced(music')
  OBVIOUS
<1>1. music \in Service
  BY DEF TypeOK
<1>2. Abandon(music) \in Service /\ Announced(Abandon(music))
  <2>1. Abandon(music) \in Service
    BY <1>1 DEF Abandon, Service
  <2> QED BY <1>1, <2>1, LeftShown
<1>3. CASE StartCommand
  <2> DEFINE i == Head(intents)
             s == [Abandon(music) EXCEPT !.mSongs = i.list, !.mCurrentIndex = i.pos]
  <2>1. i.list \in Lists /\ i.pos \in Positions
    BY <1>3, LocalList DEF StartCommand, TypeOK, Intents, HomeIntent, Lists
  <2>2. s \in Service
    BY <1>2, <2>1 DEF Service
  <2>2a. SameShown(Abandon(music), s)
    <3> DEFINE old == Abandon(music)
    <3>1. old \in Service
      BY <1>2
    <3> HIDE DEF old, i
    <3> DEFINE t == [old EXCEPT !.mSongs = i.list, !.mCurrentIndex = i.pos]
    <3>2. /\ t.mp = old.mp /\ t.mMediaPlayer = old.mMediaPlayer /\ t.bar = old.bar
          /\ t.mCurrentSong = old.mCurrentSong /\ t.disturbed = old.disturbed
      BY ONLY <3>1 DEF Service
    <3> HIDE DEF t
    <3>3. SameShown(old, t)
      BY ONLY <3>2, FrameShown
    <3> QED BY <3>3 DEF old, t
  <2>3. PICK p \in Players, ok \in BOOLEAN : music' = PlayCurrentIndexSong(s, i.pos, p, ok)
    BY <1>3 DEF StartCommand, Free
  <2> HIDE DEF s, i
  <2> QED BY <1>2, <2>1, <2>2, <2>2a, <2>3, PrepareShown, SameAnnounced
<1>4. CASE SwitchFires
  <2> DEFINE s == [Abandon(music) EXCEPT !.switchNext = None]
  <2>1. s \in Service /\ music.switchNext \in Positions /\ SameShown(Abandon(music), s)
    BY <1>1, <1>2, <1>4, FrameShown DEF Service, SwitchFires
  <2>2. PICK p \in Players, ok \in BOOLEAN :
          music' = PlayCurrentIndexSong(s, music.switchNext, p, ok)
    BY <1>4 DEF SwitchFires, Only, Free
  <2> HIDE DEF s
  <2> QED BY <1>2, <2>1, <2>2, PrepareShown, SameAnnounced
<1>5. CASE LyricTick
  BY <1>1, <1>5, ControlShown, SameAnnounced DEF LyricTick, Only
<1>6. ASSUME NEW song \in ServerSongs, ServerAnswers(song) PROVE Announced(music')
  <2>1. song \in Songs
    BY ServiceAssumption
  <2> QED BY <1>1, <1>6, <2>1, NextShown DEF ServerAnswers, Free
<1>7. ASSUME NEW q \in Players, music.mp[q].events # <<>>
      PROVE  Taken(q) \in Service /\ Announced(Taken(q))
  BY <1>1, <1>7, TakenType, EventShown
<1>8. ASSUME NEW q \in Players, HandlePrepared(q) PROVE Announced(music')
  BY <1>7, <1>8, OnPreparedShown DEF HandlePrepared, Heard, Only
<1>9. ASSUME NEW q \in Players, HandleCompletion(q) PROVE Announced(music')
  BY <1>7, <1>9, NextShown DEF HandleCompletion, Heard, Only, Free
<1>10. ASSUME NEW q \in Players, HandleUnknown(q) PROVE Announced(music')
  <2>1. Taken(q) \in Service /\ Announced(Taken(q))
    BY <1>7, <1>10 DEF HandleUnknown, Heard
  <2>2. PICK p \in Players :
          LET s == OnErrorUnknown(Taken(q), p) IN
          IF s.mp[q].heard /\ ~s.npe
          THEN \E r \in Free(s), ok \in BOOLEAN : Only(Completed(s, r, ok))
          ELSE Only(s)
    BY <1>10 DEF HandleUnknown, Free
  <2> DEFINE s == OnErrorUnknown(Taken(q), p)
  <2>3. s \in Service /\ Announced(s)
    BY <2>1, HandlerType, ErrorShown
  <2> QED BY <2>2, <2>3, NextShown DEF Only, Free
<1>11. ASSUME NEW q \in Players, IgnoreEvent(q) PROVE Announced(music')
  BY <1>7, <1>11 DEF IgnoreEvent, Only
<1> QED BY <1>3, <1>4, <1>5, <1>6, <1>8, <1>9, <1>10, <1>11 DEF LooperStep

LEMMA StepShown == TypeOK /\ Announced(music) /\ [Next]_vars => Announced(music')
<1> SUFFICES ASSUME TypeOK, Announced(music), [Next]_vars PROVE Announced(music')
  OBVIOUS
<1>1. music \in Service
  BY DEF TypeOK
<1> DEFINE listed == [music EXCEPT !.mSongs = LocalSongs]
<1>2. \A pos : Announced(SwitchNextSong(listed, pos))
  <2>1. listed \in Service /\ SameShown(music, listed)
    BY <1>1, FrameShown DEF Service, Lists
  <2> HIDE DEF listed
  <2>2. Announced(listed)
    BY <2>1, SameAnnounced
  <2> QED BY <2>1, <2>2, StopShown, SameAnnounced
<1>3. /\ Announced(Start(music)) /\ Announced(Pause(music)) /\ Announced(SeekTo(music))
      /\ Announced(ReadProgress(music)) /\ Announced(SwitchNextPlayMode(music))
      /\ Announced([music EXCEPT !.npe = TRUE])
  BY <1>1, ControlShown, SameAnnounced
<1>4. CASE UserStep
  <2>1. ASSUME NEW pos \in Positions, ClickSong(pos) PROVE Announced(music')
    BY <1>2, <2>1 DEF ClickSong
  <2>2. CASE ClickPlayPause
    BY <1>2, <1>3, <2>2 DEF ClickPlayPause, Only
  <2>3. CASE HeadsetUnplugged \/ OpenLyric
    BY <1>3, <2>3 DEF HeadsetUnplugged, OpenLyric, Only
  <2>4. CASE LyricPlay \/ LyricSeek \/ LyricMode
    BY <1>3, <2>4 DEF LyricPlay, LyricSeek, LyricMode, Only
  <2>5. CASE ReloadList \/ CloseLyric
    BY <2>5 DEF ReloadList, CloseLyric
  <2> QED BY <1>4, <2>1, <2>2, <2>3, <2>4, <2>5 DEF UserStep
<1>5. CASE FollowStep
  BY <1>3, <1>5 DEF FollowStep, FollowPause, FollowPlay, PlaySongFromServer, Only
<1>6. CASE LooperStep
  BY <1>6, LooperStepShown
<1>7. CASE PlayerStep
  <2>1. PICK q \in Players :
          Loaded(music.mp[q]) /\ \E st \in PlayerStates, e \in Events : PostBy(q, st, e)
    BY <1>7 DEF PlayerStep, PrepareDone, PrepareFails, TrackEnds, PlayFails, Loaded, Sounding,
                PlayerStates, Events
  <2> QED BY <1>1, <2>1, EventShown
<1>8. CASE LifeStep
  <2>1. CASE Kill
    BY <1>1, <2>1, LeftShown DEF Kill
  <2>2. CASE OnDestroy
    BY <2>2 DEF OnDestroy
  <2>3. CASE Restart
    BY <2>3 DEF Restart, Fresh, Announced
  <2> QED BY <1>8, <2>1, <2>2, <2>3 DEF LifeStep
<1>9. CASE UNCHANGED vars
  BY <1>9 DEF vars
<1> QED BY <1>4, <1>5, <1>6, <1>7, <1>8, <1>9 DEF Next

(* As long as nothing disturbed it, the song that sounds is the one the        *)
(* screens were last told of, is shown by the buttons as playing, and is what  *)
(* the preferences keep, on every way by which a player comes to sound.        *)
THEOREM SoundAlwaysShown == Spec => []SoundIsShown
<1> DEFINE Shown == Announced(music)
<1>1. Init => ReportedInv /\ Shown
  BY DEF Init, InitWith, ReportedInv, Fresh, Reported, NewPlayer, Sounding, Announced
<1>2. TypeOK /\ Discipline /\ ReportedInv /\ Shown => SoundIsShown
  <2> SUFFICES ASSUME TypeOK, Discipline, ReportedInv, Announced(music), ~music.disturbed,
                      NEW q \in Players, Sounding(music.mp[q])
               PROVE  /\ IsPlaying(music) /\ music.bar = music.mCurrentSong
                      /\ music.quit.song = music.mCurrentSong
    BY DEF SoundIsShown
  <2>1. q = music.mMediaPlayer /\ q # None
    BY ServiceAssumption DEF Discipline, Disciplined, Quiet
  <2>2. Loaded(Current(music))
    BY <2>1 DEF Current, Loaded, Sounding
  <2> QED BY <2>1, <2>2 DEF ReportedInv, Reported, Known, Announced
<1>3. TypeOK /\ Shown /\ [Next]_vars => Shown'
  BY StepShown
<1> HIDE DEF Shown
<1> QED BY <1>1, <1>2, <1>3, StepReported, TypeCorrect, PlayersDisciplined, PTL DEF Spec
------------------------------------------------------------------------------
(* Before the service there is no player, no message and no request.           *)
StartingQuiet ==
    phase = "starting" =>
        /\ requests = {} /\ music.switchNext = None /\ (lyric => music.npe)
        /\ ~music.disturbed /\ \A q \in Players : Quiet(music.mp[q])

(* A click or a headset may come before it; an exception ends the process      *)
(* then, and the lyric screen has met one.                                      *)
LEMMA StepStartingQuiet == TypeOK /\ StartingQuiet /\ [Next]_vars => StartingQuiet'
<1> SUFFICES ASSUME TypeOK, StartingQuiet, [Next]_vars, phase' = "starting"
             PROVE  StartingQuiet'
  BY DEF StartingQuiet
<1>1. music \in Service
  BY DEF TypeOK
<1>2. CASE Restart
  BY <1>2 DEF Restart, StartingQuiet, Fresh, NewPlayer, Quiet, Sounding
<1>3. CASE UNCHANGED vars
  BY <1>3 DEF vars, StartingQuiet
<1>4. CASE Next /\ ~Restart
  <2>1. phase = "starting"
    BY <1>4 DEF Next, UserStep, FollowStep, LooperStep, PlayerStep, LifeStep, ClickSong,
                ClickPlayPause, HeadsetUnplugged, ReloadList, OpenLyric, CloseLyric, LyricPlay,
                LyricSeek, LyricMode, FollowPause, FollowPlay, PlaySongFromServer,
                PrepareDone, PrepareFails, TrackEnds, PlayFails, PostBy, Only, StartCommand,
                SwitchFires, LyricTick, ServerAnswers, HandlePrepared, HandleCompletion,
                HandleUnknown, IgnoreEvent, Kill, OnDestroy
  <2>2. /\ requests = {} /\ music.switchNext = None /\ (lyric => music.npe)
        /\ ~music.disturbed /\ \A q \in Players : Quiet(music.mp[q])
    BY <2>1 DEF StartingQuiet
  <2>3. ~LooperStep
    BY <2>1, <2>2, <1>4 DEF LooperStep, StartCommand, SwitchFires, LyricTick, ServerAnswers,
                HandlePrepared, HandleCompletion, HandleUnknown, IgnoreEvent, Heard, Quiet, Alive
  <2>4. ~PlayerStep
    BY <2>2 DEF PlayerStep, PrepareDone, PrepareFails, TrackEnds, PlayFails, Quiet
  <2>5. ~FollowStep /\ ~LifeStep
    BY <1>4, <2>1 DEF FollowStep, FollowPause, FollowPlay, PlaySongFromServer, LifeStep, Kill,
                      OnDestroy, Running
  <2>6. ASSUME UserStep
        PROVE  /\ requests' = requests
               /\ \/ UNCHANGED <<music, lyric>>
                  \/ music' = [music EXCEPT !.npe = TRUE]
    BY <2>1, <2>2, <2>6 DEF UserStep, ClickSong, ClickPlayPause, HeadsetUnplugged, ReloadList,
           OpenLyric, CloseLyric, LyricPlay, LyricSeek, LyricMode, Running, Only, Alive
  <2>7. UserStep
    BY <1>4, <2>3, <2>4, <2>5 DEF Next
  <2> QED BY <1>1, <2>2, <2>6, <2>7 DEF StartingQuiet, Service
<1> QED BY <1>2, <1>3, <1>4

(* t, which comes after s, cuts no sound: or else it disturbs, or a switch is  *)
(* to follow.                                                                  *)
Uncut(s, t) ==
    ~t.disturbed /\ t.switchNext = None =>
        /\ ~s.disturbed
        /\ \A q \in Players : Sounding(s.mp[q]) => t.mp[q].st # "idle"

(* Where all is quiet there is no sound to cut.                                *)
LEMMA QuietUncut ==
  ASSUME NEW s, NEW t, AllQuiet(s), ~t.disturbed => ~s.disturbed
  PROVE  Uncut(s, t)
BY DEF AllQuiet, Uncut, Quiet

(* A change of one player alone, to a state that is not idle.                  *)
LEMMA PlayerUncut ==
  ASSUME NEW s \in Service, NEW q \in Players, NEW n \in Player, NEW t,
         t.mp = [s.mp EXCEPT ![q] = n], ~t.disturbed => ~s.disturbed,
         n.st # "idle" \/ n.st = s.mp[q].st
  PROVE  Uncut(s, t)
<1>1. s.mp \in [Players -> Player]
  BY DEF Service
<1>2. \A r \in Players : t.mp[r] = IF r = q THEN n ELSE s.mp[r]
  BY <1>1
<1> QED BY <1>2 DEF Uncut, Sounding

(* The controls make no player idle.                                           *)
LEMMA ControlUncut ==
  ASSUME NEW s \in Service
  PROVE  /\ Uncut(s, Start(s)) /\ Uncut(s, Pause(s)) /\ Uncut(s, SeekTo(s))
         /\ Uncut(s, ReadProgress(s)) /\ Uncut(s, SwitchNextPlayMode(s))
         /\ Uncut(s, [s EXCEPT !.npe = TRUE])
<1> USE DEF Uncut, Sounding
<1>1. Uncut(s, s) /\ Uncut(s, [s EXCEPT !.npe = TRUE]) /\ Uncut(s, SwitchNextPlayMode(s))
  BY DEF SwitchNextPlayMode, Service
<1>2. Uncut(s, Fault(s))
  BY FaultDisturbs
<1>3. ASSUME s.mMediaPlayer # None
      PROVE  Uncut(s, PlayerStart(s)) /\ Uncut(s, PlayerPause(s))
  <2> DEFINE cur == s.mMediaPlayer
             m == s.mp[cur]
  <2> HIDE DEF Uncut, Sounding
  <2>1. cur \in Players /\ m \in Player /\ \A st \in PlayerStates : [m EXCEPT !.st = st] \in Player
    BY <1>3, CurrentType, PlayerType
  <2>2. Uncut(s, PlayerStart(s))
    <3>1. CASE Current(s).st \in Startable
      <4>1. /\ PlayerStart(s).mp = [s.mp EXCEPT ![cur] = [m EXCEPT !.st = "started"]]
            /\ ~PlayerStart(s).disturbed => ~s.disturbed
        BY <2>1, <3>1 DEF PlayerStart, Current, Service
      <4>2. [m EXCEPT !.st = "started"].st # "idle"
        BY <2>1 DEF Player
      <4> QED BY <2>1, <4>1, <4>2, PlayerUncut
    <3> QED BY <1>2, <3>1 DEF PlayerStart
  <2>3. Uncut(s, PlayerPause(s))
    <3>1. CASE Current(s).st \in Pausable
      <4> DEFINE st == IF m.st = "started" THEN "paused" ELSE m.st
      <4>1. PlayerPause(s) = [s EXCEPT !.mp[cur].st = st]
        BY <3>1 DEF PlayerPause, Current
      <4>2. st \in PlayerStates /\ (st # "idle" \/ st = m.st)
        BY <2>1, PlayerType
      <4> HIDE DEF st
      <4>3. /\ PlayerPause(s).mp = [s.mp EXCEPT ![cur] = [m EXCEPT !.st = st]]
            /\ PlayerPause(s).disturbed = s.disturbed
        BY <2>1, <4>1 DEF Service
      <4> DEFINE n == [m EXCEPT !.st = st]
      <4>4. n \in Player /\ n.st = st
        <5>1. n \in Player
          BY <2>1, <4>2
        <5>2. n.st = st
          BY <2>1 DEF Player
        <5> QED BY <5>1, <5>2
      <4> HIDE DEF n, m
      <4>5. PlayerPause(s).mp = [s.mp EXCEPT ![cur] = n] /\ (n.st # "idle" \/ n.st = s.mp[cur].st)
        BY <4>2, <4>3, <4>4 DEF n, m
      <4> QED BY <2>1, <4>3, <4>4, <4>5, PlayerUncut
    <3> QED BY <1>2, <3>1 DEF PlayerPause
  <2> QED BY <2>2, <2>3
<1>4. ASSUME NEW t \in Service, Uncut(s, t)
      PROVE  Uncut(s, NotifyPlaying(t)) /\ Uncut(s, NotifyPause(t))
  <2>1. \A u \in {NotifyPlaying(t), NotifyPause(t)} : u.mp = t.mp /\ u.disturbed = t.disturbed
    BY NotifyFrame
  <2>2. NotifyPlaying(t).switchNext = t.switchNext /\ NotifyPause(t).switchNext = t.switchNext
    BY DEF NotifyPlaying, NotifyPause, Service
  <2> QED BY <1>4, <2>1, <2>2
<1> HIDE DEF Uncut, Sounding
<1>5. Uncut(s, Start(s)) /\ Uncut(s, Pause(s))
  BY <1>1, <1>3, <1>4, PlayerStartType, PlayerPauseType DEF Start, Pause
<1>6. Uncut(s, SeekTo(s)) /\ Uncut(s, ReadProgress(s))
  BY <1>1, <1>2 DEF SeekTo, ReadProgress
<1> QED BY <1>1, <1>5, <1>6

(* Nor do the listener, a track that ends or fails, and an event taken.        *)
LEMMA EventUncut ==
  ASSUME music \in Service, NEW q \in Players
  PROVE  /\ \A s \in Service, behind \in BOOLEAN : Uncut(s, OnPrepared(s, behind))
         /\ music.mp[q].events # <<>> =>
              \A t : Uncut(Taken(q), t) => Uncut(music, t)
         /\ \A st \in PlayerStates \ {"idle"}, e \in Events :
              PostBy(q, st, e) => Uncut(music, music')
<1>1. music.mp \in [Players -> Player] /\ music.mp[q] \in Player
  BY DEF Service
<1>2. ASSUME NEW s \in Service, NEW behind \in BOOLEAN PROVE Uncut(s, OnPrepared(s, behind))
  <2> DEFINE t == [s EXCEPT !.currentState = "prepared"]
  <2>1. t \in Service /\ \A u : Uncut(t, u) => Uncut(s, u)
    BY DEF Service, Uncut
  <2> HIDE DEF t
  <2>2. SeekTo(t) \in Service /\ Uncut(t, SeekTo(t))
    BY <2>1, ControlType, ControlUncut
  <2>3. Uncut(t, Start(t)) /\ Uncut(SeekTo(t), Start(SeekTo(t)))
    BY <2>1, <2>2, ControlUncut
  <2>4. Uncut(t, Start(SeekTo(t)))
    <3>1. SeekTo(t) = t \/ SeekTo(t).disturbed
      BY <2>1, FaultDisturbs DEF SeekTo
    <3> QED BY <2>3, <3>1 DEF Uncut
  <2> QED BY <2>1, <2>3, <2>4 DEF OnPrepared, t
<1>3. \A t : Uncut(Taken(q), t) => Uncut(music, t)
  <2>1. /\ Taken(q).disturbed = music.disturbed
        /\ \A r \in Players : Taken(q).mp[r].st = music.mp[r].st
    BY <1>1 DEF Taken, Service, Player
  <2> QED BY <2>1 DEF Uncut, Sounding
<1>4. ASSUME NEW st \in PlayerStates \ {"idle"}, NEW e \in Events, PostBy(q, st, e)
      PROVE  Uncut(music, music')
  <2> DEFINE n == [Post(music.mp[q], st, e) EXCEPT !.loading = FALSE]
  <2>1. n.st = st /\ n \in Player
    <3>1. Post(music.mp[q], st, e) \in Player
      BY <1>1, PlayerType
    <3> QED BY <1>1, <3>1 DEF Post, Player
  <2>2. music'.mp = [music.mp EXCEPT ![q] = n] /\ music'.disturbed = music.disturbed
    BY <1>4 DEF PostBy, Only, Service
  <2> HIDE DEF n
  <2> QED BY <2>1, <2>2, PlayerUncut
<1> QED BY <1>2, <1>3, <1>4

(* Preparing the next song, or putting a player in the place of one that       *)
(* failed, undoes no disturbance.                                              *)
LEMMA KeepsDisturbed ==
  ASSUME NEW s \in Service, NEW pos, NEW p \in Players, NEW ok \in BOOLEAN
  PROVE  /\ PlayCurrentIndexSong(s, pos, p, ok).disturbed = s.disturbed
         /\ Completed(s, p, ok).disturbed = s.disturbed
         /\ OnErrorUnknown(s, p).disturbed = s.disturbed
BY DEF PlayCurrentIndexSong, Completed, PlayNextSong, StopPlayBack, OnErrorUnknown,
       PrepareToPlay, Service

LEMMA LooperStepUncut ==
  TypeOK /\ Discipline /\ LooperStep => requests' # requests \/ Uncut(music, music')
<1> SUFFICES ASSUME TypeOK, Disciplined(music), LooperStep, requests' = requests
             PROVE  Uncut(music, music')
  BY DEF Discipline
<1>1. music \in Service
  BY DEF TypeOK
<1>2. ASSUME NEW s \in Service, NEW pos, NEW p \in Players, NEW ok \in BOOLEAN,
             s.mp = music.mp, s.disturbed = Abandon(music).disturbed,
             music' = PlayCurrentIndexSong(s, pos, p, ok)
      PROVE  Uncut(music, music')
  <2>1. AllQuiet(Abandon(music)) /\ Abandon(music).mp = music.mp
        /\ (~Abandon(music).disturbed => ~music.disturbed)
    BY <1>1, AbandonDiscipline DEF Abandon, Service
  <2>2. music'.disturbed = s.disturbed
    BY <1>2, KeepsDisturbed
  <2> QED BY <1>2, <2>1, <2>2 DEF AllQuiet, Quiet, Uncut
<1>3. Abandon(music) \in Service /\ Abandon(music).mp = music.mp
  BY <1>1 DEF Abandon, Service
<1>4. CASE StartCommand
  <2> DEFINE i == Head(intents)
             s == [Abandon(music) EXCEPT !.mSongs = i.list, !.mCurrentIndex = i.pos]
  <2>1. i.list \in Lists /\ i.pos \in Positions
    BY <1>4, LocalList DEF StartCommand, TypeOK, Intents, HomeIntent, Lists
  <2>2. s \in Service /\ s.mp = music.mp /\ s.disturbed = Abandon(music).disturbed
    BY <1>3, <2>1 DEF Service
  <2>3. PICK p \in Players, ok \in BOOLEAN : music' = PlayCurrentIndexSong(s, i.pos, p, ok)
    BY <1>4 DEF StartCommand, Free
  <2> HIDE DEF s, i
  <2> QED BY <1>2, <2>2, <2>3
<1>5. CASE SwitchFires
  <2> DEFINE s == [Abandon(music) EXCEPT !.switchNext = None]
  <2>1. s \in Service /\ s.mp = music.mp /\ s.disturbed = Abandon(music).disturbed
    BY <1>3 DEF Service
  <2>2. PICK p \in Players, ok \in BOOLEAN :
          music' = PlayCurrentIndexSong(s, music.switchNext, p, ok)
    BY <1>5 DEF SwitchFires, Only, Free
  <2> HIDE DEF s
  <2> QED BY <1>2, <2>1, <2>2
<1>6. CASE LyricTick
  BY <1>1, <1>6, ControlUncut DEF LyricTick, Only
<1>7. ASSUME NEW song \in ServerSongs, ServerAnswers(song) PROVE Uncut(music, music')
  BY <1>7 DEF ServerAnswers
<1>8. ASSUME NEW q \in Players, music.mp[q].events # <<>>
      PROVE  /\ Taken(q) \in Service /\ Disciplined(Taken(q))
             /\ Head(music.mp[q].events) # "prepared" => AllQuiet(Taken(q))
             /\ ~Taken(q).disturbed => q = Taken(q).mMediaPlayer
             /\ \A t : Uncut(Taken(q), t) => Uncut(music, t)
  BY <1>1, <1>8, TakenType, TakenDiscipline, EventUncut
<1>9. ASSUME NEW q \in Players, HandlePrepared(q) PROVE Uncut(music, music')
  <2>1. PICK behind \in BOOLEAN : music' = OnPrepared(Taken(q), behind)
    BY <1>9 DEF HandlePrepared, Only
  <2>2. music.mp[q].events # <<>>
    BY <1>9 DEF HandlePrepared, Heard
  <2> QED BY <1>1, <1>8, <2>1, <2>2, EventUncut
<1>10. ASSUME NEW q \in Players, HandleCompletion(q) PROVE Uncut(music, music')
  <2>1. /\ Taken(q) \in Service /\ AllQuiet(Taken(q))
        /\ \A t : Uncut(Taken(q), t) => Uncut(music, t)
    BY <1>8, <1>10 DEF HandleCompletion, Heard
  <2>2. PICK p \in Players, ok \in BOOLEAN : music' = Completed(Taken(q), p, ok)
    BY <1>10 DEF HandleCompletion, Only, Free
  <2>3. music'.disturbed = Taken(q).disturbed
    BY <2>1, <2>2, KeepsDisturbed
  <2> QED BY <2>1, <2>3, QuietUncut
<1>11. ASSUME NEW q \in Players, HandleUnknown(q) PROVE Uncut(music, music')
  <2>1. /\ Taken(q) \in Service /\ AllQuiet(Taken(q))
        /\ \A t : Uncut(Taken(q), t) => Uncut(music, t)
    BY <1>8, <1>11 DEF HandleUnknown, Heard
  <2>2. PICK p \in Players :
          LET s == OnErrorUnknown(Taken(q), p) IN
          IF s.mp[q].heard /\ ~s.npe
          THEN \E r \in Free(s), ok \in BOOLEAN : Only(Completed(s, r, ok))
          ELSE Only(s)
    BY <1>11 DEF HandleUnknown, Free
  <2> DEFINE s == OnErrorUnknown(Taken(q), p)
  <2>3. s \in Service /\ s.disturbed = Taken(q).disturbed
    BY <2>1, HandlerType, KeepsDisturbed
  <2>4. music' = s \/ \E r \in Players, ok \in BOOLEAN : music' = Completed(s, r, ok)
    BY <2>2 DEF Only, Free
  <2> HIDE DEF s
  <2>5. music'.disturbed = Taken(q).disturbed
    BY <2>3, <2>4, KeepsDisturbed
  <2> QED BY <2>1, <2>5, QuietUncut
<1>12. ASSUME NEW q \in Players, IgnoreEvent(q) PROVE Uncut(music, music')
  <2>1. music' = Taken(q) /\ music.mp[q].events # <<>>
    BY <1>12 DEF IgnoreEvent, Only
  <2>2. Uncut(Taken(q), Taken(q))
    BY DEF Uncut, Sounding
  <2> QED BY <1>8, <2>1, <2>2
<1> QED BY <1>4, <1>5, <1>6, <1>7, <1>9, <1>10, <1>11, <1>12 DEF LooperStep

LEMMA StepUncut ==
  TypeOK /\ Discipline /\ StartingQuiet /\ Next
    => requests' # requests \/ phase' # phase \/ Uncut(music, music')
<1> SUFFICES ASSUME TypeOK, Discipline, StartingQuiet, Next,
                    requests' = requests, phase' = phase
             PROVE  Uncut(music, music')
  OBVIOUS
<1>1. music \in Service
  BY DEF TypeOK
<1>2. CASE LooperStep
  BY <1>2, LooperStepUncut
<1>3. Uncut(music, music)
  BY DEF Uncut, Sounding
<1>4. /\ Uncut(music, Start(music)) /\ Uncut(music, Pause(music)) /\ Uncut(music, SeekTo(music))
      /\ Uncut(music, ReadProgress(music)) /\ Uncut(music, SwitchNextPlayMode(music))
      /\ Uncut(music, [music EXCEPT !.npe = TRUE])
  BY <1>1, ControlUncut
<1>5. \A s \in Service, pos \in Positions : Uncut(music, SwitchNextSong(s, pos))
  <2> TAKE s \in Service, pos \in Positions
  <2>1. SwitchNextSong(s, pos).switchNext = pos
    BY StopPlayBackType DEF SwitchNextSong, Service
  <2> QED BY <2>1, ServiceAssumption DEF Uncut, Positions
<1>6. [music EXCEPT !.mSongs = LocalSongs] \in Service /\ music.quit.index \in Positions
  BY <1>1 DEF Service, Lists, QuitInfo
<1>7. CASE UserStep
  <2>1. ASSUME NEW pos \in Positions, ClickSong(pos) PROVE Uncut(music, music')
    BY <1>3, <1>5, <1>6, <2>1 DEF ClickSong
  <2>2. CASE ClickPlayPause
    BY <1>4, <1>5, <1>6, <2>2 DEF ClickPlayPause, Only
  <2>3. CASE HeadsetUnplugged \/ OpenLyric
    BY <1>4, <2>3 DEF HeadsetUnplugged, OpenLyric, Only
  <2>4. CASE LyricPlay \/ LyricSeek \/ LyricMode
    BY <1>4, <2>4 DEF LyricPlay, LyricSeek, LyricMode, Only
  <2>5. CASE ReloadList \/ CloseLyric
    BY <1>3, <2>5 DEF ReloadList, CloseLyric
  <2> QED BY <1>7, <2>1, <2>2, <2>3, <2>4, <2>5 DEF UserStep
<1>8. CASE FollowStep
  BY <1>3, <1>4, <1>8 DEF FollowStep, FollowPause, FollowPlay, PlaySongFromServer, Only
<1>9. CASE PlayerStep
  <2>1. PICK q \in Players : \E st \in PlayerStates \ {"idle"}, e \in Events : PostBy(q, st, e)
    BY <1>9 DEF PlayerStep, PrepareDone, PrepareFails, TrackEnds, PlayFails
  <2> QED BY <1>1, <2>1, EventUncut
<1>10. CASE LifeStep
  <2>1. CASE Kill \/ OnDestroy
    BY <2>1 DEF Kill, OnDestroy, Running
  <2>2. CASE Restart
    <3>1. ~music.disturbed /\ \A q \in Players : Quiet(music.mp[q])
      BY <2>2 DEF Restart, StartingQuiet
    <3> QED BY <3>1 DEF Uncut, Quiet
  <2> QED BY <1>10, <2>1, <2>2 DEF LifeStep
<1> QED BY <1>2, <1>7, <1>8, <1>9, <1>10 DEF Next

(* Left undisturbed, a song that sounds is cut by nothing that a player posts  *)
(* and no message or seek, for any list and number of players: only a choice   *)
(* of the user, a song of the server, or the end of the service resets it.     *)
THEOREM SoundIsNotCut == Spec => SoundingNotCut
<1>1. Init => StartingQuiet
  BY DEF Init, InitWith, StartingQuiet, Fresh, NewPlayer, Quiet, Sounding
<1> DEFINE Cut(q) == Sounding(music.mp[q]) /\ music'.mp[q].st = "idle" /\ ~music'.disturbed
           NotCut == \A q \in Players :
                       Cut(q) => \/ requests' # requests
                                 \/ phase' # phase
                                 \/ music'.switchNext # None
<1>2. TypeOK /\ Discipline /\ StartingQuiet /\ [Next]_vars => [NotCut]_vars
  BY StepUncut DEF Uncut
<1>3. SoundingNotCut <=> [][NotCut]_vars
  BY DEF SoundingNotCut
<1> HIDE DEF NotCut
<1>4. Spec => [][NotCut]_vars
  BY <1>1, <1>2, StepStartingQuiet, TypeCorrect, PlayersDisciplined, PTL DEF Spec
<1> QED BY <1>3, <1>4

(* A killed service with nothing outstanding stays silent: no screen, friend   *)
(* or looper finds anything to do, for any list and number of players.         *)
LEMMA StepSilent ==
  ASSUME Next, ~(phase \in {"starting", "running"} \/ Outstanding)
  PROVE  ~Outstanding' \/ phase' = "starting"
<1>1. /\ phase \notin {"starting", "running"} /\ music.switchNext = None /\ requests = {}
      /\ ~lyric /\ \A q \in Players : Quiet(music.mp[q])
  BY DEF Outstanding
<1>2. ~LooperStep
  BY <1>1 DEF LooperStep, StartCommand, SwitchFires, LyricTick, ServerAnswers, HandlePrepared,
              HandleCompletion, HandleUnknown, IgnoreEvent, Heard, Quiet
<1>3. ~PlayerStep
  BY <1>1 DEF PlayerStep, PrepareDone, PrepareFails, TrackEnds, PlayFails, Quiet
<1>4. ~FollowStep /\ ~Kill
  BY <1>1 DEF FollowStep, FollowPause, FollowPlay, PlaySongFromServer, Kill, Running
<1>5. ~UserStep
  BY <1>1 DEF UserStep, ClickSong, ClickPlayPause, HeadsetUnplugged, ReloadList, OpenLyric,
              CloseLyric, LyricPlay, LyricSeek, LyricMode, Running
<1>6. CASE OnDestroy
  BY <1>1, <1>6 DEF OnDestroy, Outstanding
<1>7. CASE Restart
  BY <1>7 DEF Restart
<1> QED BY <1>2, <1>3, <1>4, <1>5, <1>6, <1>7 DEF Next, LifeStep

(* Nothing revives a killed service but what it left behind.                   *)
THEOREM KilledStaysSilent == Spec => SilentAfterKill
<1> DEFINE Silent == ~(phase \in {"starting", "running"} \/ Outstanding)
                     => ~Outstanding' \/ phase' = "starting"
<1>1. [Next]_vars => [Silent]_vars
  BY StepSilent
<1>2. SilentAfterKill <=> [][Silent]_vars
  BY DEF SilentAfterKill
<1> HIDE DEF Silent
<1>3. Spec => [][Silent]_vars
  BY <1>1, PTL DEF Spec
<1> QED BY <1>2, <1>3
==============================================================================
