-------------------------- MODULE FollowingProofs --------------------------
(* Following implements MusicService, for any songs, friends, players and poll *)
(* threads: what is proved of the service alone holds when friends are         *)
(* followed.                                                                   *)
EXTENDS Following, MusicServiceProofs

(* A friend's order is a step of the service, or none.                         *)
LEMMA OrderIsAStep ==
    ASSUME NEW n \in news, news \subseteq Person, HandleNews(n)
    PROVE  [Next]_vars
<1>1. CASE UNCHANGED vars
  BY <1>1
<1>2. CASE phase = "running" /\ Only(Pause(music))
  <2>1. FollowPause
    BY <1>2 DEF HandleNews, FollowPause, Running
  <2> QED
    BY <2>1 DEF FollowStep, Next
<1>3. CASE phase = "running" /\ music.mCurrentSong = n.song /\ Only(Start(music))
  <2>1. n.song # None
    BY ServiceAssumption, NoneIsNoSong DEF Person
  <2>2. FollowPlay
    BY <1>3, <2>1 DEF HandleNews, FollowPlay, Running
  <2> QED
    BY <2>2 DEF FollowStep, Next
<1>4. CASE PlaySongFromServer(n.song)
  BY <1>4 DEF Person, FollowStep, Next
<1> QED
  BY <1>1, <1>2, <1>3, <1>4 DEF HandleNews, Order

(* The types hold when the app is opened.                                     *)
LEMMA FollowTypeInit == FollowInit => FollowTypeOK
<1>1. NoThread \in Thread
  BY DEF Thread
<1> QED
  BY <1>1 DEF FollowInit, FollowTypeOK

(* Everything following adds keeps its type.                                   *)
LEMMA FollowTypeStep == FollowTypeOK /\ [FollowNext]_allVars => FollowTypeOK'
<1> SUFFICES ASSUME FollowTypeOK, [FollowNext]_allVars PROVE FollowTypeOK'
  OBVIOUS
<1> USE DEF FollowTypeOK
<1>1. ASSUME NEW u \in Friends, NEW song \in ServerSongs, ListenTogether(u, song)
      PROVE  FollowTypeOK'
  <2>1. [pc |-> "test", user |-> u] \in Thread
    BY DEF Thread
  <2>2. isruntask' \in BOOLEAN /\ pollers' \in [Pollers -> Thread] /\ following' \in Friends
    BY <1>1, <2>1 DEF ListenTogether, SetFollowPlayInfo
  <2> QED
    BY <1>1, <2>2 DEF ListenTogether
<1>2. CASE NotFollow
  BY <1>2 DEF NotFollow, ClearFollowInfo
<1>3. ASSUME NEW pos \in Positions, ClickRow(pos) PROVE FollowTypeOK'
  BY <1>3 DEF ClickRow, ClearFollowInfo
<1>4. ASSUME NEW u \in Friends, GetUserState(u) PROVE FollowTypeOK'
  BY <1>4 DEF GetUserState
<1>5. ASSUME NEW k \in Pollers, TestTask(k) PROVE FollowTypeOK'
  <2>1. NoThread \in Thread /\ [pollers[k] EXCEPT !.pc = "asleep"] \in Thread
    BY <1>5 DEF TestTask, Thread, NoThread
  <2> QED
    BY <1>5, <2>1 DEF TestTask
<1>6. ASSUME NEW k \in Pollers, Poll(k) PROVE FollowTypeOK'
  <2>1. pollers[k].user \in Friends /\ [pollers[k] EXCEPT !.pc = "test"] \in Thread
    BY <1>6 DEF Poll, Thread, NoThread
  <2> QED
    BY <1>6, <2>1 DEF Poll
<1>7. ASSUME NEW u \in Friends, FriendChanges(u) PROVE FollowTypeOK'
  BY <1>7 DEF FriendChanges, Person, State
<1>8. ASSUME NEW u \in Friends, PollAnswered(u) PROVE FollowTypeOK'
  BY <1>8 DEF PollAnswered, About, Person, State
<1>9. ASSUME NEW u \in Friends, PollFails(u) PROVE FollowTypeOK'
  BY <1>9 DEF PollFails
<1>10. ASSUME NEW n \in news, NewsLost(n) \/ HandleNews(n) PROVE FollowTypeOK'
  BY <1>10 DEF NewsLost, HandleNews
<1>11. CASE PlayersStep \/ UNCHANGED allVars
  BY <1>11 DEF PlayersStep, followVars, allVars
<1>12. CASE RestartProcess
  <2>1. NoThread \in Thread
    BY DEF Thread
  <2> QED
    BY <1>12, <2>1 DEF RestartProcess
<1> QED
  BY <1>1, <1>2, <1>3, <1>4, <1>5, <1>6, <1>7, <1>8, <1>9, <1>10, <1>11, <1>12
  DEF FollowNext, FollowerStep, TaskStep, NetworkStep

(* Every step of the composition is a step of the service or leaves it alone. *)
LEMMA FollowStepIsAStep == FollowTypeOK /\ [FollowNext]_allVars => [Next]_vars
<1> SUFFICES ASSUME FollowTypeOK, [FollowNext]_allVars PROVE [Next]_vars
  OBVIOUS
<1>1. ASSUME NEW u \in Friends, NEW song \in ServerSongs, ListenTogether(u, song)
      PROVE  [Next]_vars
  BY <1>1 DEF ListenTogether, FollowStep, Next
<1>2. ASSUME NotFollow PROVE [Next]_vars
  <2>1. CASE phase = "running"
    BY <1>2, <2>1 DEF NotFollow, FollowPause, Running, FollowStep, Next
  <2>2. CASE phase # "running"
    BY <1>2, <2>2 DEF NotFollow
  <2> QED
    BY <2>1, <2>2
<1>3. ASSUME NEW pos \in Positions, ClickRow(pos) PROVE [Next]_vars
  BY <1>3 DEF ClickRow, UserStep, Next
<1>4. ASSUME NEW n \in news, HandleNews(n) PROVE [Next]_vars
  BY <1>4, OrderIsAStep DEF FollowTypeOK
<1>5. CASE PlayersStep
  BY <1>5 DEF PlayersStep, UserStep, LifeStep, Next
<1>6. CASE RestartProcess
  BY <1>6 DEF RestartProcess, LifeStep, Next
<1>7. CASE UNCHANGED vars
  BY <1>7
<1>8. ASSUME NEW u \in Friends,
             GetUserState(u) \/ FriendChanges(u) \/ PollAnswered(u) \/ PollFails(u)
      PROVE  UNCHANGED vars
  BY <1>8 DEF GetUserState, FriendChanges, PollAnswered, PollFails
<1>9. ASSUME NEW k \in Pollers, TestTask(k) \/ Poll(k) PROVE UNCHANGED vars
  BY <1>9 DEF TestTask, Poll
<1>10. ASSUME NEW n \in news, NewsLost(n) PROVE UNCHANGED vars
  BY <1>10 DEF NewsLost
<1>11. UNCHANGED allVars => UNCHANGED vars
  BY DEF allVars
<1> QED
  BY <1>1, <1>2, <1>3, <1>4, <1>5, <1>6, <1>7, <1>8, <1>9, <1>10, <1>11
  DEF FollowNext, FollowerStep, TaskStep, NetworkStep

(* The variables of following always have their types.                         *)
THEOREM FollowTypeCorrect == FollowSpec => []FollowTypeOK
<1> QED
  BY FollowTypeInit, FollowTypeStep, PTL DEF FollowSpec

(* Whatever friends do and the user follows, the player behaves as the         *)
(* specification of the service alone allows: Order.java calls nothing but the *)
(* methods that FollowStep stands for.                                         *)
THEOREM FollowingImplementsMusicService == FollowSpec => PlaysAsMusicService
<1>1. FollowInit => Init
  BY DEF FollowInit
<1> QED
  BY <1>1, FollowStepIsAStep, FollowTypeCorrect, PTL
  DEF FollowSpec, PlaysAsMusicService, Spec

(* So while nothing disturbs it one song sounds, the one that is shown, also   *)
(* when a friend is followed.                                                  *)
THEOREM OneVoiceTogether == FollowSpec => []OneVoice
<1> QED
  BY FollowingImplementsMusicService, OnlyOneVoice, PTL DEF PlaysAsMusicService
------------------------------------------------------------------------------
(* Why FollowedIsPolled holds: the task is not told to run before there is a   *)
(* service to run it, and a thread does not leave while it is to run.          *)
PolledInv == FollowedIsPolled /\ (phase = "starting" => ~isruntask)

(* A service that runs was started or ran before; nothing but a restart of the *)
(* process starts it again.                                                    *)
LEMMA PhaseStep ==
  PlayersStep \/ (\E pos \in Positions : ClickSong(pos))
    => /\ phase' = "running" => phase \in {"starting", "running"}
       /\ phase' = "starting" => phase = "starting"
<1> SUFFICES ASSUME PlayersStep \/ \E pos \in Positions : ClickSong(pos)
             PROVE  /\ phase' = "running" => phase \in {"starting", "running"}
                    /\ phase' = "starting" => phase = "starting"
  OBVIOUS
<1>1. CASE \/ ClickPlayPause \/ HeadsetUnplugged \/ ReloadList \/ OpenLyric \/ CloseLyric
           \/ LyricPlay \/ LyricSeek \/ LyricMode \/ \E pos \in Positions : ClickSong(pos)
  BY <1>1 DEF ClickPlayPause, HeadsetUnplugged, ReloadList, OpenLyric, CloseLyric,
              LyricPlay, LyricSeek, LyricMode, ClickSong, Only
<1>2. CASE LooperStep
  <2>1. CASE StartCommand
    BY <2>1 DEF StartCommand
  <2>2. CASE SwitchFires \/ LyricTick \/ \E song \in ServerSongs : ServerAnswers(song)
    BY <2>2 DEF SwitchFires, LyricTick, ServerAnswers, Only
  <2>3. ASSUME NEW q \in Players, HandlePrepared(q) \/ HandleCompletion(q) \/ IgnoreEvent(q)
        PROVE  phase' = phase
    BY <2>3 DEF HandlePrepared, HandleCompletion, IgnoreEvent, Only
  <2>4. ASSUME NEW q \in Players, HandleUnknown(q) PROVE phase' = phase
    BY <2>4 DEF HandleUnknown, Only
  <2> QED BY <1>2, <2>1, <2>2, <2>3, <2>4 DEF LooperStep
<1>3. CASE PlayerStep
  BY <1>3 DEF PlayerStep, PrepareDone, PrepareFails, TrackEnds, PlayFails, PostBy, Only
<1>4. CASE Kill \/ OnDestroy
  BY <1>4 DEF Kill, OnDestroy
<1> QED BY <1>1, <1>2, <1>3, <1>4 DEF PlayersStep

(* Whoever is followed stays polled, from step to step.                        *)
LEMMA PolledStep == FollowTypeOK /\ PolledInv /\ [FollowNext]_allVars => PolledInv'
<1> SUFFICES ASSUME FollowTypeOK, PolledInv, [FollowNext]_allVars PROVE PolledInv'
  OBVIOUS
<1> USE DEF PolledInv, FollowedIsPolled
<1>1. ASSUME UNCHANGED <<following, isruntask, pollers>>,
             phase' = "running" => phase \in {"starting", "running"},
             phase' = "starting" => phase = "starting"
      PROVE  PolledInv'
  BY <1>1
<1>2. ASSUME NEW u \in Friends, NEW song \in ServerSongs, ListenTogether(u, song)
      PROVE  PolledInv'
  <2>1. phase' = phase /\ phase \in {"starting", "running"}
    BY <1>2 DEF ListenTogether, PlaySongFromServer, Running, vars
  <2>2. CASE phase = "running"
    <3>1. PICK k \in Pollers : pollers' = [pollers EXCEPT ![k] = [pc |-> "test", user |-> u]]
      BY <1>2, <2>2 DEF ListenTogether, SetFollowPlayInfo
    <3>2. pollers'[k] = [pc |-> "test", user |-> u]
      BY <3>1 DEF FollowTypeOK
    <3>3. following' = u /\ u # None
      BY <1>2, FollowingAssumption DEF ListenTogether, SetFollowPlayInfo
    <3> QED BY <2>1, <2>2, <3>2, <3>3
  <2>3. CASE phase = "starting"
    BY <1>2, <2>1, <2>3 DEF ListenTogether, SetFollowPlayInfo
  <2> QED BY <2>1, <2>2, <2>3
<1>3. ASSUME NotFollow \/ \E pos \in Positions : ClickRow(pos) PROVE PolledInv'
  <2>1. /\ phase' = "running" => phase \in {"starting", "running"}
        /\ phase' = "starting" => phase = "starting"
    <3>1. CASE phase' = phase
      BY <3>1
    <3>2. CASE \E pos \in Positions : ClickSong(pos)
      BY <3>2, PhaseStep
    <3>3. NotFollow => phase' = phase
      BY DEF NotFollow, Only, vars
    <3>4. ASSUME NEW pos \in Positions, ClickRow(pos)
          PROVE  phase' = phase \/ ClickSong(pos)
      BY <3>4 DEF ClickRow, vars
    <3> QED BY <1>3, <3>1, <3>2, <3>3, <3>4
  <2>2. ~isruntask' \/ (phase # "running" /\ isruntask' = isruntask)
    BY <1>3 DEF NotFollow, ClickRow, ClearFollowInfo
  <2> QED BY <2>1, <2>2
<1>4. ASSUME NEW k \in Pollers, TestTask(k) PROVE PolledInv'
  <2>1. UNCHANGED <<phase, following, isruntask>>
    BY <1>4 DEF TestTask, vars
  <2>2. CASE isruntask
    <3>1. pollers' = [pollers EXCEPT ![k] = [@ EXCEPT !.pc = "asleep"]]
      BY <1>4, <2>2 DEF TestTask
    <3>2. \A j \in Pollers : pollers[j].pc # "off" =>
            pollers'[j].pc # "off" /\ pollers'[j].user = pollers[j].user
      BY <3>1 DEF FollowTypeOK, Thread, NoThread
    <3> QED BY <2>1, <3>2
  <2>3. CASE ~isruntask
    BY <2>1, <2>3
  <2> QED BY <2>2, <2>3
<1>5. ASSUME NEW k \in Pollers, Poll(k) PROVE PolledInv'
  <2>1. UNCHANGED <<phase, following, isruntask>>
        /\ pollers' = [pollers EXCEPT ![k].pc = "test"]
    BY <1>5 DEF Poll, vars
  <2>2. \A j \in Pollers : pollers[j].pc # "off" =>
          pollers'[j].pc # "off" /\ pollers'[j].user = pollers[j].user
    BY <2>1 DEF FollowTypeOK, Thread, NoThread
  <2> QED BY <2>1, <2>2
<1>6. ASSUME NEW u \in Friends,
             GetUserState(u) \/ FriendChanges(u) \/ PollAnswered(u) \/ PollFails(u)
      PROVE  PolledInv'
  BY <1>1, <1>6 DEF GetUserState, FriendChanges, PollAnswered, PollFails, vars
<1>7. ASSUME NEW n \in news, NewsLost(n) \/ HandleNews(n) PROVE PolledInv'
  <2>1. phase' = phase /\ UNCHANGED <<following, isruntask, pollers>>
    BY <1>7 DEF NewsLost, HandleNews, Order, Only, PlaySongFromServer, vars
  <2> QED BY <1>1, <2>1
<1>8. CASE PlayersStep
  <2>1. UNCHANGED <<following, isruntask, pollers>>
    BY <1>8 DEF PlayersStep, followVars
  <2>2. /\ phase' = "running" => phase \in {"starting", "running"}
        /\ phase' = "starting" => phase = "starting"
    BY <1>8, PhaseStep
  <2> QED BY <1>1, <2>1, <2>2
<1>9. CASE RestartProcess
  BY <1>9 DEF RestartProcess, Restart
<1>10. CASE UNCHANGED allVars
  BY <1>1, <1>10 DEF allVars, vars, followVars
<1> QED BY <1>2, <1>3, <1>4, <1>5, <1>6, <1>7, <1>8, <1>9, <1>10
  DEF FollowNext, FollowerStep, TaskStep, NetworkStep

(* With any friends and any number of threads, a friend who is followed by a   *)
(* running service that is to poll has a thread polling for them: neither a    *)
(* switch between friends nor a stop and start within one sleep loses it.      *)
THEOREM FollowedIsAlwaysPolled == FollowSpec => []FollowedIsPolled
<1>1. FollowInit => PolledInv
  BY DEF FollowInit, PolledInv, FollowedIsPolled
<1>2. PolledInv => FollowedIsPolled
  BY DEF PolledInv
<1> QED BY <1>1, <1>2, PolledStep, FollowTypeCorrect, PTL DEF FollowSpec
------------------------------------------------------------------------------
(* The song the service has becomes another one by playSong() alone, or it is  *)
(* one of the list.                                                            *)
Chosen(s, t) ==
    t.mCurrentSong # s.mCurrentSong => t.mCurrentSong = None \/ OwnSong(t.mCurrentSong)

(* The controls leave it.                                                      *)
LEMMA ControlKeepsSong ==
  ASSUME NEW s \in Service
  PROVE  /\ \A t \in {Start(s), Pause(s), SeekTo(s), ReadProgress(s), SwitchNextPlayMode(s),
                      [s EXCEPT !.npe = TRUE], StopPlayBack(s), KillMyself(s)} :
              t.mCurrentSong = s.mCurrentSong
         /\ \A pos : SwitchNextSong(s, pos).mCurrentSong = s.mCurrentSong
         /\ \A behind \in BOOLEAN : OnPrepared(s, behind).mCurrentSong = s.mCurrentSong
         /\ \A p \in Players : OnErrorUnknown(s, p).mCurrentSong = s.mCurrentSong
<1>1. \A r \in Service : /\ PlayerStart(r).mCurrentSong = r.mCurrentSong
                         /\ PlayerPause(r).mCurrentSong = r.mCurrentSong
                         /\ Fault(r).mCurrentSong = r.mCurrentSong
  BY DEF PlayerStart, PlayerPause, Fault, Service
<1>2. \A r \in Service : /\ NotifyPlaying(r).mCurrentSong = r.mCurrentSong
                         /\ NotifyPause(r).mCurrentSong = r.mCurrentSong
  BY NotifyFrame
<1>3. ASSUME NEW r \in Service
      PROVE  /\ Start(r).mCurrentSong = r.mCurrentSong /\ Pause(r).mCurrentSong = r.mCurrentSong
             /\ SeekTo(r).mCurrentSong = r.mCurrentSong
  <2>1. [r EXCEPT !.npe = TRUE].mCurrentSong = r.mCurrentSong
    BY DEF Service
  <2> QED BY <1>1, <1>2, <2>1, PlayerStartType, PlayerPauseType DEF Start, Pause, SeekTo
<1>4. /\ [s EXCEPT !.npe = TRUE].mCurrentSong = s.mCurrentSong
      /\ SwitchNextPlayMode(s).mCurrentSong = s.mCurrentSong
      /\ StopPlayBack(s).mCurrentSong = s.mCurrentSong
      /\ KillMyself(s).mCurrentSong = s.mCurrentSong
      /\ \A p \in Players : OnErrorUnknown(s, p).mCurrentSong = s.mCurrentSong
  BY DEF Service, SwitchNextPlayMode, StopPlayBack, KillMyself, OnErrorUnknown
<1>5. ReadProgress(s).mCurrentSong = s.mCurrentSong
  BY <1>1, <1>4 DEF ReadProgress
<1>6. \A pos : SwitchNextSong(s, pos).mCurrentSong = s.mCurrentSong
  BY <1>4, StopPlayBackType DEF SwitchNextSong, Service
<1>7. ASSUME NEW behind \in BOOLEAN PROVE OnPrepared(s, behind).mCurrentSong = s.mCurrentSong
  <2> DEFINE t == [s EXCEPT !.currentState = "prepared"]
  <2>1. t \in Service /\ t.mCurrentSong = s.mCurrentSong
    BY DEF Service, PlayStates
  <2> HIDE DEF t
  <2>2. SeekTo(t) \in Service
    BY <2>1, ControlType
  <2> QED BY <1>3, <2>1, <2>2 DEF OnPrepared, t
<1> QED BY <1>3, <1>4, <1>5, <1>6, <1>7

(* A song of the list, the chosen one or the next.                             *)
LEMMA ListSongChosen ==
  ASSUME NEW s \in Service, NEW p \in Players, NEW ok \in BOOLEAN
  PROVE  /\ \A pos \in Positions : Chosen(s, PlayCurrentIndexSong(s, pos, p, ok))
         /\ Chosen(s, Completed(s, p, ok))
<1>1. ASSUME NEW r \in Service, NEW pos \in Positions
      PROVE  \/ PlayCurrentIndexSong(r, pos, p, ok).mCurrentSong = r.mCurrentSong
             \/ OwnSong(PlayCurrentIndexSong(r, pos, p, ok).mCurrentSong)
  <2>1. CASE r.mSongs \in {None, <<>>}
    BY <2>1 DEF PlayCurrentIndexSong
  <2>2. CASE r.mSongs \notin {None, <<>>}
    <3>1. r.mSongs = LocalSongs
      BY <2>2 DEF Service, Lists
    <3>2. PlayCurrentIndexSong(r, pos, p, ok).mCurrentSong = LocalSongs[pos + 1]
      BY <2>2, <3>1 DEF PlayCurrentIndexSong, PrepareToPlay, Service
    <3>3. pos + 1 \in DOMAIN LocalSongs
      BY ServiceAssumption DEF Positions
    <3> QED BY <3>2, <3>3 DEF OwnSong
  <2> QED BY <2>1, <2>2
<1>2. \A pos \in Positions : Chosen(s, PlayCurrentIndexSong(s, pos, p, ok))
  BY <1>1 DEF Chosen
<1>3. Chosen(s, Completed(s, p, ok))
  <2> DEFINE c == [s EXCEPT !.currentState = "completed"]
             next == IF c.mCurrentIndex + 1 >= Len(c.mSongs) THEN 0 ELSE c.mCurrentIndex + 1
             d == [c EXCEPT !.mCurrentIndex = next]
  <2>1. c \in Service /\ c.mCurrentIndex \in Positions /\ c.mCurrentSong = s.mCurrentSong
    BY DEF Service, PlayStates
  <2> HIDE DEF c
  <2>2. ASSUME c.mSongs \notin {None, <<>>} PROVE Chosen(c, PlayNextSong(c, p, ok))
    <3>1. next \in Positions
      BY <2>1, <2>2, LocalList DEF Service, Lists
    <3> HIDE DEF next
    <3>2. d \in Service /\ d.mCurrentSong = c.mCurrentSong
      BY <2>1, <3>1, IndexType DEF Service
    <3> HIDE DEF d
    <3>3. StopPlayBack(d) \in Service /\ StopPlayBack(d).mCurrentSong = c.mCurrentSong
      BY <3>2, StopPlayBackType, ControlKeepsSong
    <3> QED BY <1>1, <3>1, <3>3 DEF PlayNextSong, Chosen, d, next
  <2>3. Chosen(c, c) /\ Chosen(c, PlayCurrentIndexSong(c, c.mCurrentIndex, p, ok))
    BY <1>1, <2>1 DEF Chosen
  <2>4. Chosen(c, Completed(s, p, ok))
    BY <2>2, <2>3 DEF Completed, c
  <2> QED BY <2>1, <2>4 DEF Chosen
<1> QED BY <1>2, <1>3

(* With no answer to come, every step of the service keeps the song, takes one *)
(* of the list, or forgets it.                                                 *)
LEMMA StepChosen ==
  ASSUME TypeOK, Next, requests = {}
  PROVE  Chosen(music, music')
<1>1. music \in Service
  BY DEF TypeOK
<1>2. \A t : t.mCurrentSong = music.mCurrentSong => Chosen(music, t)
  BY DEF Chosen
<1>3. [music EXCEPT !.mSongs = LocalSongs] \in Service
      /\ [music EXCEPT !.mSongs = LocalSongs].mCurrentSong = music.mCurrentSong
  BY <1>1 DEF Service, Lists
<1>4. CASE UserStep \/ FollowStep
  <2> DEFINE m == [music EXCEPT !.mSongs = LocalSongs]
  <2>1. CASE (\E pos \in Positions : ClickSong(pos)) \/ ClickPlayPause
    <3>1. m \in Service /\ m.mCurrentSong = music.mCurrentSong
      BY <1>3
    <3> HIDE DEF m
    <3>2. \A pos : SwitchNextSong(m, pos).mCurrentSong = music.mCurrentSong
      BY <3>1, ControlKeepsSong
    <3>3. CASE ClickPlayPause
      <4>1. music' \in {Start(music), Pause(music), SwitchNextSong(m, music.quit.index)}
        BY <3>3 DEF ClickPlayPause, Only, m
      <4> QED BY <1>1, <1>2, <3>2, <4>1, ControlKeepsSong
    <3>4. CASE \E pos \in Positions : ClickSong(pos)
      <4>1. PICK pos \in Positions : music' = music \/ music' = SwitchNextSong(m, pos)
        BY <3>4 DEF ClickSong, m
      <4> QED BY <1>2, <3>2, <4>1
    <3> QED BY <2>1, <3>3, <3>4
  <2>2. CASE ReloadList \/ CloseLyric \/ \E song \in ServerSongs : PlaySongFromServer(song)
    BY <1>2, <2>2 DEF ReloadList, CloseLyric, PlaySongFromServer
  <2>3. CASE \/ HeadsetUnplugged \/ OpenLyric \/ LyricPlay \/ LyricSeek \/ LyricMode
             \/ FollowPause \/ FollowPlay
    <3>1. music' \in {Start(music), Pause(music), SeekTo(music), ReadProgress(music),
                      SwitchNextPlayMode(music), [music EXCEPT !.npe = TRUE]}
      BY <2>3 DEF HeadsetUnplugged, OpenLyric, LyricPlay, LyricSeek, LyricMode, FollowPause,
                  FollowPlay, Only
    <3>2. /\ \A t \in {Start(music), Pause(music), SeekTo(music), ReadProgress(music),
                       SwitchNextPlayMode(music)} : t.mCurrentSong = music.mCurrentSong
          /\ [music EXCEPT !.npe = TRUE].mCurrentSong = music.mCurrentSong
      BY <1>1, ControlKeepsSong
    <3> QED BY ONLY <1>2, <3>1, <3>2
  <2> QED BY <1>4, <2>1, <2>2, <2>3 DEF UserStep, FollowStep
<1>5. CASE PlayerStep
  <2>1. PICK q \in Players : \E st, e : PostBy(q, st, e)
    BY <1>5 DEF PlayerStep, PrepareDone, PrepareFails, TrackEnds, PlayFails
  <2>2. \A v : [music EXCEPT !.mp[q] = v].mCurrentSong = music.mCurrentSong
    BY ONLY <1>1 DEF Service
  <2>3. \E v : music' = [music EXCEPT !.mp[q] = v]
    BY ONLY <2>1 DEF PostBy, Only
  <2> QED BY ONLY <1>2, <2>2, <2>3
<1>6. CASE LifeStep
  <2>1. CASE Kill
    BY <1>1, <1>2, <2>1, ControlKeepsSong DEF Kill
  <2>2. CASE OnDestroy
    BY <1>1, <1>2, <2>2 DEF OnDestroy
  <2>3. CASE Restart
    BY <2>3 DEF Restart, Fresh, Chosen
  <2> QED BY <1>6, <2>1, <2>2, <2>3 DEF LifeStep
<1>7. CASE LooperStep
  <2>1. CASE StartCommand
    <3> DEFINE i == Head(intents)
               s == [Abandon(music) EXCEPT !.mSongs = i.list, !.mCurrentIndex = i.pos]
    <3>1. i.list \in Lists /\ i.pos \in Positions
      BY <2>1, LocalList DEF StartCommand, TypeOK, Intents, HomeIntent, Lists
    <3>2. s \in Service /\ s.mCurrentSong = music.mCurrentSong
      BY <1>1, <3>1 DEF Abandon, Service
    <3>3. PICK p \in Players, ok \in BOOLEAN : music' = PlayCurrentIndexSong(s, i.pos, p, ok)
      BY <2>1 DEF StartCommand, Free
    <3> HIDE DEF s, i
    <3> QED BY <3>1, <3>2, <3>3, ListSongChosen DEF Chosen
  <2>2. CASE SwitchFires
    <3> DEFINE s == [Abandon(music) EXCEPT !.switchNext = None]
    <3>1. s \in Service /\ s.mCurrentSong = music.mCurrentSong /\ music.switchNext \in Positions
      BY <1>1, <2>2 DEF Abandon, Service, SwitchFires
    <3>2. PICK p \in Players, ok \in BOOLEAN :
            music' = PlayCurrentIndexSong(s, music.switchNext, p, ok)
      BY <2>2 DEF SwitchFires, Only, Free
    <3> HIDE DEF s
    <3> QED BY <3>1, <3>2, ListSongChosen DEF Chosen
  <2>3. CASE LyricTick
    BY <1>1, <1>2, <2>3, ControlKeepsSong DEF LyricTick, Only
  <2>4. ASSUME NEW q \in Players, music.mp[q].events # <<>>
        PROVE  /\ Taken(q) \in Service /\ Taken(q).mCurrentSong = music.mCurrentSong
               /\ \A t : Chosen(Taken(q), t) => Chosen(music, t)
    BY <1>1, <2>4, TakenType DEF Taken, Service, Chosen
  <2>5. ASSUME NEW q \in Players, HandlePrepared(q) PROVE Chosen(music, music')
    BY <1>2, <2>4, <2>5, ControlKeepsSong DEF HandlePrepared, Heard, Only
  <2>6. ASSUME NEW q \in Players, HandleCompletion(q) PROVE Chosen(music, music')
    BY <2>4, <2>6, ListSongChosen DEF HandleCompletion, Heard, Only, Free
  <2>7. ASSUME NEW q \in Players, HandleUnknown(q) PROVE Chosen(music, music')
    <3>1. PICK p \in Players :
            LET s == OnErrorUnknown(Taken(q), p) IN
            IF s.mp[q].heard /\ ~s.npe
            THEN \E r \in Free(s), ok \in BOOLEAN : Only(Completed(s, r, ok))
            ELSE Only(s)
      BY ONLY <2>7 DEF HandleUnknown, Free
    <3> DEFINE s == OnErrorUnknown(Taken(q), p)
    <3>2. s \in Service /\ s.mCurrentSong = music.mCurrentSong
      <4>1. Taken(q) \in Service /\ Taken(q).mCurrentSong = music.mCurrentSong
        BY <2>4, <2>7 DEF HandleUnknown, Heard
      <4>2. s \in Service
        BY <4>1, HandlerType
      <4>3. s.mCurrentSong = Taken(q).mCurrentSong
        BY <4>1, ControlKeepsSong
      <4> QED BY <4>1, <4>2, <4>3
    <3>3. music' = s \/ \E r \in Players, ok \in BOOLEAN : music' = Completed(s, r, ok)
      BY <3>1 DEF Only, Free
    <3> HIDE DEF s
    <3> QED BY <1>2, <3>2, <3>3, ListSongChosen DEF Chosen
  <2>8. ASSUME NEW q \in Players, IgnoreEvent(q) PROVE Chosen(music, music')
    BY <1>2, <2>4, <2>8 DEF IgnoreEvent, Only
  <2>9. \A song \in ServerSongs : ~ServerAnswers(song)
    BY DEF ServerAnswers
  <2> QED BY <1>7, <2>1, <2>2, <2>3, <2>5, <2>6, <2>7, <2>8, <2>9 DEF LooperStep
<1> QED BY <1>4, <1>5, <1>6, <1>7 DEF Next

(* With nobody followed, before and after, nothing is asked of the server: an  *)
(* order is carried out for the friend followed only, and the buttons begin to *)
(* follow one.                                                                 *)
LEMMA StepAsksNothing ==
  ASSUME FollowTypeOK, FollowNext, following = None, following' = None, requests = {}
  PROVE  requests' = {}
<1>1. \A u \in Friends, song \in ServerSongs : ~ListenTogether(u, song)
  BY FollowingAssumption DEF ListenTogether, SetFollowPlayInfo
<1>2. ASSUME NotFollow PROVE FALSE
  BY <1>2 DEF NotFollow
<1>3. ASSUME NEW pos \in Positions, ClickRow(pos) PROVE requests' = {}
  BY <1>3 DEF ClickRow, ClickSong, vars
<1>4. ASSUME NEW u \in Friends, \/ GetUserState(u) \/ FriendChanges(u)
                                \/ PollAnswered(u) \/ PollFails(u)
      PROVE  requests' = {}
  BY <1>4 DEF GetUserState, FriendChanges, PollAnswered, PollFails, vars
<1>5. CASE TaskStep
  BY <1>5 DEF TaskStep, TestTask, Poll, vars
<1>6. ASSUME NEW n \in news, NewsLost(n) PROVE requests' = {}
  BY <1>6 DEF NewsLost, vars
<1>7. ASSUME NEW n \in news, HandleNews(n) PROVE requests' = {}
  <2>1. following # n.id
    BY FollowingAssumption DEF FollowTypeOK, Person
  <2> QED BY <1>7, <2>1 DEF HandleNews, Order, vars
<1>8. CASE PlayersStep
  BY <1>8 DEF PlayersStep, ClickPlayPause, HeadsetUnplugged, ReloadList, OpenLyric, CloseLyric,
              LyricPlay, LyricSeek, LyricMode, LooperStep, PlayerStep, Kill, OnDestroy,
              StartCommand, SwitchFires, LyricTick, ServerAnswers, HandlePrepared,
              HandleCompletion, HandleUnknown, IgnoreEvent, PrepareDone, PrepareFails,
              TrackEnds, PlayFails, PostBy, Only
<1>9. CASE RestartProcess
  BY <1>9 DEF RestartProcess, Restart
<1> QED
  BY <1>1, <1>2, <1>3, <1>4, <1>5, <1>6, <1>7, <1>8, <1>9
  DEF FollowNext, FollowerStep, NetworkStep

(* For any friends, lists, players and poll threads: once nobody is followed   *)
(* and no song is asked for, whatever news are still on their way, the song    *)
(* changes to one of the user's list only, until a friend is followed again.   *)
THEOREM UserChoiceAlwaysStands == FollowSpec => UserChoiceStands
<1> DEFINE Stands == following = None /\ requests = {} /\ following' = None =>
                       /\ requests' = {}
                       /\ music'.mCurrentSong # music.mCurrentSong =>
                            music'.mCurrentSong = None \/ OwnSong(music'.mCurrentSong)
<1>1. TypeOK /\ FollowTypeOK /\ [FollowNext]_allVars => [Stands]_allVars
  <2> SUFFICES ASSUME TypeOK, FollowTypeOK, FollowNext, following = None, requests = {},
                      following' = None
               PROVE  /\ requests' = {}
                      /\ music'.mCurrentSong # music.mCurrentSong =>
                           music'.mCurrentSong = None \/ OwnSong(music'.mCurrentSong)
    OBVIOUS
  <2>1. requests' = {}
    BY StepAsksNothing
  <2>2. CASE UNCHANGED vars
    BY <2>1, <2>2 DEF vars
  <2>3. CASE Next
    BY <2>1, <2>3, StepChosen DEF Chosen
  <2> QED BY <2>2, <2>3, FollowStepIsAStep
<1>2. UserChoiceStands <=> [][Stands]_allVars
  BY DEF UserChoiceStands
<1> HIDE DEF Stands
<1>3. FollowSpec => []TypeOK
  BY FollowingImplementsMusicService, TypeCorrect, PTL DEF PlaysAsMusicService
<1>4. FollowSpec => [][Stands]_allVars
  BY <1>1, <1>3, FollowTypeCorrect, PTL DEF FollowSpec
<1> QED BY <1>2, <1>4
==============================================================================
