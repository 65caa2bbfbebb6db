----------------------------- MODULE Following -----------------------------
(* Listening together: this user follows a friend, and the player does what    *)
(* the friend's player does (Order.java, YaozuApplication, the poll task of    *)
(* MusicService, the screens of a friend).  It composes with MusicService,     *)
(* whose friend's orders come from here and from nowhere else.                 *)
(*                                                                             *)
(* News of a friend come pushed by the server and as answers to polls: both    *)
(* may be lost, overtake one another, and say what was true when they left.    *)
EXTENDS MusicService

CONSTANTS Friends,
          Pollers       \* identities for poll threads (bound)

ASSUME FollowingAssumption == None \notin Friends

VARIABLES friends,      \* what the server knows of each friend's player
          following,    \* isFollowPlay and followUserid; None: not following
          isruntask,    \* the field of the service
          pollers,      \* the threads of startGetStateTask
          polls,        \* friends the server was asked for, answer not yet sent
          news          \* pushes and answers on their way

followVars == <<friends, following, isruntask, pollers, polls, news>>
allVars    == <<vars, followVars>>
------------------------------------------------------------------------------
State   == [song : ServerSongs, state : {"playing", "pause"}]
Person  == [id : Friends, song : ServerSongs, state : {"playing", "pause"}]
AboutMe(u) == [id |-> u, song |-> music.mCurrentSong,   \* mutant: the own song
               state |-> friends[u].state]

About(u) == [id |-> u, song |-> friends[u].song, state |-> friends[u].state]

(* test: about to read isruntask; asleep: for five seconds, then it polls.     *)
NoThread == [pc |-> "off", user |-> None]
Thread   == [pc : {"test", "asleep"}, user : Friends] \cup {NoThread}

FollowInit ==
    /\ Init
    /\ friends \in [Friends -> State]
    /\ following = None
    /\ isruntask = FALSE
    /\ pollers = [k \in Pollers |-> NoThread]
    /\ polls = {}
    /\ news = {}

(* YaozuApplication.setFollowPlayInfo: always a thread more, the ones that run *)
(* keep running; without a service there is nothing to poll with.              *)
SetFollowPlayInfo(u) ==
    /\ following' = u
    /\ IF phase = "running"
       THEN /\ isruntask' = TRUE
            /\ \E k \in Pollers :
                 /\ pollers[k].pc = "off"
                 /\ pollers' = [pollers EXCEPT ![k] = [pc |-> "test", user |-> u]]
       ELSE UNCHANGED <<isruntask, pollers>>

KeepTask ==                                  \* mutant: isruntask stays set
    following' = None /\ UNCHANGED <<isruntask, pollers>>

ClearFollowInfo ==
    /\ following' = None
    /\ isruntask' = IF phase = "running" THEN FALSE ELSE isruntask
    /\ UNCHANGED pollers
------------------------------------------------------------------------------
(* The "listen together" button of a friend's page or chat, with a song that   *)
(* screen was once told of.  The page does not mind that there is no service.  *)
ListenTogether(u, song) ==
    /\ \/ PlaySongFromServer(song)
       \/ Alive /\ phase = "starting" /\ UNCHANGED vars
    /\ SetFollowPlayInfo(u)
    /\ UNCHANGED <<friends, polls, news>>

(* The "do not follow" button of the friend's page.                            *)
NotFollow ==
    /\ Alive /\ following # None
    /\ IF phase = "running" THEN Only(Pause(music)) ELSE UNCHANGED vars
    /\ ClearFollowInfo
    /\ UNCHANGED <<friends, polls, news>>

(* A row of the local list ends the following, even the row that is current.   *)
ClickRow(pos) ==
    /\ \/ ClickSong(pos)
       \/ Running /\ shown # <<>> /\ music.mCurrentIndex = pos /\ UNCHANGED vars
    /\ ClearFollowInfo
    /\ UNCHANGED <<friends, polls, news>>

(* A friend's page or chat opens and asks how the friend is.                   *)
GetUserState(u) ==
    /\ Alive /\ u \notin polls
    /\ polls' = polls \cup {u}
    /\ UNCHANGED <<vars, friends, following, isruntask, pollers, news>>
------------------------------------------------------------------------------
(* The poll task.                                                              *)
NeverTest(k) ==                              \* mutant: the loop does not end
    /\ Alive /\ pollers[k].pc = "test"
    /\ pollers' = [pollers EXCEPT ![k].pc = "asleep"]
    /\ UNCHANGED <<vars, friends, following, isruntask, polls, news>>

TestTask(k) ==
    /\ Alive /\ pollers[k].pc = "test"
    /\ pollers' = [pollers EXCEPT ![k] = IF isruntask THEN [@ EXCEPT !.pc = "asleep"]
                                         ELSE NoThread]
    /\ UNCHANGED <<vars, friends, following, isruntask, polls, news>>

Poll(k) ==
    /\ Alive /\ pollers[k].pc = "asleep"
    /\ pollers' = [pollers EXCEPT ![k].pc = "test"]
    /\ polls' = polls \cup {pollers[k].user}
    /\ UNCHANGED <<vars, friends, following, isruntask, news>>

(* The server and the network.                                                 *)
FriendChanges(u) ==
    /\ \E s \in State, pushed \in BOOLEAN :
         /\ s # friends[u]
         /\ friends' = [friends EXCEPT ![u] = s]
         /\ news' = IF pushed /\ Alive
                    THEN news \cup {[id |-> u, song |-> s.song, state |-> s.state]}
                    ELSE news
    /\ UNCHANGED <<vars, following, isruntask, pollers, polls>>

PollAnswered(u) ==
    /\ Alive /\ u \in polls
    /\ polls' = polls \ {u}
    /\ news' = news \cup {About(u)}
    /\ UNCHANGED <<vars, friends, following, isruntask, pollers>>

PollFails(u) ==
    /\ Alive /\ u \in polls
    /\ polls' = polls \ {u}
    /\ UNCHANGED <<vars, friends, following, isruntask, pollers, news>>

NewsLost(n) ==
    /\ n \in news
    /\ news' = news \ {n}
    /\ UNCHANGED <<vars, friends, following, isruntask, pollers, polls>>

(* Order.switchToNextSongOrPlayPause                                           *)
OrderAnyone(n) ==                            \* mutant: whoever the news are of
    IF phase # "running" THEN UNCHANGED vars
    ELSE IF n.state = "pause" THEN Only(Pause(music))
    ELSE IF music.mCurrentSong = n.song THEN Only(Start(music))
    ELSE PlaySongFromServer(n.song)

OrderAtOnce(n) ==                            \* mutant: the server is not asked
    IF following # n.id \/ phase # "running" THEN UNCHANGED vars
    ELSE IF n.state = "pause" THEN Only(Pause(music))
    ELSE IF music.mCurrentSong = n.song THEN Only(Start(music))
    ELSE \E p \in Free(music) : Only(PlaySong(music, n.song, p, TRUE))

OrderNewSongs(n) ==                          \* mutant: a paused song stays paused
    IF following # n.id \/ phase # "running" THEN UNCHANGED vars
    ELSE IF n.state = "pause" THEN Only(Pause(music))
    ELSE IF music.mCurrentSong = n.song THEN UNCHANGED vars
    ELSE PlaySongFromServer(n.song)

Order(n) ==
    IF following # n.id \/ phase # "running" THEN UNCHANGED vars
    ELSE IF n.state = "pause" THEN Only(Pause(music))
    ELSE IF music.mCurrentSong = n.song THEN Only(Start(music))
    ELSE PlaySongFromServer(n.song)

HandleNews(n) ==
    /\ Alive /\ n \in news
    /\ news' = news \ {n}
    /\ Order(n)
    /\ UNCHANGED <<friends, following, isruntask, pollers, polls>>
------------------------------------------------------------------------------
(* The other steps of the service and of the user; a restart leaves nothing    *)
(* but what the server knows.                                                  *)
PlayersStep ==
    /\ \/ ClickPlayPause \/ HeadsetUnplugged \/ ReloadList
       \/ OpenLyric \/ CloseLyric \/ LyricPlay \/ LyricSeek \/ LyricMode
       \/ LooperStep \/ PlayerStep \/ Kill \/ OnDestroy
    /\ UNCHANGED followVars

RestartProcess ==
    /\ Restart
    /\ following' = None
    /\ isruntask' = FALSE
    /\ pollers' = [k \in Pollers |-> NoThread]
    /\ polls' = {}
    /\ news' = {}
    /\ UNCHANGED friends

FollowerStep ==
    \/ \E u \in Friends, song \in ServerSongs : ListenTogether(u, song)
    \/ NotFollow
    \/ \E pos \in Positions : ClickRow(pos)
    \/ \E u \in Friends : GetUserState(u)

TaskStep == \E k \in Pollers : TestTask(k) \/ Poll(k)

NetworkStep ==
    \/ \E u \in Friends : FriendChanges(u) \/ PollAnswered(u) \/ PollFails(u)
    \/ \E n \in news : NewsLost(n) \/ HandleNews(n)

FollowNext == FollowerStep \/ TaskStep \/ NetworkStep \/ PlayersStep \/ RestartProcess

FollowSpec == FollowInit /\ [][FollowNext]_allVars
------------------------------------------------------------------------------
FollowTypeOK ==
    /\ friends \in [Friends -> State]
    /\ following \in Friends \cup {None}
    /\ isruntask \in BOOLEAN
    /\ pollers \in [Pollers -> Thread]
    /\ polls \subseteq Friends
    /\ news \subseteq Person

(* Whoever is followed is polled as long as the task is to run, and there is   *)
(* no task to run but for a friend who is followed: not after a switch from    *)
(* one friend to another, nor a stop and a new start within one sleep.         *)
FollowedIsPolled ==
    phase = "running" /\ isruntask =>
        /\ following # None
        /\ \E k \in Pollers : pollers[k].pc # "off" /\ pollers[k].user = following

OwnSong(s) == \E i \in DOMAIN LocalSongs : LocalSongs[i] = s

(* The user's choice stands: once nobody is followed and no song is asked of   *)
(* the server, no news of a friend, however late, changes the song.            *)
UserChoiceStands ==
    [][following = None /\ requests = {} /\ following' = None =>
         /\ requests' = {}
         /\ music'.mCurrentSong # music.mCurrentSong =>
              music'.mCurrentSong = None \/ OwnSong(music'.mCurrentSong)]_allVars

(* The steps of the player are the ones MusicService allows.                   *)
PlaysAsMusicService == Spec
------------------------------------------------------------------------------
(* Threads run, requests are answered or time out, news is handled or lost; a  *)
(* player prepares, however often its queue is at the bound.                   *)
FollowFairness ==
    /\ Fairness
    /\ \A k \in Pollers : WF_allVars(TestTask(k)) /\ WF_allVars(Poll(k))
    /\ \A u \in Friends : WF_allVars(PollAnswered(u) \/ PollFails(u))
    /\ \A n \in Person : WF_allVars(HandleNews(n))
    /\ \A song \in ServerSongs : WF_vars(ServerAnswers(song))
    /\ \A q \in Players : SF_vars(PrepareDone(q))

FairFollowSpec == FollowSpec /\ FollowFairness

(* A task that is told to stop, and not to start again, stops all its threads. *)
PollingEnds ==
    <>[]~isruntask => <>[](\A k \in Pollers : pollers[k].pc = "off" \/ music.npe)

(* From some time on this user follows u and touches nothing, u listens to     *)
(* song, every request succeeds, every file opens, loads and plays to its end. *)
SmoothStep ==
    \/ SwitchFires \/ StartCommand
    \/ \E s \in ServerSongs : ServerAnswers(s) /\ music' # music
    \/ \E q \in Players : \/ HandlePrepared(q) \/ HandleCompletion(q) \/ HandleUnknown(q)
                          \/ IgnoreEvent(q) \/ PrepareDone(q) \/ TrackEnds(q)

Together(u, song) ==
    /\ <>[](/\ phase = "running" /\ following = u /\ isruntask
            /\ friends[u] = [song |-> song, state |-> "playing"])
    /\ <>[][/\ \/ TaskStep
               \/ \E v \in Friends : PollAnswered(v)
               \/ \E n \in news : HandleNews(n)
               \/ UNCHANGED followVars /\ SmoothStep
            /\ \/ UNCHANGED music.mMediaPlayer
               \/ music'.mMediaPlayer # None /\ Current(music').loading]_allVars

(* "If it is the friend followed, the player will switch to the friend's next  *)
(* song, or play or pause": then it also plays it.                             *)
CatchesUp ==
    \A u \in Friends, song \in ServerSongs :
        Together(u, song) => []<>(Plays(song) \/ music.npe)

(* The song is current, and its player has failed or was stopped and reset.    *)
Failed(song) ==
    /\ music.mMediaPlayer # None /\ music.mCurrentSong = song
    /\ ~Current(music).loading /\ Current(music).st \in {"idle", "error"}

(* So it does, whatever news were lost or came late, unless its player fails.  *)
CatchesUpUnlessFailed ==
    \A u \in Friends, song \in ServerSongs :
        Together(u, song) => []<>(Plays(song) \/ music.npe \/ Failed(song))
==============================================================================
