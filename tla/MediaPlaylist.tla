----------------------------- MODULE MediaPlaylist -----------------------------
(***************************************************************************)
(* MediaProvider implements Playlist: as long as the music folder does not *)
(* change there and nobody leaves the root, its titles are a playlist.     *)
(* PlaylistAssumption says that: every content of the disk has the same    *)
(* root, clients select its titles and step forward, and pass no paths.    *)
(***************************************************************************)
EXTENDS MediaProvider

CONSTANT RootFolder   \* the only listing of the root

Tracks == RootFolder.files

ASSUME PlaylistAssumption ==
  /\ RootFolder \in Listing /\ Len(Tracks) > 0
  /\ \A d \in Disks : <<>> \in DOMAIN d /\ d[<<>>] = RootFolder
  /\ PathVectors = {} /\ Nums \subseteq {1}
  /\ \A title \in ClientLines :
       /\ title.type = "Title"
       /\ \E k \in DOMAIN Tracks : title.id = Len(RootFolder.dirs) + k - 1

\* Ids count the folders first, so the titles start where the folders end.
Track ==
  IF m_playingTitleID < 0 THEN 0
  ELSE m_playingTitleID - Len(RootFolder.dirs) + 1

List == INSTANCE Playlist
          WITH Size <- Len(Tracks), track <- Track, mode <- player.mPlayState

\* Every step of the server is a step of the playlist or none.
PlaylistSpec == List!Spec

\* Titles follow each other in order; only a client that selects one leaves it.
OrderKept ==
  [][ (\E title \in ClientLines : selectTitle(title))
      \/ List!Continue \/ UNCHANGED <<Track, player.mPlayState>> ]_vars

\* The file in the player is the title the playlist is at.
TrackIsPlayed ==
  Track # 0 => player.file = <<Tracks[Track]>>

-----------------------------------------------------------------------------
\* Titles are finite, and the main loop delivers every event.
FairSpec == Spec /\ WF_vars(TitleEnds) /\ WF_vars(DecodeStop)

\* From some time on the server runs, is not paused, and nobody chooses titles;
\* clients may still ask for the list and skip titles.
LeftPlaying ==
  /\ <>[](status = "up" /\ player.mPlayState = "PLAYING")
  /\ <>[][\A title \in ClientLines : ~selectTitle(title)]_vars

\* A car left on its own plays every title of the root again and again.
EveryTitlePlays ==
  LeftPlaying =>
    \A k \in DOMAIN Tracks :
      []<>(player.file = <<Tracks[k]>> /\ player.playing)
=============================================================================
