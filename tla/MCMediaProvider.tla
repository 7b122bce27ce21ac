---------------------------- MODULE MCMediaProvider ----------------------------
(***************************************************************************)
(* Small instances of MediaProvider: two music folders and the lines,      *)
(* paths and positions that clients and the engine may come up with.       *)
(***************************************************************************)
EXTENDS MediaProvider, TLC

Folder(dirs, files) == [dirs |-> dirs, files |-> files]

\* Titles in the root and in one album, which has an empty folder below it.
Albums ==
  <<>> :> Folder(<<"a">>, <<"t", "u">>)
    @@ <<"a">> :> Folder(<<"b">>, <<"x">>)
    @@ <<"a", "b">> :> Folder(<<>>, <<>>)

\* The album has been removed.
AlbumsRemoved == <<>> :> Folder(<<>>, <<"t", "u">>)

\* Nothing but folders in the root.
NoRootTitles ==
  <<>> :> Folder(<<"a">>, <<>>)
    @@ <<"a">> :> Folder(<<"b">>, <<"x">>)
    @@ <<"a", "b">> :> Folder(<<>>, <<>>)

\* A title in the root, and an album of two discs.
TwoDiscs ==
  <<>> :> Folder(<<"a">>, <<"t">>)
    @@ <<"a">> :> Folder(<<"b", "c">>, <<"x">>)
    @@ <<"a", "b">> :> Folder(<<>>, <<>>)
    @@ <<"a", "c">> :> Folder(<<>>, <<>>)

\* A title in the root, and an empty album.
EmptyAlbum ==
  <<>> :> Folder(<<"a">>, <<"t">>)
    @@ <<"a">> :> Folder(<<>>, <<>>)

MCName == {"a", "b", "c", "t", "u", "x"}

AllDisks == {Albums, AlbumsRemoved, NoRootTitles}
TwoDiscsOnly == {TwoDiscs}
EmptyAlbumOnly == {EmptyAlbum}

L(name, type, id) == [name |-> name, type |-> type, id |-> id]

\* Every line one of the lists above can have, and so every line a client may
\* still hold when the server already shows another list.
ShownLines ==
  {L("Up", "FolderUp", -1), L("a", "Folder", 0), L("b", "Folder", 0),
   L("t", "Title", 0), L("t", "Title", 1), L("u", "Title", 1),
   L("u", "Title", 2), L("x", "Title", 1)}

AlbumLine == {L("a", "Folder", 0)}

Paths == {<<>>, <<L("a", "Folder", 0)>>}
NoPaths == {}
Steps == {1, 2}
OneStep == {1}
NoSteps == {}
Ticks == 0 .. 3
=============================================================================
