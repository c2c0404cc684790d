---------------------------- MODULE MCAlbumOptions ----------------------------
(* Small instances of AlbumOptions: a root album with one album in it, and *)
(* a link to that album.                                                   *)
EXTENDS AlbumOptions, TLC

CONSTANTS top, sub, link

AlbumsHere == {top, sub}
SubsHere == top :> {sub} @@ sub :> {}
FilesHere == top :> {} @@ sub :> Images
NameHere == [a \in Albums |-> a]
RealHere == [a \in Albums |-> a]

LinkAlbums == {top, sub, link}
LinkSubs == top :> {sub, link} @@ sub :> {} @@ link :> {}
LinkFiles == top :> {} @@ sub :> Images @@ link :> Images
LinkReal == top :> top @@ sub :> sub @@ link :> sub

Symmetry == Permutations(Requests)
=============================================================================
