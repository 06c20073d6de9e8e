------------------------------ MODULE MCServer -------------------------------
(* Two directories; a folder shown in both, with a file in a subfolder, and a *)
(* plain file that comes and goes; one directory may be called dav.           *)
EXTENDS Server

CONSTANTS none, i1, i2, k1, k2, Second

Dir(root) == [root |-> root, below |-> Root, coll |-> TRUE, size |-> 0]
Leaf(root) == [root |-> root, below |-> Root, coll |-> FALSE, size |-> 1]

Bare == Insert(Insert(EmptyTree, <<"movies">>, Directory), <<Second>>, Directory)

Film(t, d) ==
  Insert(Insert(Insert(t, <<d, "film">>, Dir(i1)), <<d, "film", "s">>, Dir(i1)),
         <<d, "film", "s", "a">>, Leaf(i1))

OneFilm == Film(Bare, "movies")
Both == Insert(Film(OneFilm, Second), <<"movies", "solo">>, Leaf(i2))

MCSnapshots == {Bare, OneFilm, Both}

MCRaws == {<<"">>, <<"dav">>, <<"movies", "">>, <<"dav", "movies">>,
           <<"", ".", "movies", "film">>, <<"movies", "film", "s", "a">>,
           <<Second, "film", "s", "">>, <<"dav", "movies", "solo">>,
           <<"movies", "..", "solo">>, <<"davy">>}
=============================================================================
