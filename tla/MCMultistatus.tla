---------------------------- MODULE MCMultistatus ----------------------------
(* Documents of up to two responses: collections written in both ways, final  *)
(* slashes or none, absolute URLs, values absent, empty or not a number.      *)
EXTENDS Multistatus

Word(w) == [ref |-> FALSE, text |-> w]
Reference(w) == [ref |-> TRUE, text |-> <<w>>]

MCDecoded == [w \in {"/", "Film%20One", "b", "Tom", "Jerry", "&", Blank} |->
                IF w = "Film%20One" THEN "Film One" ELSE w]
MCNumber == [w \in {"7"} |-> 7]

Hrefs == {<<Word(<<"/", "Film%20One", "/">>)>>, <<Word(<<"/", "Film%20One">>)>>,
          <<Word(<<Origin, "/", "b">>)>>, <<Word(<<Blank, "/", Blank>>)>>}

MCResponses ==
  [href: Hrefs, form: Forms,
   size: {None, <<>>, <<Word(<<"7">>)>>, <<Word(<<"b">>)>>},
   etag: {None, <<Word(<<"b">>)>>}]

MCDocuments ==
  {<<>>} \cup {<<r>> : r \in MCResponses}
  \cup {<<r, s>> : r, s \in {x \in MCResponses : /\ x.size \in {None, <<Word(<<"7">>)>>}
                                                 /\ Len(x.href[1].text) = 3}}

\* /Tom &amp; Jerry/
MCReferences ==
  {<<[href |-> <<Word(<<"/", "Tom", Blank>>), Reference("&"), Word(<<Blank, "Jerry", "/">>)>>,
      form |-> "empty", size |-> None, etag |-> None]>>}
=============================================================================
