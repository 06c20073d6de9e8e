----------------------------- MODULE Multistatus -----------------------------
(***************************************************************************)
(* parse_multistatus (upstream.rs): the answer to a PROPFIND, read event   *)
(* by event into a list of resources.  A document is a sequence of         *)
(* responses; what the upstream server may write for one is Events, the    *)
(* events that quick-xml (0.41) reports for it.                            *)
(*                                                                         *)
(* Text is a sequence of words, "/" among them.  The content of an element *)
(* is a sequence of pieces: quick-xml ends a text at an entity reference,  *)
(* which it reports as an event of its own, and trims every piece.         *)
(***************************************************************************)
EXTENDS Naturals, SequencesExt

CONSTANTS
  Documents,  \* what upstream may answer
  Decoded,    \* a word of an href -> the word it percent-decodes to
  Origin,     \* the word for scheme and authority of an absolute URL
  Number,     \* a word that parses as a u64 -> its value
  Blank,      \* white space inside a text
  None        \* no response, an absent property

\* A response: the pieces of its href, how its resourcetype is written, and the
\* pieces of getcontentlength and getetag, None if the server has no such value.
Forms == {"file", "empty", "pair"}
Words == DOMAIN Decoded \cup DOMAIN Number \cup {Origin, Blank}
Piece == [ref: BOOLEAN, text: Seq(Words)]
Content == {None} \cup Seq(Piece)
Responses == [href: Content, form: Forms, size: Content, etag: Content]

DavResponse == [href: Seq(Words), collection: BOOLEAN, size: Nat,
                etag: {None} \cup Seq(Words)]

ASSUME DocumentsAssumption == Documents \subseteq Seq(Responses)
ASSUME ValuesAssumption == Number \in [DOMAIN Number -> Nat] /\ None \notin DavResponse

VARIABLES
  doc,        \* the document being read
  input,      \* the events still to come
  response,   \* the DavResponse being filled, None between responses
  active,     \* the local name of the last start tag, "" after an end tag
  resources,  \* what has been read
  outcome
parsing == <<doc, input, response, active, resources, outcome>>

-----------------------------------------------------------------------------
(* The events of a document.                                               *)

Tag(kind, name) == [kind |-> kind, name |-> name]
Start(name) == Tag("start", name)
End(name) == Tag("end", name)
Self(name) == Tag("self", name)

IsBlank(w) == w = Blank
Trimmed(text) ==
  LET words == {k \in DOMAIN text : ~IsBlank(text[k])}
  IN IF words = {} THEN <<>>
     ELSE SubSeq(text, CHOOSE k \in words : \A j \in words : k <= j,
                       CHOOSE k \in words : \A j \in words : j <= k)

\* A text that trims to nothing is not reported.
Pieces(content) ==
  LET event(p) == IF p.ref THEN <<[kind |-> "other"]>>
                  ELSE IF Trimmed(p.text) = <<>> THEN <<>>
                  ELSE <<[kind |-> "text", text |-> Trimmed(p.text)]>>
  IN FlattenSeq([k \in DOMAIN content |-> event(content[k])])

Element(name, inner) == <<Start(name)>> \o inner \o <<End(name)>>
Property(name, content) ==
  IF content = None THEN <<>> ELSE Element(name, Pieces(content))
ResourceType(form) ==
  CASE form = "file" -> <<Self("resourcetype")>>
    [] form = "empty" -> Element("resourcetype", <<Self("collection")>>)
    [] form = "pair" -> Element("resourcetype", Element("collection", <<>>))

\* What the server does not have comes in a second propstat, as empty elements.
Missing(r) ==
  (IF r.size = None THEN <<Self("getcontentlength")>> ELSE <<>>)
  \o (IF r.etag = None THEN <<Self("getetag")>> ELSE <<>>)

Propstat(props) ==
  IF props = <<>> THEN <<>>
  ELSE Element("propstat", Element("prop", props)
                           \o Element("status", <<[kind |-> "text", text |-> <<"HTTP">>]>>))

Response(r) ==
  Element("response",
          Property("href", r.href)
          \o Propstat(ResourceType(r.form) \o Property("getcontentlength", r.size)
                      \o Property("getetag", r.etag))
          \o Propstat(Missing(r)))

Events(d) ==
  <<[kind |-> "other"]>>
  \o Element("multistatus", FlattenSeq([k \in DOMAIN d |-> Response(d[k])]))

Event == Head(input)
Reading == outcome = "reading" /\ input # <<>>

-----------------------------------------------------------------------------
(* into_resource.                                                          *)

NoResponse == [href |-> <<>>, collection |-> FALSE, size |-> 0, etag |-> None]

\* parse().unwrap_or(0).
Parsed(text) == IF Len(text) = 1 /\ text[1] \in DOMAIN Number THEN Number[text[1]] ELSE 0

\* The path of an absolute URL, decoded, without the final slashes.
SourcePath(href) ==
  LET raw == SelectSeq(href, LAMBDA w : w # Origin)
      decoded == [k \in DOMAIN raw |-> Decoded[raw[k]]]
      names == {k \in DOMAIN decoded : decoded[k] # "/"}
  IN IF Len(decoded) <= 1 THEN decoded
     ELSE SubSeq(decoded, 1, IF names = {} THEN 0
                             ELSE CHOOSE k \in names : \A j \in names : j <= k)

IntoResource(v) ==
  [source_path |-> SourcePath(v.href), is_collection |-> v.collection,
   size |-> v.size, etag |-> v.etag]

-----------------------------------------------------------------------------
(* The loop: one action per kind of event.                                 *)

ParseInit ==
  /\ doc \in Documents
  /\ input = Events(doc)
  /\ response = None
  /\ active = ""
  /\ resources = <<>>
  /\ outcome = "reading"

Advance == input' = Tail(input) /\ UNCHANGED <<doc, outcome>>

\* The response after a start tag.
Opened(name) ==
  IF name = "response" THEN NoResponse
  ELSE IF name = "collection" /\ response # None
       THEN [response EXCEPT !.collection = TRUE] ELSE response

ReadStart ==
  /\ Reading /\ Event.kind = "start"
  /\ response' = Opened(Event.name)
  /\ active' = Event.name
  /\ Advance /\ UNCHANGED resources

\* mutant: a collection is recognized by a start tag only
ReadSelfSkipped ==
  /\ Reading /\ Event.kind = "self"
  /\ Advance /\ UNCHANGED <<response, active, resources>>

ReadSelf ==
  /\ Reading /\ Event.kind = "self"
  /\ response' = IF Event.name = "collection" /\ response # None
                 THEN [response EXCEPT !.collection = TRUE] ELSE response
  /\ Advance /\ UNCHANGED <<active, resources>>

ReadText ==
  /\ Reading /\ Event.kind = "text"
  /\ response' =
       IF response = None THEN None
       ELSE CASE active = "href" -> [response EXCEPT !.href = Event.text]
              [] active = "getcontentlength" -> [response EXCEPT !.size = Parsed(Event.text)]
              [] active = "getetag" -> [response EXCEPT !.etag = Event.text]
              [] OTHER -> response
  /\ Advance /\ UNCHANGED <<active, resources>>

\* A response without an href is dropped.
ReadEnd ==
  /\ Reading /\ Event.kind = "end"
  /\ active' = ""
  /\ IF Event.name = "response" /\ response # None
     THEN /\ response' = None
          /\ resources' = IF response.href = <<>> THEN resources
                          ELSE Append(resources, IntoResource(response))
     ELSE UNCHANGED <<response, resources>>
  /\ Advance

\* Every other event is skipped: the declaration, comments, references.
ReadOther ==
  /\ Reading /\ Event.kind = "other"
  /\ Advance /\ UNCHANGED <<response, active, resources>>

\* The answer ends, in open elements too, which is no error when the rest of it
\* is missing; or it is malformed from here on and the PROPFIND fails.
ReadStop ==
  /\ outcome = "reading"
  /\ outcome' \in {"ok", "error"}
  /\ UNCHANGED <<doc, input, response, active, resources>>

ParseNext ==
  ReadStart \/ ReadSelf \/ ReadText \/ ReadEnd \/ ReadOther \/ ReadStop

ParseSpec == ParseInit /\ [][ParseNext]_parsing

-----------------------------------------------------------------------------
(* Properties.                                                             *)

\* The text an element has, references resolved.
Text(content) ==
  IF content = None THEN <<>>
  ELSE Trimmed(FlattenSeq([k \in DOMAIN content |-> content[k].text]))

\* What a response says, by the RFC.
Meaning(r) ==
  [source_path |-> SourcePath(Text(r.href)), is_collection |-> r.form # "file",
   size |-> IF r.size = None THEN 0 ELSE Parsed(Text(r.size)),
   etag |-> IF r.etag = None \/ Text(r.etag) = <<>> THEN None ELSE Text(r.etag)]

Closed == Len(doc) - Cardinality({k \in DOMAIN input : input[k] = End("response")})

\* "It reads an upstream WebDAV library": each response that has been read is
\* one resource, with its own values and nothing of the responses before it, in
\* their order; an answer that is cut short gives the responses it has in full.
ReadsWhatIsWritten ==
  resources = [k \in 1..Closed |-> Meaning(doc[k])]
=============================================================================
