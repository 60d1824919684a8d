----------------------------- MODULE MCFormats -----------------------------
(* Requests for Formats: strings with every kind of byte in every field.   *)
EXTENDS Formats

Method == <<Slash, 112, Dot, 83, Slash, 67>>   \* /p.S/C

SomeNames == {<<112, Dot, 83, Dot, 67>>}        \* p.S.C

(* A letter, delimiters, an ampersand, a control byte, bytes of runes.     *)
SomeBytes == {97, NL, 13, Quote, Backslash, 38, 125, 1, 195, 169, 226, 128}

ShortStrings == SeqOf(SomeBytes, 2)

(* U+2028, U+20AC, U+D800 (a surrogate), U+1F600, three bytes cut short.   *)
SomeRunes == {<<226, 128, 168, 97>>, <<226, 130, 172>>, <<237, 160, 128>>,
              <<240, 159, 152, 128>>, <<240, 159, 152>>, <<97, 226, 128>>}

Request(tag, metadata) ==
  [tag |-> tag, method |-> Method, metadata |-> metadata, message |-> <<NL, Quote, 8>>]

Pair(name, value) == [name |-> name, value |-> value]

Tags == {Request(s, << >>) : s \in ShortStrings \cup SomeRunes}

Values == {Request(<<97>>, <<Pair(<<98>>, s)>>) : s \in ShortStrings \cup SomeRunes}

(* Names that are prefixes of each other, repeated names, equal pairs.     *)
Lists == {Request(<<97>>, m) :
            m \in SeqOf({Pair(a, b) : a \in {<<98>>, <<98, 97>>}, b \in {<<97>>, <<98>>}}, 3)}

Unknown == [Request(<<97>>, << >>) EXCEPT !.method = <<Slash, 67>>]

(* Files of one request with any string, and of several requests, one      *)
(* after the other, with few of them.                                      *)
Few == {Request(<<97>>, << >>), Request(<<98, Quote>>, <<Pair(<<98>>, <<NL>>)>>),
        Request(<<Backslash>>, <<Pair(<<98>>, <<97>>), Pair(<<98>>, <<98>>)>>), Unknown}

SomeFiles == {<<d>> : d \in Tags \cup Values \cup Lists} \cup (SeqOf(Few, 3) \ {<< >>})
=============================================================================
