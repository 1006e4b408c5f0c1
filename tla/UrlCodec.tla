------------------------------ MODULE UrlCodec ------------------------------
(***************************************************************************)
(* Percent-encoding (http_base::url_encode, url_decode), what the parser   *)
(* of requests makes of a request target, and what the answers make of a   *)
(* path.  A text is a sequence of bytes; a path is the sequence of its     *)
(* names, with an empty one at the end if it ends in a slash.              *)
(***************************************************************************)
EXTENDS Naturals, Sequences, SequencesExt

Byte == 0 .. 255

Percent   == 37
Plus      == 43
Slash     == 47
Question  == 63
Backslash == 92
Space     == 32

Digits == 48 .. 57
Upper  == 65 .. 90
Lower  == 97 .. 122

(* isspace in the classic locale.                                          *)
White == (9 .. 13) \union {Space}

(* Mutant: the escape character itself is not escaped.                     *)
UnreservedOrPercent == Upper \union Lower \union Digits \union {45, 95, 46, 126, Slash, Percent}

Unreserved == Upper \union Lower \union Digits \union {45, 95, 46, 126, Slash}

HexDigit(v) == IF v < 10 THEN 48 + v ELSE 55 + v

HexValues == [c \in Digits \union (65 .. 70) \union (97 .. 102) |->
                IF c \in Digits THEN c - 48 ELSE IF c < 97 THEN c - 55 ELSE c - 87]

url_encode(text) ==
  FlattenSeq([i \in DOMAIN text |->
    IF text[i] \in Unreserved THEN <<text[i]>>
    ELSE <<Percent, HexDigit(text[i] \div 16), HexDigit(text[i] % 16)>>])

(* Mutant: an escape at the end of the text is not seen.                   *)
IsEscapeInside(text, i) ==
  /\ text[i] = Percent
  /\ i + 2 < Len(text)
  /\ {text[i + 1], text[i + 2]} \subseteq DOMAIN HexValues

(* A percent sign without two hexadecimal digits stands for itself.        *)
IsEscape(text, i) ==
  /\ text[i] = Percent
  /\ i + 2 <= Len(text)
  /\ {text[i + 1], text[i + 2]} \subseteq DOMAIN HexValues

url_decode(text) ==
  LET from[i \in 1 .. Len(text) + 1] ==
        IF i > Len(text) THEN << >>
        ELSE IF IsEscape(text, i)
        THEN <<16 * HexValues[text[i + 1]] + HexValues[text[i + 2]]>> \o from[i + 3]
        ELSE <<IF text[i] = Plus THEN Space ELSE text[i]>> \o from[i + 1]
  IN  from[1]

-----------------------------------------------------------------------------
(* The text before the first byte of a set.                                *)
UpToFirst(text, stop) ==
  LET k == SelectInSeq(text, LAMBDA b : b \in stop)
  IN  IF k = 0 THEN text ELSE SubSeq(text, 1, k - 1)

(* The names of a path, without the slash it begins with.                  *)
Split(text) ==
  LET names[k \in 0 .. Len(text)] ==
        IF k = 0 THEN << << >> >>
        ELSE IF text[k] = Slash THEN Append(names[k - 1], << >>)
        ELSE Append(Front(names[k - 1]), Append(Last(names[k - 1]), text[k]))
      all == names[Len(text)]
  IN  IF Head(all) = << >> THEN Tail(all) ELSE all

(* Parser::parse_request: the target ends at white space, the path in it   *)
(* at a question mark.                                                     *)
RequestPath(target) ==
  Split(url_decode(UpToFirst(UpToFirst(target, White), {Question})))

(* Maker::make_encoded_path.                                               *)
EncodedNames(names) ==
  FlattenSeq([i \in DOMAIN names |-> <<Slash>> \o url_encode(names[i])])

(* Mutant: a second slash behind the one of a path that ends in one.       *)
EncodedPathTwice(names, is_directory) ==
  LET text == IF names = << >> THEN <<Slash>> ELSE EncodedNames(names)
  IN  IF is_directory THEN Append(text, Slash) ELSE text

EncodedPath(names, is_directory) ==
  LET text == IF names = << >> THEN <<Slash>> ELSE EncodedNames(names)
  IN  IF is_directory /\ text[Len(text)] # Slash THEN Append(text, Slash) ELSE text

(* The elements of a sequence that lie in a set.                           *)
Only(s, S) == FlattenSeq([i \in DOMAIN s |-> IF s[i] \in S THEN <<s[i]>> ELSE << >>])

(* append_response_properties takes a name that is a backslash for a       *)
(* separator and leaves it out.                                            *)
Href(names, is_directory) ==
  EncodedPath(Only(names, Range(names) \ {<<Backslash>>}), is_directory)

-----------------------------------------------------------------------------
(* Whatever bytes a name is made of, its encoded form decodes to it, also  *)
(* if the text goes on with a percent sign that begins no escape because   *)
(* the text ends, which then stands for itself.  The parser does not cut   *)
(* the encoded form short: it has no white space, no question mark and no  *)
(* plus sign, which is decoded as a space.                                 *)
CutShort == {<<Percent>>} \union {<<Percent, c>> : c \in DOMAIN HexValues}

RoundTrips(text) ==
  /\ \A end \in {<< >>} \union CutShort : url_decode(url_encode(text) \o end) = text \o end
  /\ UpToFirst(url_encode(text), White \union {Question, Plus}) = url_encode(text)
=============================================================================
