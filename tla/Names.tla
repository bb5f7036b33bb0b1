-------------------------------- MODULE Names --------------------------------
(***************************************************************************)
(* Names as the bytes they are written with: object keys and the files     *)
(* that hold them (storage/src/encode.rs), bucket names (storage/src/      *)
(* fs.rs), and both in the paths and queries of URLs (ui/src/components).  *)
(*                                                                         *)
(* A name is a sequence of bytes below 128: of longer characters every     *)
(* byte is escaped like any other, and they are always whole.              *)
(***************************************************************************)
EXTENDS Naturals, SequencesExt

CONSTANT NameMax     \* the longest file name (255 in the code)

ASSUME NameAssumption == NameMax \in Nat

Hash == 35
Percent == 37
Hyphen == 45
Dot == 46
Slash == 47
Question == 63

Digits == 48..57
Uppercase == 65..90
Lowercase == 97..122

Alphanumeric == Digits \cup Uppercase \cup Lowercase

(* Hyphen, dot, low line and tilde.                                        *)
Unreserved == Alphanumeric \cup {Hyphen, Dot, 95, 126}

(***************************************************************************)
(* Percent-encoding: every byte but those kept becomes a percent sign and  *)
(* two hexadecimal digits.  Decoding leaves alone whatever is no escape.   *)
(***************************************************************************)
Hex(n) == IF n < 10 THEN 48 + n ELSE 55 + n

HexDigits == Digits \cup 65..70 \cup 97..102

HexValue(c) == IF c \in Digits THEN c - 48 ELSE IF c \in Uppercase THEN c - 55 ELSE c - 87

PercentEncode(s, kept) ==
  FlattenSeq([i \in DOMAIN s |->
    IF s[i] \in kept THEN <<s[i]>>
    ELSE <<Percent, Hex(s[i] \div 16), Hex(s[i] % 16)>>])

IsEscape(s, i) ==
  /\ s[i] = Percent
  /\ i + 2 <= Len(s)
  /\ s[i + 1] \in HexDigits /\ s[i + 2] \in HexDigits

PercentDecode(s) ==
  LET from[i \in 1..(Len(s) + 1)] ==
        IF i > Len(s) THEN <<>>
        ELSE IF IsEscape(s, i)
             THEN <<16 * HexValue(s[i + 1]) + HexValue(s[i + 2])>> \o from[i + 3]
             ELSE <<s[i]>> \o from[i + 1]
  IN  from[1]

(* The pieces of s between the occurrences of a byte, and together again.  *)
Split(s, c) ==
  LET pieces[i \in 0..Len(s)] ==
        IF i = 0 THEN << <<>> >>
        ELSE LET before == pieces[i - 1]
             IN  IF s[i] = c THEN Append(before, <<>>)
                 ELSE Append(Front(before), Append(Last(before), s[i]))
  IN  pieces[Len(s)]

Join(pieces, c) ==
  IF pieces = <<>> THEN <<>>
  ELSE Tail(FlattenSeq([j \in DOMAIN pieces |-> <<c>> \o pieces[j]]))

-----------------------------------------------------------------------------
(***************************************************************************)
(* Keys and the files they are stored in.  KEY_ENCODE_SET adds the hyphen, *)
(* dot, low line and tilde to NON_ALPHANUMERIC, the set of what is escaped *)
(* (they are in it already).                                               *)
(***************************************************************************)
(* Mutant: they are kept, as the comment on KEY_ENCODE_SET says.           *)
KeyFileUnreserved(key) == PercentEncode(key, Unreserved)

KeyFile(key) == PercentEncode(key, Alphanumeric)

(* The byte 0, or ".." between slashes or the ends.                        *)
TraversalUnsafe(s) ==
  \/ \E i \in DOMAIN s : s[i] = 0
  \/ \E i \in DOMAIN Split(s, Slash) : Split(s, Slash)[i] = <<Dot, Dot>>

(* encode_key succeeds.                                                    *)
Accepted(key) == Len(KeyFile(key)) <= NameMax /\ ~TraversalUnsafe(key)

(* decode_key succeeds.                                                    *)
IsKeyFile(file) == ~TraversalUnsafe(PercentDecode(file))

-----------------------------------------------------------------------------
(***************************************************************************)
(* Bucket names.  Those of the console's routes and of its assets are not  *)
(* to be had.                                                              *)
(***************************************************************************)
Ui == <<117, 105>>
Pkg == <<112, 107, 103>>

Reserved == {Ui, Pkg}

(* Four numbers up to 255, of any digits.                                  *)
Number(s) == FoldLeft(LAMBDA n, c : 10 * n + (c - 48), 0, s)

IsOctet(s) == s # <<>> /\ ToSet(s) \subseteq Digits /\ Number(s) <= 255

IsIpv4(name) ==
  LET parts == Split(name, Dot)
  IN  Len(parts) = 4 /\ \A i \in 1..4 : IsOctet(parts[i])

(* Mutant: the reserved names are forgotten.                               *)
ValidBucketNameUnreserved(name) ==
  /\ Len(name) \in 3..63
  /\ ToSet(name) \subseteq Lowercase \cup Digits \cup {Hyphen, Dot}
  /\ {Head(name), Last(name)} \cap {Hyphen, Dot} = {}
  /\ \A i \in 1..(Len(name) - 1) : ~(name[i] = Dot /\ name[i + 1] = Dot)
  /\ ~IsIpv4(name)

ValidBucketName(name) ==
  /\ name \notin Reserved
  /\ Len(name) \in 3..63
  /\ ToSet(name) \subseteq Lowercase \cup Digits \cup {Hyphen, Dot}
  /\ {Head(name), Last(name)} \cap {Hyphen, Dot} = {}
  /\ \A i \in 1..(Len(name) - 1) : ~(name[i] = Dot /\ name[i + 1] = Dot)
  /\ ~IsIpv4(name)

-----------------------------------------------------------------------------
(***************************************************************************)
(* Names in URLs.  A query value is encoded by urlencoding_simple; in      *)
(* paths bucket and key stand as they are.                                 *)
(***************************************************************************)
(* Mutant: the percent sign is kept.                                       *)
QueryEncodePercentKept(s) == PercentEncode(s, Unreserved \cup {Slash, Percent})

QueryEncode(s) == PercentEncode(s, Unreserved \cup {Slash})

(* What is sent of a URL (the browser): it ends at a question mark or a    *)
(* hash, and "." and ".." are resolved, written with escapes or without;   *)
(* at the end they leave an empty piece.                                   *)
Dots == {<<Dot>>, <<Dot, Dot>>}

Walked(pieces) ==
  LET done[i \in 0..Len(pieces)] ==
        IF i = 0 THEN <<>>
        ELSE LET before == done[i - 1]
             IN  IF PercentDecode(pieces[i]) = <<Dot>> THEN before
                 ELSE IF PercentDecode(pieces[i]) = <<Dot, Dot>>
                      THEN IF before = <<>> THEN <<>> ELSE Front(before)
                 ELSE Append(before, pieces[i])
  IN  done[Len(pieces)]

Resolve(pieces) ==
  IF PercentDecode(Last(pieces)) \in Dots THEN Append(Walked(pieces), <<>>) ELSE Walked(pieces)

Sent(path) ==
  LET ends == {i \in DOMAIN path : path[i] \in {Question, Hash}} \cup {Len(path) + 1}
      end == CHOOSE i \in ends : \A j \in ends : i <= j
  IN  Resolve(Tail(Split(SubSeq(path, 1, end - 1), Slash)))
=============================================================================
