---------------------------- MODULE IndexFormat ----------------------------
(***************************************************************************)
(* The text of an index: urlencode, urldecode, hexencode, hexdecode and    *)
(* parseIndexLine of utils.cc as functions.  A byte is its ASCII code.     *)
(***************************************************************************)
EXTENDS Octets, SequencesExt

CONSTANTS
    HashSize,   \* HASH_SIZE: bytes in a hash
    Bad         \* the exceptions BadHex, BadHexDigit and BadIndexFile

ASSUME HashSizeAssumption == HashSize \in Nat \ {0}

ASSUME BadAssumption == Bad \notin Bytes

NL == 10
Space == 32
Percent == 37
Amp == 38
Plus == 43
Equals == 61

\* "[end]"
EndMark == <<91, 101, 110, 100, 93>>

Hexdigits(c) ==
    LET Digit(d) == IF d < 10 THEN 48 + d ELSE 87 + d
    IN <<Digit(c \div 16), Digit(c % 16)>>

Hexdigit(c) ==
    CASE c \in 48 .. 57 -> c - 48
      [] c \in 97 .. 102 -> c - 87
      [] c \in 65 .. 70 -> c - 55
      [] OTHER -> Bad

Hexencode(s) == FlattenSeq([i \in DOMAIN s |-> Hexdigits(s[i])])

\* The byte that two hex digits give.
HexPair(c, d) ==
    IF Hexdigit(c) = Bad \/ Hexdigit(d) = Bad THEN Bad
    ELSE 16 * Hexdigit(c) + Hexdigit(d)

Hexdecode(s) ==
    LET b == [i \in 1 .. Len(s) \div 2 |-> HexPair(s[2 * i - 1], s[2 * i])]
    IN IF Len(s) % 2 # 0 \/ \E i \in DOMAIN b : b[i] = Bad THEN Bad ELSE b

\* hashdecode: 40 digits, and no fewer.
Hashdecode(s) == IF Len(s) # 2 * HashSize THEN Bad ELSE Hexdecode(s)

\* Mutant: the character that ends a detail is left as it is.
SpecialNoAmp(c) == c < 32 \/ c > 126 \/ c \in {Plus, Percent, Equals, 59}

\* What is written as %hh, 59 being the semicolon.
Special(c) == c < 32 \/ c > 126 \/ c \in {Plus, Percent, Amp, Equals, 59}

Urlencode(s) ==
    FlattenSeq([i \in DOMAIN s |->
        IF s[i] = Space THEN <<Plus>>
        ELSE IF Special(s[i]) THEN <<Percent>> \o Hexdigits(s[i])
        ELSE <<s[i]>>])

\* urldecode.  A %hh that is cut off is bad, also where the code reads on to
\* the NUL.  As % is no hex digit, no % of a good string is in a %hh.
Urldecode(s) ==
    LET Triple(n) == IF n + 2 <= Len(s) THEN HexPair(s[n + 1], s[n + 2]) ELSE Bad
        Percents == {n \in DOMAIN s : s[n] = Percent}
        Digits == {n + 1 : n \in Percents} \cup {n + 2 : n \in Percents}
        Decoded(n) ==
            IF n \in Digits THEN <<>>
            ELSE IF n \in Percents THEN <<Triple(n)>>
            ELSE IF s[n] = Plus THEN <<Space>>
            ELSE <<s[n]>>
    IN IF \E n \in Percents : Triple(n) = Bad THEN Bad
       ELSE FlattenSeq([n \in DOMAIN s |-> Decoded(n)])

\* string::find, Len(s) + 1 where it gives npos
Find(s, c, pos) ==
    LET at == {i \in pos .. Len(s) : s[i] = c} \cup {Len(s) + 1}
    IN CHOOSE i \in at : \A j \in at : i <= j

\* parseIndexLine: a map from keys to values, the last one of a key.  pos is
\* where a detail begins, that is at the start and after each ampersand.
ParseIndexLine(s) ==
    LET Begins == {1} \cup {i + 1 : i \in {j \in DOMAIN s : s[j] = Amp}}
        Sep(pos) == Find(s, Equals, pos)
        N(pos) == Find(s, Amp, pos)
        Key(pos) == Urldecode(SubSeq(s, pos, Sep(pos) - 1))
        Val(pos) == Urldecode(SubSeq(s, Sep(pos) + 1, N(pos) - 1))
        LastOf(k) == CHOOSE p \in Begins :
                        Key(p) = k /\ \A q \in Begins : Key(q) = k => q <= p
    IN IF \E p \in Begins : Sep(p) > Len(s) \/ Sep(p) > N(p) THEN Bad
       ELSE IF \E p \in Begins : Key(p) = Bad \/ Val(p) = Bad THEN Bad
       ELSE [k \in {Key(p) : p \in Begins} |-> Val(LastOf(k))]

----------------------------------------------------------------------------
(***************************************************************************)
(* Lines.  A line is a sequence of details; that of a hash is in hex.      *)
(***************************************************************************)
NameKey == <<110>>
DataKey == <<100>>
HashKey == <<104>>

Encoded(detail) ==
    detail.key \o <<Equals>> \o
    (IF detail.key = HashKey THEN Hexencode(detail.val) ELSE Urlencode(detail.val))

\* What backup_dir puts for a line, and do_backup at the end.
LineText(line) ==
    FlattenSeq([i \in DOMAIN line |->
                   (IF i = 1 THEN <<>> ELSE <<Amp>>) \o Encoded(line[i])]) \o <<NL>>

IndexText(index) ==
    FlattenSeq([i \in DOMAIN index |-> LineText(index[i])]) \o EndMark \o <<NL>>

\* What a reader gets from a line: parseIndexLine and, for a hash, hashdecode.
ReadLine(s) ==
    LET m == ParseIndexLine(s) IN
    IF m = Bad \/ HashKey \notin DOMAIN m THEN m
    ELSE IF Hashdecode(m[HashKey]) = Bad THEN Bad
    ELSE [m EXCEPT ![HashKey] = Hashdecode(@)]

\* What it should get.
Details(line) ==
    [k \in {line[i].key : i \in DOMAIN line} |->
        (CHOOSE d \in {line[i] : i \in DOMAIN line} : d.key = k).val]
============================================================================
