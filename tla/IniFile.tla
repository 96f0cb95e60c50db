------------------------------- MODULE IniFile -------------------------------
(***************************************************************************)
(* config.ini (inifile.c, Config.c, base64.c): a file is a sequence of     *)
(* lines, each a section header, an entry key=value, or anything else (a   *)
(* comment, an empty line).  A value is the sequence of its characters; in *)
(* base64 these are the numbers 0..63 and Pad.  Bytes are 0..255.          *)
(***************************************************************************)
EXTENDS Integers, Sequences, FiniteSetsExt, SequencesExt

Section    == "config"      \* SECTION of Config.c
Pad        == 64            \* the character '='
Default    == <<53, 54, 55, 56>>   \* "1234"
NotFound   == <<-1>>

SectionLine(s)  == [kind |-> "section", name |-> s, value |-> <<>>]
EntryLine(k, v) == [kind |-> "entry", name |-> k, value |-> v]
EmptyLine       == [kind |-> "other", name |-> "", value |-> <<>>]

\* The headers of the section, and the entries of the key below one of them.
Headers(f, s) == {i \in DOMAIN f : f[i].kind = "section" /\ f[i].name = s}
Above(f, i) == {j \in 1..i : f[j].kind = "section"}
Entries(f, s, k) ==
    {i \in DOMAIN f : /\ f[i].kind = "entry" /\ f[i].name = k
                      /\ Above(f, i) # {} /\ Max(Above(f, i)) \in Headers(f, s)}

\* Where the file has the section and the key: the first entry of the key, otherwise the last header
\* of that name; 0 is the -1 of the code.
parse_file(s, k, f) ==
    LET key == IF Entries(f, s, k) = {} THEN 0 ELSE Min(Entries(f, s, k))
    IN  [key |-> key,
         sec |-> IF key # 0 THEN Max(Above(f, key)) ELSE IF Headers(f, s) = {} THEN 0 ELSE Max(Headers(f, s))]

read_profile_string(s, k, default, f) ==
    LET at == parse_file(s, k, f).key IN IF at = 0 THEN default ELSE f[at].value

\* The new contents of the file: a new section at its end, a new entry as the first one of its section
\* (white space behind the header is skipped), or the entry's new value.
write_profile_string(s, k, v, f) ==
    LET at   == parse_file(s, k, f)
        Rest == SelectInSeq(SubSeq(f, at.sec + 1, Len(f)), LAMBDA l : l # EmptyLine)
        pos  == IF Rest = 0 THEN Len(f) + 1 ELSE at.sec + Rest
    IN  IF at.sec = 0
        THEN f \o (IF f = <<>> THEN <<>> ELSE <<EmptyLine>>) \o <<SectionLine(s), EntryLine(k, v)>>
        ELSE IF at.key = 0 THEN InsertAt(f, pos, EntryLine(k, v))
        ELSE [f EXCEPT ![at.key].value = v]

-----------------------------------------------------------------------------
\* Three bytes make four characters; a group that is not full is padded.
base64_encode(bin) ==
    LET n == Len(bin)
        b(i) == IF i < n THEN bin[i + 1] ELSE 0
    IN  [j \in 1..(4 * ((n + 2) \div 3)) |->
            LET i == 3 * ((j - 1) \div 4)
            IN  CASE j % 4 = 1 -> b(i) \div 4
                  [] j % 4 = 2 -> (b(i) % 4) * 16 + (b(i + 1) \div 16)
                  [] j % 4 = 3 -> IF i + 1 >= n THEN Pad ELSE (b(i + 1) % 16) * 4 + (b(i + 2) \div 64)
                  [] OTHER     -> IF i + 2 >= n THEN Pad ELSE b(i + 2) % 64]

\* The text ends at the first group that is padded.
base64_decode(text) ==
    LET pads == {j \in DOMAIN text : text[j] = Pad}
        n == IF pads = {} THEN 3 * (Len(text) \div 4)
             ELSE LET j == Min(pads) IN 3 * ((j - 1) \div 4) + ((j - 1) % 4) - 1
    IN  [m \in 1..n |->
            LET c(i) == text[4 * ((m - 1) \div 3) + i]
            IN  CASE m % 3 = 1 -> ((c(1) * 4) % 256) + (c(2) \div 16)
                  [] m % 3 = 2 -> (c(2) % 16) * 16 + (c(3) \div 4)
                  [] OTHER     -> (c(3) % 4) * 64 + c(4)]

XDReadBase64Decode(k, f) == base64_decode(read_profile_string(Section, k, Default, f))
XDWriteBase64Encode(k, bin, f) == write_profile_string(Section, k, base64_encode(bin), f)
XDReadString(k, f) == read_profile_string(Section, k, NotFound, f)
XDWriteString(k, v, f) == write_profile_string(Section, k, v, f)
=============================================================================
