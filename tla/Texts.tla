--------------------------------- MODULE Texts ---------------------------------
(***************************************************************************)
(* The functions that read and write text: the configuration file          *)
(* (clib/cconfig.cpp), the words of a command (clib/ccmd_param.cpp),       *)
(* numbers in log lines (clib/cdigit2str.cpp) and base64 (clib/cbase64.h). *)
(* A step calls one of them with any of its inputs.  A character is a      *)
(* string of length one, except in base64, where it is the six bits its    *)
(* place in the alphabet stands for.                                       *)
(***************************************************************************)
EXTENDS Integers, Sequences
LOCAL INSTANCE SequencesExt
LOCAL INSTANCE FiniteSetsExt

CONSTANTS
    FileTexts,    \* configuration files: sequences of lines
    CommandTexts, \* commands
    Numbers,      \* integers to be shown
    Rooms,        \* sizes of the buffer they are shown in
    ByteTexts     \* sequences of bytes

ASSUME TextsAssumption ==
    /\ Numbers \subseteq Int /\ Rooms \subseteq Nat
    /\ \A s \in ByteTexts : \A i \in DOMAIN s : s[i] \in 0..255

VARIABLE shown   \* the last call: what it was given and what it made of it

Nothing == [by |-> "nobody", given |-> <<>>, made |-> <<>>]

TextInit == shown = Nothing

-----------------------------------------------------------------------------
\* _trim(); a tab is as a blank
Trim(s) ==
    LET solid == {i \in DOMAIN s : s[i] # " "}
    IN  IF solid = {} THEN <<>> ELSE SubSeq(s, Min(solid), Max(solid))

\* Where c stands first in s, or 0
Place(c, s) == SelectInSeq(s, LAMBDA x : x = c)
Before(c, s) == IF Place(c, s) = 0 THEN s ELSE SubSeq(s, 1, Place(c, s) - 1)

Pair(key, value) == [key |-> key, value |-> value]

\* _parser_line(): the pairs, none or one, that a line means
Parsed(text) ==
    LET line == Before("#", text)
        pos  == Place("=", line)
        key  == Trim(Before("=", line))
    IN  IF pos = 0 \/ key = <<>> THEN {}
        ELSE {Pair(key, Trim(SubSeq(line, pos + 1, Len(line))))}

\* mistake: the last line with a key counts
WithLineLast(pairs, new) == {q \in pairs : \A p \in new : p.key # q.key} \union new

\* _insert_data(): the first line with a key counts.
WithLine(pairs, new) == pairs \union {p \in new : \A q \in pairs : q.key # p.key}

\* ccfg_file::init()
ReadFile(file) ==
    shown' = [by |-> "file", given |-> file,
              made |-> FoldLeft(LAMBDA pairs, line : WithLine(pairs, Parsed(line)), {}, file)]

\* The character after those read, in ccmd_param::parse_cmd()
OneMore(read, c) ==
    IF c # " " THEN [read EXCEPT !.str = Append(@, c)]
    ELSE IF read.str = <<>> THEN read
    ELSE [words |-> Append(read.words, read.str), str |-> <<>>]

WordsOf(read) ==
    IF read.str = <<>> THEN read.words ELSE Append(read.words, read.str)

\* parse_cmd() of a new ccmd_param: m_cmd and then m_tokens
SplitCommand(code) ==
    shown' = [by |-> "command", given |-> code,
              made |-> WordsOf(FoldLeft(OneMore, [words |-> <<>>, str |-> <<>>], code))]

-----------------------------------------------------------------------------
Digits(n) ==
    LET from[i \in Nat] == IF i < 10 THEN <<i>> ELSE Append(from[i \div 10], i % 10)
    IN  from[n]

\* digit2str_dec(): character codes.  The remainders of a negative number are
\* negative, and are added to '0' (48); its sign ('-', 45) is not counted.
ShowNumber(value, room) ==
    LET digits == Digits(IF value < 0 THEN 0 - value ELSE value)
    IN  shown' = [by |-> "digits", given |-> <<value, room>>,
                  made |-> IF Len(digits) > room THEN <<>>
                           ELSE (IF value < 0 THEN <<45>> ELSE <<>>)
                                \o [i \in DOMAIN digits |->
                                      IF value < 0 THEN 48 - digits[i] ELSE 48 + digits[i]]]

Pad == -1   \* '='

\* encode(): three bytes are four characters, fewer are padded.
Quad(b) ==
    LET at(i) == IF i <= Len(b) THEN b[i] ELSE 0
        c     == <<at(1) \div 4, (at(1) % 4) * 16 + at(2) \div 16,
                   (at(2) % 16) * 4 + at(3) \div 64, at(3) % 64>>
    IN  [i \in 1..4 |-> IF i <= Len(b) + 1 THEN c[i] ELSE Pad]

Encode(bytes) ==
    FlattenSeq([n \in 1..((Len(bytes) + 2) \div 3) |->
                  Quad(SubSeq(bytes, 3 * n - 2, Min({3 * n, Len(bytes)})))])

\* So many bytes come of i characters, the last ones before the padding.
BytesOf(i) == IF i = 0 THEN 0 ELSE i - 1

\* The characters of decode()'s last, incomplete, c4 that are not there are
\* left from the four before and do not reach the bytes written.
Triple(c) ==
    LET at(i) == IF i <= Len(c) THEN c[i] ELSE 0
        b     == <<(at(1) * 4 + at(2) \div 16) % 256,
                   ((at(2) % 16) * 16 + at(3) \div 4) % 256,
                   (at(3) % 4) * 64 + at(4)>>
    IN  SubSeq(b, 1, BytesOf(Len(c)))

\* decode() of what encode() wrote: up to the first padding
Decode(text) ==
    LET chars == Before(Pad, text)
    IN  FlattenSeq([n \in 1..((Len(chars) + 3) \div 4) |->
                      Triple(SubSeq(chars, 4 * n - 3, Min({4 * n, Len(chars)})))])

Recode(bytes) ==
    shown' = [by |-> "base64", given |-> bytes, made |-> Encode(bytes)]

\* The functions keep nothing from one call to the next.
Return == shown' = Nothing

Call ==
    \/ \E file \in FileTexts : ReadFile(file)
    \/ \E code \in CommandTexts : SplitCommand(code)
    \/ \E value \in Numbers, room \in Rooms : ShowNumber(value, room)
    \/ \E bytes \in ByteTexts : Recode(bytes)

TextNext == IF shown.by = "nobody" THEN Call ELSE Return

TextSpec == TextInit /\ [][TextNext]_shown

-----------------------------------------------------------------------------
Blanks(n) == [i \in 1..n |-> " "]

\* s is t between blanks.
Around(s, t) ==
    /\ \E i, j \in 0..Len(s) : s = Blanks(i) \o t \o Blanks(j)
    /\ t # <<>> => t[1] # " " /\ t[Len(t)] # " "

\* The text that s has between blanks.
Between(s) ==
    {t \in {SubSeq(s, i, j) : i \in 1..(Len(s) + 1), j \in 0..Len(s)} : Around(s, t)}

\* Where the '=' of a line stands that ends its key, and where its value ends:
\* at the end of the line or before a '#'.
Cuts(line) ==
    {c \in (DOMAIN line) \X (DOMAIN line) :
        /\ line[c[1]] = "=" /\ c[1] <= c[2]
        /\ c[2] = Len(line) \/ line[c[2] + 1] = "#"
        /\ \A i \in 1..c[2] : line[i] # "#"
        /\ \A i \in 1..(c[1] - 1) : line[i] # "="}

\* What a line of a configuration file means: blanks, key, blanks, '=',
\* blanks, value, blanks, and perhaps '#' and a comment.
Meaning(line) ==
    UNION {{Pair(key, value) : key \in Between(SubSeq(line, 1, c[1] - 1)) \ {<<>>},
                               value \in Between(SubSeq(line, c[1] + 1, c[2]))} :
           c \in Cuts(line)}

\* What a file means: the meanings of its lines, of each key the first.
MeaningOfFile(file) ==
    UNION {{p \in Meaning(file[i]) :
              \A j \in 1..(i - 1) : \A q \in Meaning(file[j]) : q.key # p.key} :
           i \in DOMAIN file}

\* The pairs read from a file (ccfg_file) are exactly those its lines mean,
\* each key with the value of its first line.
FileReadRight == shown.by = "file" => shown.made = MeaningOfFile(shown.given)

\* The words of a command (parse_cmd()) are its characters but the blanks, in
\* their order, cut where blanks are and nowhere else.
CommandSplitRight ==
    shown.by = "command" =>
        LET code   == shown.given
            solid  == SelectSeq(code, LAMBDA c : c # " ")
            starts == {i \in DOMAIN code : code[i] # " " /\ (i = 1 \/ code[i - 1] = " ")}
        IN  /\ FlattenSeq(shown.made) = solid
            /\ Len(shown.made) = Cardinality(starts)
            /\ \A w \in DOMAIN shown.made : shown.made[w] # <<>>

\* A number can be read back from its digits (digit2str_dec()), which do not
\* begin with a zero; it is left out only if they do not fit.  The digits of
\* a negative number follow its sign, each as far below '0' as it should be
\* above.
NumberReadsBack ==
    shown.by = "digits" =>
        LET value  == shown.given[1]
            text   == shown.made
            digits == IF value < 0 THEN Tail(text) ELSE text
            limit  == 10 ^ shown.given[2]
        IN  IF text = <<>> THEN shown.given[2] = 0 \/ value \notin (1 - limit)..(limit - 1)
            ELSE /\ value < 0 => text[1] = 45
                 /\ FoldLeft(LAMBDA sum, c : 10 * sum + (c - 48), 0, digits) = value
                 /\ Len(digits) \in 1..shown.given[2]
                 /\ Len(digits) > 1 => digits[1] # 48

\* What base64 encodes comes back, encode() fills encoded_size() characters
\* and decode() writes no more than decoded_size() bytes.
Base64ComesBack ==
    shown.by = "base64" =>
        /\ Decode(shown.made) = shown.given
        /\ Len(shown.made) = 4 * ((Len(shown.given) + 2) \div 3)
        /\ Len(Decode(shown.made)) <= 3 * (Len(shown.made) \div 4)

\* Each of the four conversions says what its reference says.
TextsRight == FileReadRight /\ CommandSplitRight /\ NumberReadsBack /\ Base64ComesBack
=============================================================================
