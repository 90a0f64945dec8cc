--------------------------------- MODULE Images ---------------------------------
(* mif_gen.py turns the memory image of a program into the initial contents *)
(* of a memory of the FPGA; vga_parser.py turns the writes to the VGA memory *)
(* back into text.                                                           *)
EXTENDS Integers, Sequences, SequencesExt

CONSTANTS
  Width,       \* bytes of a word: 4 in the code
  PerLine,     \* words of a line of the .mif file: 8 in the code
  LineSize,    \* bytes of a line of the VGA memory: 320 in the code
  Glyphs,      \* [characters -> <<top word, bottom word>>], ascii_table_font and graphic_vga.h
  Unknown,     \* the question mark
  Nowhere      \* a word of a .mif file that no address precedes

ASSUME ImageAssumption ==
  Width \in Nat \ {0} /\ PerLine \in Nat \ {0} /\ LineSize \in Nat \ {0} /\ Nowhere \notin Int
ASSUME GlyphAssumption == \A c, d \in DOMAIN Glyphs : Glyphs[c] = Glyphs[d] => c = d
-------------------------------------------------------------------------------
(* convert.  The input is a sequence of lines <<"@", address>> and           *)
(* <<"bytes", b>>.  The text so far is a sequence of lines, each with its    *)
(* address and its words; word_in_line and prefix_line are the variables.    *)
Padded(b) == b \o [i \in 1..((Width - (Len(b) % Width)) % Width) |-> 0]
GatherToLE(b) == Reverse(b)
WordsOf(b) == [i \in 1..(Len(Padded(b)) \div Width) |-> GatherToLE(SubSeq(Padded(b), (i - 1) * Width + 1, i * Width))]

(* Mutant: the address stays that of the section.                            *)
PutWordInPlace(s, word) ==
  LET last == s.text[Len(s.text)] IN
  [text |-> IF s.closed THEN Append(s.text, [at |-> Nowhere, words |-> <<word>>])
            ELSE Append(Front(s.text), [at |-> last.at, words |-> Append(last.words, word)]),
   word_in_line |-> s.word_in_line + 1, closed |-> s.word_in_line + 1 = PerLine,
   prefix_line |-> s.prefix_line]

(* A word joins the last line; the last word of a line closes it, and a word *)
(* that follows in the same line of the input finds no address.              *)
PutWord(s, word) ==
  LET last == s.text[Len(s.text)] IN
  [text |-> IF s.closed THEN Append(s.text, [at |-> Nowhere, words |-> <<word>>])
            ELSE Append(Front(s.text), [at |-> last.at, words |-> Append(last.words, word)]),
   word_in_line |-> s.word_in_line + 1, closed |-> s.word_in_line + 1 = PerLine,
   prefix_line |-> IF s.word_in_line + 1 = PerLine THEN s.prefix_line + PerLine ELSE s.prefix_line]

NewLine(s, at) ==
  [text |-> Append(s.text, [at |-> at, words |-> <<>>]), word_in_line |-> 0, closed |-> FALSE, prefix_line |-> at]

PutWords(s, words) ==
  LET put[k \in 0..Len(words)] == IF k = 0 THEN s ELSE PutWord(put[k - 1], words[k])
  IN put[Len(words)]

ConvertLine(s, line, offset) ==
  LET t == IF s.word_in_line = PerLine THEN NewLine(s, s.prefix_line) ELSE s IN
  IF line[1] = "@" THEN NewLine(t, (line[2] - offset) \div Width)
  ELSE PutWords(t, WordsOf(line[2]))

Convert(file, offset) ==
  LET after[i \in 0..Len(file)] ==
        IF i = 0 THEN [text |-> <<>>, prefix_line |-> 0, word_in_line |-> 0, closed |-> TRUE]
        ELSE ConvertLine(after[i - 1], file[i], offset)
  IN after[Len(file)].text

(* Where the bytes of a line go: behind those before them, or behind the     *)
(* last address.                                                             *)
Reached(file) ==
  LET reached[i \in 0..Len(file)] ==
        IF i = 0 THEN 0 ELSE IF file[i][1] = "@" THEN file[i][2] ELSE reached[i - 1] + Len(file[i][2])
  IN reached
AddressOf(file, i) == Reached(file)[i - 1]
DataLines(file) == {i \in DOMAIN file : file[i][1] = "bytes"}
BytesAt(file) == UNION {{<<AddressOf(file, i) + k - 1, file[i][2][k]>> : k \in DOMAIN file[i][2]} : i \in DataLines(file)}

(* The files objcopy writes: an address first, addresses of words, lines of  *)
(* which PerLine is a multiple, but for the last one of a section, and no    *)
(* two lines for the same address.                                           *)
Objcopied(file) ==
  /\ file # <<>> /\ file[1][1] = "@"
  /\ \A i \in DOMAIN file :
       /\ file[i][1] = "@" => file[i][2] % Width = 0
       /\ file[i][1] = "bytes" /\ i < Len(file) /\ file[i + 1][1] = "bytes" =>
            Len(file[i][2]) % Width = 0 /\ PerLine % (Len(file[i][2]) \div Width) = 0
            /\ (i > 1 /\ file[i - 1][1] = "bytes" => Len(file[i - 1][2]) = Len(file[i][2]))
       /\ file[i][1] = "bytes" => file[i][2] # <<>> /\ Len(file[i][2]) <= Width * PerLine
            /\ (i > 1 /\ file[i - 1][1] = "bytes" => Len(file[i][2]) <= Len(file[i - 1][2]))
  /\ \A i, j \in DataLines(file) : i # j =>
       AddressOf(file, i) + Len(file[i][2]) <= AddressOf(file, j) \/ AddressOf(file, j) + Len(file[j][2]) <= AddressOf(file, i)

(* The words of the memory the file is converted for, and those of the image.*)
MifWords(text) == UNION {{<<text[i].at + k - 1, text[i].words[k]>> : k \in DOMAIN text[i].words} :
                           i \in {i \in DOMAIN text : text[i].at # Nowhere}}
WordIn(bytes, at) ==
  [k \in 1..Width |-> LET here == {b \in bytes : b[1] = at + Width - k}
                      IN IF here = {} THEN 0 ELSE (CHOOSE b \in here : TRUE)[2]]
ImageWords(file, offset) ==
  LET bytes == BytesAt(file)
  IN {<<(b[1] - offset) \div Width, WordIn(bytes, b[1])>> : b \in {b \in bytes : b[1] % Width = 0}}
-------------------------------------------------------------------------------
(* parse_vga_log_to_text: the writes are taken in pairs, the top and the     *)
(* bottom of a character; the row is that of the top.                        *)
(* Mutant: the bottom of a character is not looked at.                       *)
DataToAsciiByTop(top, bottom) ==
  IF \E c \in DOMAIN Glyphs : Glyphs[c][1] = top
  THEN CHOOSE c \in DOMAIN Glyphs : Glyphs[c][1] = top ELSE Unknown
DataToAscii(top, bottom) ==
  IF \E c \in DOMAIN Glyphs : Glyphs[c] = <<top, bottom>>
  THEN CHOOSE c \in DOMAIN Glyphs : Glyphs[c] = <<top, bottom>> ELSE Unknown

RowOf(address) == address \div (2 * LineSize)

(* A character begins a line when its row is not that of the one before.     *)
AddCharacter(s, top, bottom) ==
  LET c == DataToAscii(top[2], bottom[2]) IN
  IF RowOf(top[1]) # s.row
  THEN [lines |-> Append(s.lines, s.line), line |-> <<c>>, row |-> RowOf(top[1])]
  ELSE [s EXCEPT !.line = Append(@, c)]

Crash == "crash"
TextOf(log) ==
  IF Len(log) % 2 = 1 THEN Crash
  ELSE LET after[i \in 0..(Len(log) \div 2)] ==
             IF i = 0 THEN [lines |-> <<>>, line |-> <<>>, row |-> 0]
             ELSE AddCharacter(after[i - 1], log[2 * i - 1], log[2 * i])
           end == after[Len(log) \div 2]
       IN IF end.line = <<>> THEN end.lines ELSE Append(end.lines, end.line)

(* The log of a program that draws characters, top first: <<row, column,     *)
(* top word, bottom word>>.                                                  *)
LogOf(draws) ==
  [i \in 1..(2 * Len(draws)) |->
     LET d == draws[(i + 1) \div 2] IN
     IF i % 2 = 1 THEN <<d[1] * 2 * LineSize + d[2], d[3]>>
     ELSE <<d[1] * 2 * LineSize + LineSize + d[2], d[4]>>]
===============================================================================
