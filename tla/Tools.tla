---------------------------------- MODULE Tools ----------------------------------
(* The scripts beside the build: the post-process of the caches, which works *)
(* on files step by step, and those that turn one file into another, which   *)
(* are run on every input of a few bounded sets.                             *)
EXTENDS PostProcess, Images, Params

CONSTANTS
  MifFiles, Offsets,     \* images, and the offsets of memories
  VgaWords, Drawings,    \* words of the VGA memory, and the characters a program draws
  Trees, Overrides       \* sources of a design, and [names -> values]

(* A line of an image is an address or bytes.                                *)
ASSUME MifAssumption ==
  MifFiles \subseteq Seq(({"@"} \X Nat) \cup ({"bytes"} \X Seq(0..255))) /\ Offsets \subseteq Int
(* A character has a row, a column, a top and a bottom word.                 *)
ASSUME DrawingsAssumption == Drawings \subseteq Seq(Nat \X (0..(LineSize - 1)) \X VgaWords \X VgaWords)
ASSUME TreesAssumption == \A tree \in Trees : VerifFiles \subseteq DOMAIN tree

VARIABLE run   \* the last script that was run: its name, input and result

toolvars == <<ppvars, run>>
NoRun == [script |-> "none"]

Init == PPInit /\ run = NoRun

Unused == run = NoRun /\ simulated = <<None, None>> /\ transcript = None /\ verdict = "none" /\ stage = "idle"

MifGen ==
  \E f \in MifFiles, o \in Offsets :
    run' = [script |-> "mif_gen", file |-> f, offset |-> o, result |-> Convert(f, o)]

(* The log of a whole run, or of one that ended between two writes.          *)
VgaParser ==
  \E d \in Drawings, whole \in BOOLEAN :
    /\ whole \/ d # <<>>
    /\ run' = [script |-> "vga_parser", draws |-> d, whole |-> whole,
               result |-> TextOf(IF whole THEN LogOf(d) ELSE Front(LogOf(d)))]

OvrdParams ==
  \E t \in Trees, v \in Overrides :
    run' = [script |-> "ovrd_params", tree |-> t, values |-> v,
            missing |-> DOMAIN v \ Found(t, DOMAIN t, v),
            result |-> SearchAndReplace(t, v)]

Next ==
  \/ run = NoRun /\ PPNext /\ UNCHANGED run
  \/ Unused /\ (MifGen \/ VgaParser \/ OvrdParams) /\ UNCHANGED ppvars

Spec == Init /\ [][Next]_toolvars
-------------------------------------------------------------------------------
(* The .mif file of an image objcopy wrote gives each word of the memory the *)
(* bytes of the image, and no other word, though sections lie apart and end  *)
(* in the middle of a line or of a word (convert).                           *)
MifHoldsImage ==
  run.script = "mif_gen" /\ Objcopied(run.file) =>
    /\ \A i \in DOMAIN run.result : run.result[i].at # Nowhere /\ Len(run.result[i].words) <= PerLine
    /\ MifWords(run.result) = ImageWords(run.file, run.offset)

(* The i-th character is in the line the changes of row before it lead to,   *)
(* behind those of the same line.                                            *)
LineOf(draws, i) == 1 + Cardinality({j \in 1..i : draws[j][1] # IF j = 1 THEN 0 ELSE draws[j - 1][1]})
InLine(draws, n, line) == Cardinality({j \in 1..n : LineOf(draws, j) = line})
IsGlyph(c, top, bottom) ==
  IF \E d \in DOMAIN Glyphs : Glyphs[d] = <<top, bottom>>
  THEN c \in DOMAIN Glyphs /\ Glyphs[c] = <<top, bottom>> ELSE c = Unknown

Shows(text, draws) ==
  /\ Len(text) = IF draws = <<>> THEN 0 ELSE LineOf(draws, Len(draws))
  /\ \A l \in DOMAIN text : Len(text[l]) = InLine(draws, Len(draws), l)
  /\ \A i \in DOMAIN draws :
       LET l == LineOf(draws, i) IN IsGlyph(text[l][InLine(draws, i, l)], draws[i][3], draws[i][4])

(* The text has the characters that were drawn, in order and nothing else,   *)
(* and begins a line where the row changes and nowhere else, the first row   *)
(* but row 0 included; a log that ends in the middle of a character gives no *)
(* text (parse_vga_log_to_text).                                             *)
TextShowsDraws ==
  run.script = "vga_parser" =>
    IF ~run.whole THEN run.result = Crash ELSE Shows(run.result, run.draws)

(* The rows of declarations commented out or behind other text in verif/.    *)
Beyond(tree) ==
  {<<l.name, l.value>> : l \in {l \in UNION {Range(tree[f]) : f \in VerifFiles} : l.kind = "behind"}}

(* After an override the list of parameters, which the GUI reads, has the    *)
(* new value of every parameter found in verif/, and no other than what the  *)
(* declarations say that the override does not reach, those commented out    *)
(* or behind other text; a parameter reported missing and one left alone     *)
(* have the values they had (search_and_replace_parameters, main,            *)
(* search_parameters, parse_parameters).                                     *)
OverrideListed ==
  run.script = "ovrd_params" =>
    LET before == ParameterList(run.tree)
        after == ParameterList(run.result)
        given == DOMAIN run.values \ run.missing
    IN /\ \A n \in DOMAIN run.values : {row \in after : row[1] = n} =
            (IF n \in Found(run.tree, VerifFiles, run.values) THEN {<<n, run.values[n]>>} ELSE {})
              \cup {row \in Beyond(run.tree) : row[1] = n}
       /\ {row \in after : row[1] \notin given} = {row \in before : row[1] \notin given}
===============================================================================
