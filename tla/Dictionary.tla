----------------------------- MODULE Dictionary -----------------------------
(***************************************************************************)
(* prbf_prepare_dictionary and prbf_str_replace (srclib/bf.c): the classes *)
(* 0-9, a-z and A-Z in the text of the option --dict are expanded, then    *)
(* every character is kept once; a text that contains the word ASCII gives *)
(* the printable characters.  A character is a value, a string a sequence. *)
(***************************************************************************)
EXTENDS Naturals, Sequences, FiniteSets, SequencesExt

CONSTANTS
  Texts,        \* the texts considered
  Templates,    \* DIGITS_TPL, LOW_CASE_TPL, UPPER_CASE_TPL
  Expansions,   \* DIGITS, LOW_CASE, UPPER_CASE
  AsciiTpl,     \* ASCII_TPL
  AsciiChars    \* the characters from '!' to '~'

Chars == Range(AsciiChars) \cup (UNION {Range(t) : t \in Texts})
           \cup (UNION {Range(Expansions[c]) : c \in 1 .. 3})

ASSUME DictionaryAssumption ==
  /\ Texts \subseteq Seq(Chars) /\ AsciiChars \in Seq(Chars)
  /\ Len(Templates) = 3 /\ Len(Expansions) = 3
  /\ \A c \in 1 .. 3 : /\ Templates[c] \in Seq(Range(Templates[c])) /\ Expansions[c] \in Seq(Chars)
                       /\ Len(Templates[c]) > 0 /\ IsInjective(Expansions[c])
  /\ Len(AsciiTpl) > 0 /\ IsInjective(AsciiChars)

\* A template is the first and the last character of its class with another
\* between them.  That one is in no expansion, and no template goes on from the
\* end of another, or of an expansion, or into the beginning of one.
ASSUME TemplatesAssumption ==
  \A c, d \in 1 .. 3 :
    /\ Len(Templates[c]) = 3 /\ Len(Expansions[c]) > 0
    /\ c # d => Templates[c] # Templates[d]
    /\ Templates[c][2] \notin Range(Expansions[d])
    /\ Templates[c][1] \notin {Templates[d][2], Templates[d][3], Expansions[d][Len(Expansions[d])]}
    /\ Templates[c][3] \notin {Templates[d][2], Expansions[d][1]}

VARIABLES
  dict,       \* the text of the option
  stage,      \* "class", "replace", "unique" or "done"
  class,      \* the class whose template is next; 4 when all are done
  text,       \* result: the text so far
  orig,       \* what prbf_str_replace has still to copy
  tmp,        \* what it has written
  allocated,  \* result_len, without the terminating NUL
  result      \* result_without_duplicates, then what is returned

dictVars == <<dict, stage, class, text, orig, tmp, allocated, result>>

OccursAt(s, t, k) == k + Len(t) - 1 <= Len(s) /\ SubSeq(s, k, k + Len(t) - 1) = t

\* strstr
Occurs(s, t) == \E k \in 1 .. Len(s) : OccursAt(s, t, k)
First(s, t) == CHOOSE k \in 1 .. Len(s) :
                 OccursAt(s, t, k) /\ \A j \in 1 .. k - 1 : ~OccursAt(s, t, j)

\* The text from position k on, and behind the first occurrence of t.
From(s, k) == SubSeq(s, k, Len(s))
Behind(s, t) == From(s, First(s, t) + Len(t))

\* What the counting loop has counted after n rounds; every round leaves a
\* shorter text.
Rounds[n \in Nat] ==
  [s \in Seq(Chars) |-> [c \in 1 .. 3 |->
     IF n = 0 \/ ~Occurs(s, Templates[c])
       THEN 0
       ELSE 1 + Rounds[n - 1][Behind(s, Templates[c])][c]]]

Count(s, c) == Rounds[Len(s)][s][c]

DictInit ==
  /\ dict \in Texts
  /\ stage = "class" /\ class = 1
  /\ text = dict
  /\ orig = <<>> /\ tmp = <<>> /\ allocated = 0 /\ result = <<>>

\* The word ASCII overrides everything else.
UseAscii ==
  /\ stage = "class" /\ class = 1 /\ Occurs(dict, AsciiTpl)
  /\ result' = AsciiChars
  /\ stage' = "done"
  /\ UNCHANGED <<dict, class, text, orig, tmp, allocated>>

\* Whether a class is used is known from the text as it was given.
SkipClass ==
  /\ stage = "class" /\ class <= 3
  /\ ~Occurs(dict, AsciiTpl) /\ ~Occurs(dict, Templates[class])
  /\ class' = class + 1
  /\ UNCHANGED <<dict, stage, text, orig, tmp, allocated, result>>

\* Mutant: the room is computed for one occurrence.
StartReplace_OneOnly ==
  /\ stage = "class" /\ class <= 3
  /\ ~Occurs(dict, AsciiTpl) /\ Occurs(dict, Templates[class])
  /\ orig' = text /\ tmp' = <<>>
  /\ allocated' = Len(text) + Len(Expansions[class]) - Len(Templates[class])
  /\ stage' = "replace"
  /\ UNCHANGED <<dict, class, text, result>>

\* prbf_str_replace counts the occurrences and allocates.
StartReplace ==
  /\ stage = "class" /\ class <= 3
  /\ ~Occurs(dict, AsciiTpl) /\ Occurs(dict, Templates[class])
  /\ orig' = text /\ tmp' = <<>>
  /\ allocated' = Len(text) + (Len(Expansions[class]) - Len(Templates[class]))
                                * Count(text, class)
  /\ stage' = "replace"
  /\ UNCHANGED <<dict, class, text, result>>

\* Mutant: the template is skipped only in part.
ReplaceNext_ShortSkip ==
  /\ stage = "replace" /\ Occurs(orig, Templates[class])
  /\ LET k == First(orig, Templates[class])
     IN  /\ tmp' = tmp \o SubSeq(orig, 1, k - 1) \o Expansions[class]
         /\ orig' = From(orig, k + 1)
  /\ UNCHANGED <<dict, stage, class, text, allocated, result>>

\* Copy what is in front of the template, and its expansion.
ReplaceNext ==
  /\ stage = "replace" /\ Occurs(orig, Templates[class])
  /\ tmp' = tmp \o SubSeq(orig, 1, First(orig, Templates[class]) - 1) \o Expansions[class]
  /\ orig' = Behind(orig, Templates[class])
  /\ UNCHANGED <<dict, stage, class, text, allocated, result>>

\* Copy the rest.
ReplaceRest ==
  /\ stage = "replace" /\ ~Occurs(orig, Templates[class])
  /\ tmp' = tmp \o orig
  /\ text' = tmp'
  /\ stage' = "class" /\ class' = class + 1
  /\ UNCHANGED <<dict, orig, allocated, result>>

\* The last loop begins.
StartUnique ==
  /\ stage = "class" /\ class = 4
  /\ stage' = "unique"
  /\ UNCHANGED <<dict, class, text, orig, tmp, allocated, result>>

\* A character is kept unless chars_hash has it.
Unique ==
  /\ stage = "unique" /\ text # <<>>
  /\ result' = IF Head(text) \in Range(result)
                 THEN result ELSE Append(result, Head(text))
  /\ text' = Tail(text)
  /\ UNCHANGED <<dict, stage, class, orig, tmp, allocated>>

Prepared ==
  /\ stage = "unique" /\ text = <<>>
  /\ stage' = "done"
  /\ UNCHANGED <<dict, class, text, orig, tmp, allocated, result>>

DictStep ==
  \/ UseAscii \/ SkipClass
  \/ StartReplace \/ ReplaceNext \/ ReplaceRest
  \/ StartUnique \/ Unique \/ Prepared

-----------------------------------------------------------------------------
(* Properties                                                               *)

DictTypeOK ==
  /\ dict \in Texts
  /\ stage \in {"class", "replace", "unique", "done"}
  /\ class \in 1 .. 4
  /\ {text, orig, tmp, result} \subseteq Seq(Chars)
  /\ allocated \in Nat

\* The characters a text stands for: those of the classes whose templates it
\* contains, and those that are not part of a template.
Covered(k) ==
  \E c \in 1 .. 3 : \E j \in 1 .. k :
    OccursAt(dict, Templates[c], j) /\ k < j + Len(Templates[c])

Meant ==
  IF Occurs(dict, AsciiTpl)
    THEN Range(AsciiChars)
    ELSE (UNION {Range(Expansions[c]) : c \in {d \in 1 .. 3 : Occurs(dict, Templates[d])}})
           \cup {dict[k] : k \in {j \in 1 .. Len(dict) : ~Covered(j)}}

\* The dictionary has exactly the characters the text stands for, each once:
\* expanding one class neither destroys nor makes the template of another, and
\* the odometers can look the index of a character up by its value.  With a
\* character at two places they would go on behind the second one and leave out
\* the words with the characters in between.
CharsAreMeant == stage = "done" => Range(result) = Meant /\ IsInjective(result)

\* The expansion fits the memory that was allocated from the count, and fills
\* it.
ReplacementFits ==
  [][stage = "replace" => /\ Len(tmp') <= allocated
                          /\ stage' = "class" => Len(text') = allocated]_dictVars
=============================================================================
