----------------------------- MODULE MCStrings -----------------------------
\* The strings the scanners of Colorize are run on.
EXTENDS SequencesExt
CONSTANTS MaxText,      \* bound: tokens of the strings with brackets anywhere
          TextTokens,   \* their tokens
          FieldWords    \* the words of the strings that are one field

Sides == {"fg:", "bg:"}
Words == { <<w>> : w \in FieldWords } \union { <<side, w>> : side \in Sides, w \in FieldWords }

\* Every short string, and every field of one or two specifiers.
Strings ==
  SeqOf(TextTokens, MaxText)
    \union { <<"[">> \o a \o <<"]">> : a \in Words }
    \union { <<"[">> \o a \o <<"|">> \o b \o <<"]">> : a, b \in Words }
=============================================================================
