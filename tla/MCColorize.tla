----------------------------- MODULE MCColorize -----------------------------
EXTENDS Colorize
CONSTANTS MaxText, TextTokens, FieldWords
M == INSTANCE MCStrings
MCInputs == M!Strings
=============================================================================
