------------------------- MODULE MCEnrollmentInput -------------------------
(***************************************************************************)
(* EnrollmentInput on texts that reach every limit for TLC.                *)
(***************************************************************************)
EXTENDS EnrollmentInput

\* What is empty or blank, the letters, white space on both sides of one and of
\* the longest text, texts that are too long by a byte, and NUL.
SomeTexts ==
  {<<>>, <<"space">>, <<"tab", "space">>,
   <<"letter">>, <<"wide">>, <<"tab", "wide">>, <<"space", "letter", "tab">>,
   <<"tab", "letter", "letter", "space">>, <<"letter", "space", "letter">>,
   <<"letter", "wide">>, <<"nul">>, <<"nul", "space", "nul">>}

\* The same text with and without white space around it, the longest and one
\* that is too long, what is blank, and what cannot be stored.
CapabilitiesToSend ==
  {<<"letter">>, <<"space", "letter">>, <<"wide", "tab">>, <<"letter", "wide">>,
   <<"tab">>, <<"nul">>}

=============================================================================
