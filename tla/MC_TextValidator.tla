--------------------------- MODULE MC_TextValidator ---------------------------
EXTENDS TextValidator

\* Labels of 2 bytes, names of 4 and strings of 3 characters: each limit is
\* reached and passed by inputs of up to 4 bytes.
MCMaxLabel == 2
MCMaxName  == 4
MCMaxChars == 3

\* 'a', '1', '-', '.', '\\', CR, LF, ' ', and the two bytes of U+00E9.
Alphabet == {97, 49, 45, 46, 92, 13, 10, 32, 195, 169}

MCInputs == BoundedSeq(Alphabet, 4) \cup SeqOf({97, 195, 169}, 5)
=============================================================================
