------------------------------- MODULE MCQKD -------------------------------
EXTENDS QKD

\* Halves from nothing to more than the largest code.
MCSifted == {0, 1, 3, 5, 6, 8, 9}
MCQber == <<1, 2>>
MCLowQber == <<7, 20>>
MCMaxQber == <<3, 5>>
=============================================================================
