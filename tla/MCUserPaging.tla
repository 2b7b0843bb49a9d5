----------------------------- MODULE MCUserPaging -----------------------------
EXTENDS UserPaging

\* Tables of four entries; two superpages, RAM in the upper one as on the board
MCRAM == 16 .. 31

\* All pages after which there is another one for the user
MCCallPages == 0 .. 30
=============================================================================
