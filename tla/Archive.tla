------------------------------- MODULE Archive -------------------------------
(***************************************************************************)
(* The walks over the initial RAM disk: initrd_list and initrd_cat of      *)
(* ex22 and the search of exec in ex41 and ex62. A cpio archive is a       *)
(* sequence of entries, the last one the trailer; each is a header, a name *)
(* with its NUL, and data, where name and data are padded to four bytes.   *)
(***************************************************************************)
EXTENDS Integers, Sequences, FiniteSetsExt

CONSTANTS
  HEADER,      \* sizeof(struct cpio_t)
  Archives,    \* archives looked at: sequences of names and sizes
  Bases,       \* where the archive may lie
  FileNames,   \* files looked up
  TRAILER      \* the name of the last entry

VARIABLES
  archive, base, filename,   \* the arguments
  reader,                    \* the function that runs
  pc,                        \* "walk" or "done"
  cur,                       \* the address of the header looked at
  listed,                    \* the sizes and names initrd_list has printed
  file,                      \* the address of the data found, 0 for none
  printed                    \* how many bytes of it initrd_cat prints

vars == <<archive, base, filename, reader, pc, cur, listed, file, printed>>

ASCII_0 == 48
ASCII_A == 65

align4(n) == ((n + 3) \div 4) * 4

\* The bytes an entry takes
SizeOf(e) == align4(HEADER + e.namesize) + align4(e.filesize)

\* Where the archive program puts entry n
AddressOf(n) ==
  LET address[m \in DOMAIN archive] ==
        IF m = 1 THEN base ELSE address[m - 1] + SizeOf(archive[m - 1])
  IN  address[n]

Headers == {AddressOf(n) : n \in DOMAIN archive}

Init ==
  /\ archive \in Archives
  /\ base \in Bases
  /\ filename \in FileNames
  /\ reader \in {"initrd_list", "initrd_cat", "exec_ex41", "exec_ex62"}
  /\ pc = "walk"
  /\ cur = base
  /\ listed = << >>
  /\ file = 0
  /\ printed = 0

-----------------------------------------------------------------------------
\* What the code finds at cur
Position == CHOOSE n \in DOMAIN archive : AddressOf(n) = cur
Here == archive[Position]

DIGITS == 8

\* A character for a digit, in upper case as cpio writes them
CharOf(digit) == IF digit < 10 THEN ASCII_0 + digit ELSE ASCII_A + digit - 10

\* A size in a header; upto[k] is what its first k digits stand for.
Field(size) ==
  LET upto[k \in 0 .. DIGITS] == IF k = DIGITS THEN size ELSE upto[k + 1] \div 16
  IN  [k \in 1 .. DIGITS |-> CharOf(upto[k] % 16)]

\* What hextoi adds for a character
DigitOf(c) ==
  IF c >= ASCII_A THEN c - ASCII_A + 10
  ELSE IF c >= ASCII_0 THEN c - ASCII_0 ELSE 0

\* hextoi, r[k] after k turns
hextoi(s) ==
  LET r[k \in 0 .. DIGITS] == IF k = 0 THEN 0 ELSE r[k - 1] * 16 + DigitOf(s[k])
  IN  r[DIGITS]

namesize == hextoi(Field(Here.namesize))
filesize == hextoi(Field(Here.filesize))

\* The two exec round sizes where the others round addresses, except that of
\* ex41 for the program's own address.
RoundsSizes == reader \in {"exec_ex41", "exec_ex62"}
SizeRounded == cur + align4(HEADER + namesize)
AddressRounded == align4(cur + HEADER + namesize)

\* Mutant: the padding after the data is forgotten.
NextHeader_NoPadding ==
  IF RoundsSizes
    THEN SizeRounded + align4(filesize)
    ELSE AddressRounded + filesize

NextHeader ==
  IF RoundsSizes
    THEN SizeRounded + align4(filesize)
    ELSE align4(AddressRounded + filesize)

\* The loop ends at the trailer.
AtTrailer ==
  /\ pc = "walk"
  /\ cur \in Headers
  /\ Here.name = TRAILER
  /\ pc' = "done"
  /\ UNCHANGED <<archive, base, filename, reader, cur, listed, file, printed>>

initrd_list ==
  /\ pc = "walk"
  /\ reader = "initrd_list"
  /\ cur \in Headers
  /\ Here.name # TRAILER
  /\ listed' = Append(listed, <<filesize, Here.name>>)
  /\ cur' = NextHeader
  /\ UNCHANGED <<archive, base, filename, reader, pc, file, printed>>

\* printf("%s") prints up to the first NUL: in a text, the first byte of the
\* padding, and if there is none, the end of the next entry's name.
StringLength ==
  IF Here.filesize % 4 # 0 THEN Here.filesize
  ELSE Here.filesize + HEADER + archive[Position + 1].namesize - 1

\* What initrd_cat and exec do when the name is the one they look for
Found ==
  /\ printed' = IF reader = "initrd_cat" THEN StringLength ELSE printed
  /\ file' = IF reader = "exec_ex62" THEN SizeRounded ELSE AddressRounded
  /\ pc' = "done"
  /\ UNCHANGED cur

\* initrd_cat, exec: a turn of the loop
Search ==
  /\ pc = "walk"
  /\ reader # "initrd_list"
  /\ cur \in Headers
  /\ Here.name # TRAILER
  /\ IF Here.name = filename
       THEN Found
       ELSE cur' = NextHeader /\ UNCHANGED <<file, printed, pc>>
  /\ UNCHANGED <<archive, base, filename, reader, listed>>

Next == AtTrailer \/ initrd_list \/ Search

-----------------------------------------------------------------------------
(* Properties *)

\* The entries that a search may be for
EntriesNamed(s) == {n \in DOMAIN archive : archive[n].name = s}

\* No walk loses its way: what is taken for a header is one, whatever the
\* lengths of names and files, with either way of rounding. initrd_list prints
\* the sizes and names of all files in order, and a search finds the data of the
\* first entry with the name, or nothing if there is none. initrd_cat prints all
\* of it, and no more exactly if there is padding behind the data, which ends the
\* string; it prints on into the next header if there is none.
WalksRight ==
  /\ cur \in Headers
  /\ pc = "done" =>
       IF reader = "initrd_list"
         THEN listed = [n \in 1 .. (Len(archive) - 1) |->
                          <<archive[n].filesize, archive[n].name>>]
         ELSE LET n == Min(EntriesNamed(filename))
                  e == archive[n]
              IN  IF EntriesNamed(filename) = {} THEN file = 0 /\ printed = 0
                  ELSE /\ file = AddressOf(n) + align4(HEADER + e.namesize)
                       /\ reader = "initrd_cat" =>
                            /\ printed >= e.filesize
                            /\ printed = e.filesize <=> e.filesize % 4 # 0
=============================================================================
