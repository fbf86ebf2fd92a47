------------------------------ MODULE FatNames ------------------------------
(***************************************************************************)
(* The 8.3 names of kernel/arch/i386/FAT.c: what a file is called in a     *)
(* path, what its directory entry holds, and the conversions directory-    *)
(* Search and putFile make between the two.  A C buffer is a function from *)
(* 0 .. n-1 to character codes; a function that changes its buffer returns *)
(* the changed one.                                                        *)
(***************************************************************************)
EXTENDS Integers, FiniteSets, FiniteSetsExt

NUL == 0
SPACE == 32
DOT == 46
ENTRY_JAPAN == 5
BadCharacters == {34, 42, 43, 44, 47} \cup 58 .. 63 \cup 91 .. 93 \cup {124}
Lower == 97 .. 122
Upper == 65 .. 90

FcbLen == 11            \* a name in a directory entry
BufferLen == 13         \* searchName, conversion and output

(* char is signed on i386: codes from 128 on compare below a blank.        *)
Signed(c) == IF c < 128 THEN c ELSE c - 256

StrLen(s) == Min({i \in DOMAIN s : s[i] = NUL} \cup {Cardinality(DOMAIN s)})

uppercase_str(s) ==
  [i \in DOMAIN s |-> IF i < StrLen(s) /\ s[i] \in Lower THEN s[i] - 32 ELSE s[i]]
lowercase_str(s) ==
  [i \in DOMAIN s |-> IF i < StrLen(s) /\ s[i] \in Upper THEN s[i] + 32 ELSE s[i]]

-----------------------------------------------------------------------------
(* testIfFATFormat: the flags it returns, as a set; the empty set is 0.    *)
(* Each dot toggles NOT_CONVERTED_YET, and a dot that finds it set adds    *)
(* TOO_MANY_DOTS.                                                          *)
testIfFATFormat(s) ==
  LET at == 0 .. FcbLen - 1
      dots == Cardinality({i \in at : s[i] = DOT})
      bad(c) == (Signed(c) < 32 /\ c # ENTRY_JAPAN) \/ c \in BadCharacters
  IN (IF \E i \in at : bad(s[i]) THEN {"BAD_CHARACTER"} ELSE {})
     \cup (IF \E i \in at : s[i] \in Lower THEN {"LOWERCASE_ISSUE"} ELSE {})
     \cup (IF dots % 2 = 1 THEN {"NOT_CONVERTED_YET"} ELSE {})
     \cup (IF dots > 1 THEN {"TOO_MANY_DOTS"} ELSE {})

(* convertToFATFormat: the base ends at the first dot or NUL among the     *)
(* first nine characters.  Without one, counter ends at 9 and dotPos stays *)
(* 0, and the base is blanked; the check `counter > 9' never applies.      *)
convertToFATFormat(s) ==
  LET up == uppercase_str(s)
      ends == {i \in 0 .. 8 : up[i] \in {DOT, NUL}}
      scanned == IF ends = {} THEN 9 ELSE Min(ends) + 1
      dotPos == IF scanned > 9 THEN 8 ELSE IF ends = {} THEN 0 ELSE Min(ends)
      ext == IF scanned > 9 THEN 8 ELSE scanned
  IN [i \in DOMAIN s |->
        CASE i < 8 -> IF i >= dotPos THEN SPACE ELSE up[i]
          [] i \in 8 .. 10 -> IF up[ext + i - 8] # NUL THEN up[ext + i - 8] ELSE SPACE
          [] i = 11 -> NUL
          [] OTHER -> s[i]]

(* convertFromFATFormat into a buffer that held `old'.  Behind an          *)
(* extension of one or two characters the loop has already moved over the  *)
(* blank it stopped at, and one byte of the output is not written.         *)
convertFromFATFormat_KeepsDot(s, old) ==
  LET base == Min({i \in 0 .. 7 : s[i] = SPACE} \cup {8})
      ext == Min({i \in 8 .. 10 : s[i] = SPACE} \cup {11}) - 8
      pad == IF ext = 3 THEN base + 4 ELSE base + ext + 2
  IN [i \in 0 .. BufferLen - 1 |->
        CASE i < base -> s[i]
          [] i = base -> DOT
          [] base < i /\ i <= base + ext -> s[8 + i - base - 1]
          [] base + ext < i /\ i < pad -> old[i]
          [] pad <= i /\ i < 12 -> SPACE
          [] OTHER -> NUL]
convertFromFATFormat(s, old) ==
  LET base == Min({i \in 0 .. 7 : s[i] = SPACE} \cup {8})
      ext == Min({i \in 8 .. 10 : s[i] = SPACE} \cup {11}) - 8
      pad == CASE ext = 0 -> base [] ext = 3 -> base + 4 [] OTHER -> base + ext + 2
      dots == IF s[1] = DOT THEN 2 ELSE 1
  IN IF s[0] = DOT
     THEN [i \in 0 .. BufferLen - 1 |-> IF i < dots THEN DOT ELSE IF i = dots THEN NUL ELSE old[i]]
     ELSE [i \in 0 .. BufferLen - 1 |->
             CASE i < base -> s[i]
               [] i = base /\ i < pad -> DOT
               [] base < i /\ i <= base + ext /\ i < pad -> s[8 + i - base - 1]
               [] base + ext < i /\ i < pad -> old[i]
               [] pad <= i /\ i < 12 -> SPACE
               [] OTHER -> NUL]

(* The name directorySearch compares entries with: the path component in a *)
(* zeroed buffer, converted unless it already is a directory name.         *)
searchName(filepart) ==
  LET copy == [i \in 0 .. BufferLen - 1 |->
                 IF i < StrLen(filepart) THEN filepart[i] ELSE NUL]
  IN IF testIfFATFormat(copy) # {} THEN convertToFATFormat(copy) ELSE copy

SameName(a, b) == \A i \in 0 .. FcbLen - 1 : a[i] = b[i]

(* ChkSum: an 8-bit rotate right and add per byte.                         *)
Rotated(sum) == (IF sum % 2 = 1 THEN 128 ELSE 0) + sum \div 2
ChkSum(s) ==
  LET sum[i \in 0 .. FcbLen] ==
        IF i = 0 THEN 0 ELSE (Rotated(sum[i - 1]) + s[i - 1]) % 256
  IN sum[FcbLen]
=============================================================================
