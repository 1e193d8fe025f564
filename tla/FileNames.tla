------------------------------ MODULE FileNames ------------------------------
(***************************************************************************)
(* How long the names are that the program gives to files, by              *)
(* filename_rules.py and the naming helpers of gmail_monitor.py.  A name is*)
(* its length: of the stem as the template renders it, of the extension, of*)
(* the folder's path.  The program counts characters, Windows UTF-16 units:*)
(* two for a wide character, one beyond U+FFFF.  Which characters are      *)
(* replaced does not matter here.                                          *)
(***************************************************************************)
EXTENDS Integers, Sequences

MaxWindowsPath == 259    \* MAX_PATH without the terminating NUL
TempReserve    == 24     \* TEMP_NAME_RESERVE
Prefix         == 4      \* ".gad"
IdLength       == 6      \* INSTALL_ID_LENGTH

Larger(a, b)  == IF a > b THEN a ELSE b
Smaller(a, b) == IF a < b THEN a ELSE b
Clamp(lo, hi, n) == Larger(lo, Smaller(hi, n))

\* Slip: room is left for the separator, but not for the temp name.
BudgetUnreserved(dir) == Clamp(16, 255, MaxWindowsPath - dir - 1)

\* filename_budget: what a name may use in a folder whose path has dir characters.
Budget(dir) == Clamp(16, 255, MaxWindowsPath - dir - 1 - TempReserve)

\* The stem: what the template gave, or else the original name, or else "file".
Stem(rendered, original) ==
    IF rendered > 0 THEN rendered ELSE IF original > 0 THEN original ELSE 4

\* render_filename's end: the stem is cut to what the extension leaves, the
\* extension never; the underscore before a device name such as CON comes after
\* the cut (such a stem has three or four characters).
NameLength(stem, ext, device, budget) ==
    LET max == Clamp(16, 255, budget)
        cut == Smaller(stem, Larger(1, max - ext))
    IN cut + (IF device /\ cut \in {3, 4} THEN 1 ELSE 0) + ext

\* How many digits n has in a base, and the digits themselves in base 36.
Digits(base) ==
    LET d[n \in Nat] == IF n < base THEN 1 ELSE 1 + d[n \div base] IN d

\* Slip: the loop ends before the last quotient is written down.
Base36Short(n) ==
    LET d[m \in Nat] == IF m < 36 * 36 THEN <<m % 36>> ELSE Append(d[m \div 36], m % 36) IN d[n]

\* _base36
Base36(n) ==
    LET d[m \in Nat] == IF m < 36 THEN <<m>> ELSE Append(d[m \div 36], m % 36) IN d[n]

\* _numbered_path: "(n)" goes before the extension, beyond the budget.
Suffix(n) == IF n = 0 THEN 0 ELSE 2 + Digits(10)[n]

\* temp_file_name: ".gad<id>_<job in base 36>".
TempLength(job) == Prefix + IdLength + 1 + Len(Base36(job))

PathLength(dir, name) == dir + 1 + name

\* What Windows counts of a path, some of whose characters are wide.
Units(chars, wide) == chars + wide

\* Folders for which the budget is not at its floor of 16, and extensions that
\* fit in it beside one character of a stem.
DirFits(dir)      == dir <= MaxWindowsPath - 1 - TempReserve - 16
ExtFits(ext, dir) == ext < Budget(dir)

\* How many wide characters a final path, and a temporary one, has room for: the
\* reserve without the underscore and the number, and the floor of the budget.
Spare(suffix) == TempReserve - 1 - suffix
TempSpare     == 16

\* The final path of a saved file, underscore and number included; its temporary
\* path, in which only the folder can have wide characters.
NameFits(dir, stem, ext, device, suffix, wide) ==
    Units(PathLength(dir, NameLength(stem, ext, device, Budget(dir)) + suffix), wide)
        <= MaxWindowsPath
TempFits(dir, job, wide) == Units(PathLength(dir, TempLength(job)), wide) <= MaxWindowsPath

\* Bounded inputs for both: around the limits, and counters of 1 to 10 digits.
Sizes == {1, 2, 3, 4, 5, 15, 16, 17, 100, 230, 250, 254, 255, 256, 400}
AllPathsFit ==
    \A dir \in {1, 3, 100, 217, 218} :
        /\ \A n \in {0, 1, 46655, 2147483647} :
             /\ TempFits(dir, n, TempSpare)
             /\ \A stem, ext \in Sizes \cup {0}, device \in BOOLEAN :
                  ExtFits(ext, dir) =>
                      NameFits(dir, Stem(stem, 0), ext, device, Suffix(n), Spare(Suffix(n)))

Jobs1400    == 0..1400
NamesDiffer == \A i, j \in Jobs1400 : Base36(i) = Base36(j) => i = j
=============================================================================
