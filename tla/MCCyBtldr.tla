------------------------------ MODULE MCCyBtldr ------------------------------
(* Instances of CyBtldr for TLC. *)
EXTENDS CyBtldr

File(extension, header, lines, newline) ==
  [extension |-> extension, version |-> 1, header |-> header, lines |-> lines,
   newline |-> newline]
V0(lines, newline) == File(".cyacd", 12, lines, newline)
V2(lines, newline) == File(".cyacd2", 24, lines, newline)

Other(first, chars) == [first |-> first, chars |-> chars, separator |-> TRUE, row |-> NoRow]
RowOf(a, n, s, overhead) ==
  [first |-> ":", chars |-> 1 + 2 * (s + overhead), separator |-> TRUE,
   row |-> [array |-> a, num |-> n, size |-> s]]
Row0(a, n, s) == RowOf(a, n, s, 6)
Row1(n, s) == RowOf(0, n, s, 4)

\* Rows of the sizes of the devices, in flash and EEPROM; a row that does not exist, one
\* that is too short, and lines that are no rows; a line without what it needs, and a
\* last line without a newline.
FilesV0 ==
  {V0(<<Row0(0, 0, 128), Other("#", 9), Row0(0, 1, 256)>>, TRUE),
   V0(<<Row0(0, 0, 128), Row0(64, 9, 16)>>, TRUE),
   V0(<<Row0(0, 1, 256), Row0(0, 0, 128)>>, FALSE),
   V0(<<Row0(0, 0, 128), Row0(0, 2, 64)>>, TRUE),
   V0(<<Row0(0, 1, 256), RowOf(0, 0, 128, 5)>>, TRUE)}

FilesV1 ==
  {V2(<<Other("@APPINFO:", 20), Other("@EIV:", 13), Row1(0, 512), Row1(1, 256)>>, TRUE),
   V2(<<Other("#", 9), Row1(0, 512), Other("other", 0), Row1(1, 256)>>, TRUE),
   V2(<<Row1(1, 256), Other(":", 8), Row1(0, 512)>>, TRUE),
   V2(<<[Other("@APPINFO:", 20) EXCEPT !.separator = FALSE], Row1(0, 512)>>, TRUE),
   V2(<<Row1(0, 512)>>, FALSE)}

FilesBad == {File(".hex", 12, <<>>, TRUE), File(".cyacd2", 22, <<>>, TRUE)}

MCFiles == FilesV0 \cup FilesV1 \cup FilesBad

\* The rows of 128 bytes of some devices, in the newer format.
SmallRows == {V2(<<Other("@APPINFO:", 20), Row1(0, 128)>>, TRUE)}
=============================================================================
