---------------------------- MODULE CyBtldrProofs ----------------------------
(* Proofs about CyBtldr. *)
EXTENDS CyBtldr, SequenceTheorems, WellFoundedInduction, TLAPS

-----------------------------------------------------------------------------
(***************************************************************************)
(* The operators.                                                          *)
(***************************************************************************)
\* The least of two integers, as SendData takes it.
LEMMA MinOfTwo ==
  ASSUME NEW a \in Int, NEW b \in Int
  PROVE  Min({a, b}) = IF a <= b THEN a ELSE b
<1> DEFINE m == IF a <= b THEN a ELSE b
<1>1. m \in {a, b} /\ \A y \in {a, b} : m <= y
  OBVIOUS
<1>2. \A x \in {a, b} : (\A y \in {a, b} : x <= y) => x = m
  OBVIOUS
<1> QED
  BY <1>1, <1>2 DEF Min

\* A set of numbers has a least one, the next line to read.
LEMMA MinOfMany ==
  ASSUME NEW S \in SUBSET Nat, S # {}
  PROVE  Min(S) \in S /\ \A y \in S : Min(S) <= y
<1>1. PICK x \in S : \A y \in S : ~(<<y, x>> \in OpToRel(<, Nat))
  BY NatLessThanWellFounded, WFMin
<1>2. \A y \in S : ~(y < x)
  BY <1>1 DEF OpToRel
<1>3. \A y \in S : x <= y
  BY <1>2
<1> QED
  BY <1>3 DEF Min

\* What parsing may return.
Codes == {"CYRET_SUCCESS", "CYRET_ERR_FILE", "CYRET_ERR_LENGTH", "CYRET_ERR_DATA",
          "CYRET_ERR_CMD", "CYRET_ERR_EOF"}

LEMMA FromAsciiCodes ==
  ASSUME NEW n
  PROVE  FromAscii(n) \in Codes
  BY DEF FromAscii, Codes

LEMMA ParseCodes ==
  ASSUME NEW line
  PROVE  ParseRowData(line) \in Codes /\ ParseRowData_v1(line) \in Codes
  BY FromAsciiCodes DEF ParseRowData, ParseRowData_v1, Codes

LEMMA FileCodes ==
  EndOfFile \in Codes /\ AppStartAndSize \in Codes
<1>1. EndOfFile \in Codes
  BY DEF EndOfFile, Codes
<1> QED
  BY <1>1, ParseCodes DEF AppStartAndSize, Codes

\* A file that is refused, is so for one of these.
LEMMA HeaderCodes ==
  ASSUME NEW f
  PROVE  FileVersion(f) \in Codes \cup {"0", "1"} /\ ParseHeader(f) \in Codes
         /\ ParseHeader_v1(f) \in Codes
  BY FromAsciiCodes DEF FileVersion, ParseHeader, ParseHeader_v1, Codes

LEMMA KnownFormats ==
  ASSUME NEW f \in Files, FileVersion(f) \in {"0", "1"}
  PROVE  f.extension \in {".cyacd", ".cyacd2"}
  BY DEF FileVersion

\* A line that parses is one of a row.
LEMMA RowLine ==
  ASSUME NEW line, line.chars \in Nat,
         ParseRowData(line) = "CYRET_SUCCESS" \/ ParseRowData_v1(line) = "CYRET_SUCCESS"
  PROVE  line.first = ":"
  BY DEF ParseRowData, ParseRowData_v1

LEMMA FileFacts ==
  ASSUME NEW f \in Files
  PROVE  /\ f.lines \in Seq(Lines) /\ Len(f.lines) \in Nat
         /\ LinesOf(f) \subseteq Lines
         /\ \A line \in LinesOf(f) : line.chars \in Nat
         /\ RowsOf(f) \subseteq Rows
         /\ \A line \in LinesOf(f) : line.row \in RowsRead
<1>1. f \in [extension : STRING, version : Nat, header : Nat, lines : Seq(Lines),
            newline : BOOLEAN]
  BY CyBtldrAssumption DEF CyBtldrAssumption
<1>2. f.lines \in Seq(Lines) /\ Len(f.lines) \in Nat
  BY <1>1
<1>3. LinesOf(f) \subseteq Lines
  BY <1>2 DEF LinesOf
<1>4. \A line \in LinesOf(f) : line.chars \in Nat
  BY <1>3 DEF Lines
<1> QED
  BY <1>2, <1>3, <1>4 DEF Rows, RowsRead

\* Rows, those of a file and that of no line.
Row == [array : Nat, num : Nat, size : Nat]

LEMMA RowFacts ==
  RowsRead \cup {NoRow} \subseteq Row /\ Rows \subseteq RowsRead
<1>1. \A f \in Files : LinesOf(f) \subseteq Lines
  BY FileFacts
<1>2. RowsRead \subseteq Row
  BY <1>1 DEF RowsRead, Row, Lines
<1>3. NoRow \in Row
  BY DEF NoRow, Row
<1>4. \A f \in Files : \A line \in LinesOf(f) : line.row \in RowsRead
  BY FileFacts
<1>5. \A f \in Files : RowsOf(f) \subseteq RowsRead
  BY <1>4 DEF RowsOf
<1> QED
  BY <1>2, <1>3, <1>5 DEF Rows

-----------------------------------------------------------------------------
(***************************************************************************)
(* What the variables hold, and where the library can be.                  *)
(***************************************************************************)
Blocks == [from : Int, to : Int]

RequestCodes ==
  {"ENTER_BOOTLOADER", "GET_FLASH_SIZE", "SEND_DATA", "PROGRAM_ROW", "PROGRAM_DATA",
   "VERIFY_DATA", "GET_ROW_CHECKSUM", "ERASE_ROW", "ERASE_DATA", "VERIFY_CHECKSUM",
   "GET_APP_STATUS", "SET_ACTIVE_APP", "SET_METADATA", "SET_EIV", "EXIT_BOOTLOADER"}

Requests == [at : {"request"}, cmd : [code : RequestCodes, row : Row, block : Blocks]]
Results ==
  [at : {"answer"}, ok : BOOLEAN, known : BOOLEAN, supported : BOOLEAN, active : BOOLEAN,
   status : {"CYRET_SUCCESS", "CYRET_ERR_BTLDR_MASK", "CYBTLDR_STAT_ERR_CMD"},
   wellFormed : BOOLEAN]

Points == {"returned", "open", "line", "exit", "close"} \cup Asking

HostTyped ==
  /\ at \in Points /\ action \in {"PROGRAM", "ERASE", "VERIFY"}
  /\ file \in [of : Files, next : Nat] /\ file.next \in 1..Len(file.of.lines) + 1
  /\ appId \in AppIds /\ row \in RowsRead \cup {NoRow} /\ sent \in Nat
  /\ then \in Asking /\ validRows \subseteq {r.array : r \in Rows}
  /\ abort \in BOOLEAN
  /\ operations \in 0..MaxOperations /\ faults \in 0..MaxFaults

WireTyped == wire \in {Silent} \cup Requests \cup Results

DeviceTyped ==
  /\ device \in [entered : BOOLEAN, buffer : Seq(Blocks), dual : Duals, active : BOOLEAN,
                 known : BOOLEAN, supported : BOOLEAN]
  /\ programmed \subseteq Rows

\* A request on its way is the one of the step the library is at, or the last one.
WireInStep ==
  /\ wire.at = "request" => \/ at \in Asking /\ wire.cmd = Request
                            \/ /\ at \in {"close", "returned"}
                               /\ wire.cmd.code = "EXIT_BOOTLOADER"
  /\ wire.at = "answer" => at \in Asking

\* The request of a row that is to be made, when the rows of the device are asked for first.
Ahead == IF at = "size" THEN then ELSE at

\* A row is that of a line of the file, and each action has its steps.
RowInStep ==
  /\ at # "returned" => file.of.extension \in {".cyacd", ".cyacd2"}
  /\ at \in {"size", "rowChecksum", "appStatus", "appValid"} => ~V1
  /\ at \in RowSteps =>
       /\ row \in RowsOf(file.of) /\ Ahead \in RowSteps \ {"size"}
       /\ action = "ERASE" <=> Ahead = "erase"
       /\ action = "VERIFY" /\ ~V1 => Ahead = "rowChecksum"
  /\ at \in FinalSteps => action # "ERASE"
  /\ at = "appValid" => action = "PROGRAM"
  /\ at # "returned" => err = "CYRET_SUCCESS" \/ at \in {"exit", "close"}

Shape == HostTyped /\ WireTyped /\ DeviceTyped /\ WireInStep /\ RowInStep

LEMMA InitShape == Init => Shape
<1> SUFFICES ASSUME Init PROVE Shape
  OBVIOUS
<1>1. HostTyped
  <2>1. PICK f \in Files : file = [of |-> f, next |-> 1]
    BY DEF Init
  <2>2. Len(f.lines) \in Nat
    BY FileFacts
  <2>3. file.of = f /\ file.next = 1 /\ file \in [of : Files, next : Nat]
    BY <2>1
  <2>4. 0 \in 0..MaxOperations /\ 0 \in 0..MaxFaults
    BY CyBtldrAssumption DEF CyBtldrAssumption
  <2>5. file.next \in 1..Len(file.of.lines) + 1
    BY <2>2, <2>3
  <2>6. at \in Points /\ action \in {"PROGRAM", "ERASE", "VERIFY"} /\ then \in Asking
    BY DEF Init, Points, Asking
  <2>7. row \in RowsRead \cup {NoRow} /\ appId \in AppIds /\ sent \in Nat
        /\ validRows \subseteq {r.array : r \in Rows}
    BY DEF Init
  <2>8. abort \in BOOLEAN
    BY DEF Init
  <2> QED
    BY <2>3, <2>4, <2>5, <2>6, <2>7, <2>8 DEF Init, HostTyped
<1>2. WireTyped
  BY DEF Init, WireTyped
<1>3. DeviceTyped
  <2>1. <<>> \in Seq(Blocks)
    OBVIOUS
  <2>2. device \in [entered : BOOLEAN, buffer : Seq(Blocks), dual : Duals, active : BOOLEAN,
                    known : BOOLEAN, supported : BOOLEAN]
    BY <2>1 DEF Init
  <2> QED
    BY <2>2 DEF Init, DeviceTyped
<1>4. WireInStep /\ RowInStep
  BY DEF Init, WireInStep, RowInStep, Silent, Asking, RowSteps, FinalSteps
<1> QED
  BY <1>1, <1>2, <1>3, <1>4 DEF Shape

\* The size of a block of the row.
BlockSizeOf(r) == IF MaxTransferSize - 7 <= r.size THEN MaxTransferSize - 7 ELSE r.size

LEMMA BlockSize ==
  ASSUME row \in RowsRead \cup {NoRow}
  PROVE  /\ row \in Row /\ row.size \in Nat
         /\ SubBufSize = BlockSizeOf(row) /\ SubBufSize \in Nat
<1>1. row \in Row /\ row.size \in Nat
  BY RowFacts DEF Row
<1>2. MaxTransferSize - 7 \in Nat
  BY CyBtldrAssumption DEF CyBtldrAssumption
<1>3. SubBufSize = BlockSizeOf(row)
  BY <1>1, <1>2, MinOfTwo DEF SubBufSize, BlockSizeOf
<1> QED
  BY <1>1, <1>2, <1>3 DEF BlockSizeOf

\* A request is made of a row and of one of its blocks.
LEMMA RequestTyped ==
  ASSUME HostTyped, at \in Asking
  PROVE  Request \in [code : RequestCodes, row : Row, block : Blocks]
<1>1. row \in Row /\ row.size \in Nat /\ sent \in Nat
  BY RowFacts DEF HostTyped, Row
<1>2. SubBufSize \in Nat
  BY BlockSize DEF HostTyped
<1>3. Block \in Blocks /\ NoBlock \in Blocks
  BY <1>1, <1>2 DEF Block, NoBlock, Blocks
<1>4. LastBlock \in Blocks
  <2>1. (row.size - sent) % 65536 \in Int
    BY <1>1
  <2> QED
    BY <1>1, <2>1 DEF LastBlock, Blocks
<1> DEFINE R == [code : RequestCodes, row : Row, block : Blocks]
<1>5. \A code \in RequestCodes, block \in Blocks : Cmd(code, block) \in R
  BY <1>1 DEF Cmd
<1> HIDE DEF R
<1>6. /\ EnterBootLoaderCmd \in R /\ GetFlashSizeCmd \in R
      /\ VerifyRowCmd \in R /\ EraseRowCmd \in R
      /\ EraseDataCmd \in R /\ VerifyChecksumCmd \in R
      /\ GetAppStatusCmd \in R /\ SetActiveAppCmd \in R
      /\ SetApplicationMetadataCmd \in R /\ SetEncryptionInitialVectorCmd \in R
  BY <1>3, <1>5
     DEF EnterBootLoaderCmd, GetFlashSizeCmd, VerifyRowCmd, EraseRowCmd, EraseDataCmd,
         VerifyChecksumCmd, GetAppStatusCmd, SetActiveAppCmd, SetApplicationMetadataCmd,
         SetEncryptionInitialVectorCmd, RequestCodes
<1>7. /\ SendDataCmd \in R /\ ProgramRowCmd \in R
      /\ ProgramDataCmd \in R /\ VerifyDataCmd \in R
  BY <1>3, <1>4, <1>5 DEF SendDataCmd, ProgramRowCmd, ProgramDataCmd, VerifyDataCmd, RequestCodes
<1>8. Request \in R
  BY <1>6, <1>7 DEF Request, Asking, RowSteps, FinalSteps
<1> QED
  BY <1>8 DEF R


\* The next line is one of the file.
LEMMA NextLine ==
  ASSUME HostTyped, LinesLeft # {}
  PROVE  /\ Min(LinesLeft) \in file.next..Len(file.of.lines)
         /\ Min(LinesLeft) + 1 \in 1..Len(file.of.lines) + 1
         /\ \A k \in file.next..Min(LinesLeft) - 1 : file.of.lines[k].first = "#"
         /\ Min(LinesLeft) \in Nat /\ file.next \in Nat
<1>1. file.of \in Files /\ file.next \in Nat /\ Len(file.of.lines) \in Nat
      /\ file.next \in 1..Len(file.of.lines) + 1
  BY FileFacts DEF HostTyped
<1>2. LinesLeft \in SUBSET Nat
  BY <1>1 DEF LinesLeft
<1>3. Min(LinesLeft) \in LinesLeft /\ \A k \in LinesLeft : Min(LinesLeft) <= k
  BY <1>2, MinOfMany
<1>4. Min(LinesLeft) \in file.next..Len(file.of.lines)
  BY <1>3 DEF LinesLeft
<1>5. ASSUME NEW k \in file.next..Min(LinesLeft) - 1
      PROVE  file.of.lines[k].first = "#"
  <2>1. k \notin LinesLeft /\ k \in file.next..Len(file.of.lines)
    BY <1>1, <1>3, <1>4
  <2> QED
    BY <2>1 DEF LinesLeft
<1> QED
  BY <1>1, <1>4, <1>5

\* Every place a step leads to is one, and a row keeps the steps of its action.
LEMMA HostStep ==
  ASSUME Shape, Next
  PROVE  HostTyped'
<1> USE DEF Shape
<1>1. file.of \in Files /\ RowsOf(file.of) \subseteq Rows
      /\ (\A line \in LinesOf(file.of) : line.row \in RowsRead) /\ SubBufSize \in Nat
  BY FileFacts, BlockSize DEF HostTyped
<1>2. at' \in Points /\ then' \in Asking
  <2> USE DEF HostTyped, Points
  <2>1. CASE \E f \in Files, act \in {"PROGRAM", "ERASE", "VERIFY"}, app \in AppIds :
               RunAction(f, act, app)
    BY <2>1 DEF RunAction
  <2>2. CASE Abort \/ EndBootloadOperation \/ CloseConnection \/ DeviceAnswers
             \/ DeviceFails \/ DeviceLeaves \/ TransferData
    BY <2>2 DEF Abort, EndBootloadOperation, CloseConnection, DeviceAnswers, DeviceFails,
       DeviceLeaves, TransferData, Go, hostVars
  <2>3. CASE SeeAbort \/ ReadEnd \/ OpenConnection \/ TransferFails
    BY <2>3 DEF SeeAbort, ReadEnd, OpenConnection, TransferFails, AtLine, GoIf, Go, Fail,
       AfterError, LastStep, Asking, FinalSteps, RowSteps, hostVars
  <2>4. CASE ReadLine_v0 \/ ReadLine_v1
    BY <2>4 DEF ReadLine_v0, ReadLine_v1, ReadLine, AtLine, ProcessDataRow_v0,
       ProcessDataRow_v1, ProcessMetaRow_v1, ValidateRow, FirstBlock, GoIf, Go, Fail,
       AfterError, Asking, FinalSteps, RowSteps, hostVars
  <2>5. CASE Answers
    BY <2>5 DEF Answers, StartBootloadOperation, StartBootloadOperation_v1,
       SetApplicationMetaData, GetApplicationStatus, SetEncryptionInitialVector,
       GetFlashSize, SendData, ProgramRow, ProgramRow_v1, EraseRow, EraseRow_v1, VerifyRow,
       VerifyRow_v1, VerifyApplication, VerifyApplication_v1, ApplicationIsValid,
       SetApplicationStatus, Simple, Checked, Answered, ValidateRow, GoIf, Go, Fail,
       AfterError, Asking, FinalSteps, RowSteps
  <2> QED
    BY <2>1, <2>2, <2>3, <2>4, <2>5 DEF Next, Transfers
<1>3. CASE \E f \in Files, act \in {"PROGRAM", "ERASE", "VERIFY"}, app \in AppIds :
             RunAction(f, act, app)
  <2>1. PICK f \in Files, act \in {"PROGRAM", "ERASE", "VERIFY"}, app \in AppIds :
               RunAction(f, act, app)
    BY <1>3
  <2>2. Len(f.lines) \in Nat
    BY FileFacts
  <2>3. file' \in [of : Files, next : Nat] /\ file'.next \in 1..Len(file'.of.lines) + 1
    BY <2>1, <2>2 DEF RunAction
  <2>4. operations' \in 0..MaxOperations
    BY <2>1, CyBtldrAssumption DEF RunAction, HostTyped, CyBtldrAssumption
  <2>5. abort' \in BOOLEAN
    BY <2>1 DEF RunAction
  <2> QED
    BY <1>2, <2>1, <2>3, <2>4, <2>5 DEF RunAction, HostTyped
<1>4. CASE ReadLine_v0 \/ ReadLine_v1
  <2>1. PICK line \in LinesOf(file.of) : ReadLine(line)
    BY <1>4 DEF ReadLine_v0, ReadLine_v1
  <2>2. file' = [file EXCEPT !.next = Min(LinesLeft) + 1]
        /\ Min(LinesLeft) + 1 \in 1..Len(file.of.lines) + 1 /\ Min(LinesLeft) \in Nat
    BY <2>1, NextLine DEF ReadLine
  <2>3. file' \in [of : Files, next : Nat] /\ file'.next \in 1..Len(file'.of.lines) + 1
    BY <2>2 DEF HostTyped
  <2>4. row' \in RowsRead \cup {NoRow} /\ sent' \in Nat
    BY <1>1, <2>1 DEF ReadLine, HostTyped
  <2> QED
    BY <1>2, <2>1, <2>3, <2>4 DEF ReadLine, AtLine, HostTyped
<1>5. CASE Answers
  <2>1. UNCHANGED <<abort, action, file, appId, row, operations, faults>>
    BY <1>5 DEF Answers, StartBootloadOperation, StartBootloadOperation_v1,
       SetApplicationMetaData, GetApplicationStatus, SetEncryptionInitialVector,
       GetFlashSize, SendData, ProgramRow, ProgramRow_v1, EraseRow, EraseRow_v1, VerifyRow,
       VerifyRow_v1, VerifyApplication, VerifyApplication_v1, ApplicationIsValid,
       SetApplicationStatus, Simple, Checked, Answered
  <2>2. sent' \in Nat
    BY <1>1, <1>5 DEF Answers, StartBootloadOperation, StartBootloadOperation_v1,
       SetApplicationMetaData, GetApplicationStatus, SetEncryptionInitialVector,
       GetFlashSize, SendData, ProgramRow, ProgramRow_v1, EraseRow, EraseRow_v1, VerifyRow,
       VerifyRow_v1, VerifyApplication, VerifyApplication_v1, ApplicationIsValid,
       SetApplicationStatus, Simple, Checked, HostTyped
  <2>3. validRows' \subseteq {r.array : r \in Rows}
    <3>1. CASE GetFlashSize
      <4>1. row \in Rows
        BY <1>1, <3>1 DEF GetFlashSize, Answered, RowInStep, RowSteps
      <4> QED
        BY <3>1, <4>1 DEF GetFlashSize, HostTyped
    <3>2. CASE ~GetFlashSize
      BY <1>5, <3>2 DEF Answers, StartBootloadOperation, StartBootloadOperation_v1,
         SetApplicationMetaData, GetApplicationStatus, SetEncryptionInitialVector,
         SendData, ProgramRow, ProgramRow_v1, EraseRow, EraseRow_v1, VerifyRow,
         VerifyRow_v1, VerifyApplication, VerifyApplication_v1, ApplicationIsValid,
         SetApplicationStatus, Simple, Checked, HostTyped
    <3> QED
      BY <3>1, <3>2
  <2> QED
    BY <1>2, <2>1, <2>2, <2>3 DEF HostTyped
<1>6. CASE Abort
  <2>1. abort' \in BOOLEAN
    BY <1>6 DEF Abort
  <2> QED
    BY <1>2, <1>6, <2>1 DEF Abort, hostVars, HostTyped
<1>7. CASE OpenConnection
  BY <1>2, <1>7, CyBtldrAssumption
     DEF OpenConnection, Fault, HostTyped, CyBtldrAssumption
<1>8. CASE SeeAbort \/ ReadEnd \/ CloseConnection \/ TransferData
           \/ DeviceAnswers \/ DeviceLeaves
  BY <1>2, <1>8 DEF SeeAbort, ReadEnd, AtLine, CloseConnection, TransferData, DeviceAnswers,
     DeviceLeaves, hostVars, HostTyped
<1>9. CASE TransferFails \/ EndBootloadOperation \/ DeviceFails
  <2>1. UNCHANGED faults \/ Fault
    BY <1>9 DEF TransferFails, EndBootloadOperation, DeviceFails
  <2>2. faults' \in 0..MaxFaults
    BY <2>1, CyBtldrAssumption DEF Fault, HostTyped, CyBtldrAssumption
  <2>3. UNCHANGED <<abort, action, file, appId, row, sent, validRows, operations>>
    BY <1>9 DEF TransferFails, EndBootloadOperation, DeviceFails, hostVars
  <2> QED
    BY <1>2, <2>2, <2>3 DEF HostTyped
<1> QED
  BY <1>3, <1>4, <1>5, <1>6, <1>7, <1>8, <1>9 DEF Next, Transfers

\* A request that the device sees is typed, and so is its answer.
LEMMA DeviceStep ==
  ASSUME Shape, DeviceAnswers \/ DeviceFails \/ DeviceLeaves
  PROVE  DeviceTyped' /\ WireTyped' /\ WireInStep'
<1> USE DEF Shape
<1>1. wire \in Requests
  <2>1. wire.at = "request"
    BY DEF DeviceAnswers, DeviceFails, DeviceLeaves, Asked
  <2>2. Silent.at = "silent" /\ \A w \in Results : w.at = "answer"
    BY DEF Silent, Results
  <2> QED
    BY <2>1, <2>2 DEF WireTyped
<1>2. cmd \in [code : RequestCodes, row : Row, block : Blocks]
  BY <1>1 DEF cmd, Requests
<1>3. Append(device.buffer, cmd.block) \in Seq(Blocks) /\ <<>> \in Seq(Blocks)
  BY <1>2, AppendProperties DEF DeviceTyped
<1>4. CASE DeviceLeaves
  BY <1>3, <1>4 DEF DeviceLeaves, DeviceTyped, WireTyped, WireInStep, Silent
<1>5. CASE DeviceAnswers \/ DeviceFails
  <2>1. cmd.code # "EXIT_BOOTLOADER"
    BY <1>5 DEF DeviceAnswers, DeviceFails, Asked
  <2>2. at \in Asking /\ cmd = Request /\ wire.at = "request"
    BY <1>1, <2>1 DEF WireInStep, cmd, Requests
  <2>3. device' = Received
    BY <1>5 DEF DeviceAnswers, DeviceFails
  <2>4. device' \in [entered : BOOLEAN, buffer : Seq(Blocks), dual : Duals, active : BOOLEAN,
                     known : BOOLEAN, supported : BOOLEAN]
    <3> DEFINE b == CASE cmd.code = "SEND_DATA" -> Append(device.buffer, cmd.block)
                      [] cmd.code \in Commits \cup {"ENTER_BOOTLOADER"} -> <<>>
                      [] OTHER -> device.buffer
               e == device.entered \/ cmd.code = "ENTER_BOOTLOADER"
               a == device.active \/ (cmd.code = "SET_ACTIVE_APP" /\ device.dual)
    <3>1. b \in Seq(Blocks)
      BY <1>3 DEF DeviceTyped, Commits
    <3>2. e \in BOOLEAN /\ a \in BOOLEAN
      OBVIOUS
    <3>3. Received = [device EXCEPT !.entered = e, !.active = a, !.buffer = b]
      BY DEF Received
    <3> HIDE DEF b, e, a
    <3> QED
      BY <2>3, <3>1, <3>2, <3>3 DEF DeviceTyped
  <2>5. programmed' \subseteq Rows
    <3>1. at = "commit" => row \in Rows
      BY FileFacts DEF RowInStep, RowSteps, HostTyped
    <3>2. cmd.code \in {"PROGRAM_ROW", "PROGRAM_DATA"} => cmd.row = row /\ at = "commit"
      BY <2>2 DEF Request, Cmd, EnterBootLoaderCmd, GetFlashSizeCmd, SendDataCmd,
         ProgramRowCmd, ProgramDataCmd, VerifyDataCmd, VerifyRowCmd, EraseRowCmd,
         EraseDataCmd, VerifyChecksumCmd, GetAppStatusCmd, SetActiveAppCmd,
         SetApplicationMetadataCmd, SetEncryptionInitialVectorCmd, Asking, RowSteps,
         FinalSteps
    <3> QED
      BY <1>5, <3>1, <3>2 DEF DeviceAnswers, DeviceFails, Written, DeviceTyped
  <2>6. wire' \in Results
    <3>1. \A status \in {"CYRET_SUCCESS", "CYRET_ERR_BTLDR_MASK", "CYBTLDR_STAT_ERR_CMD"},
             ok \in BOOLEAN : Answer(status, ok) \in Results
      BY DEF Answer, Results, DeviceTyped
    <3>2. Status \in {"CYRET_SUCCESS", "CYRET_ERR_BTLDR_MASK", "CYBTLDR_STAT_ERR_CMD"}
      BY DEF Status
    <3>3. Ok \in BOOLEAN
      <4>1. CASE cmd.code = "GET_ROW_CHECKSUM"
        BY <4>1 DEF Ok
      <4>2. CASE cmd.code \in {"VERIFY_CHECKSUM", "GET_APP_STATUS"}
        BY <4>2 DEF Ok
      <4>3. CASE cmd.code \notin {"GET_ROW_CHECKSUM", "VERIFY_CHECKSUM", "GET_APP_STATUS"}
        BY <4>3 DEF Ok
      <4> QED
        BY <4>1, <4>2, <4>3
    <3>4. [Answer("CYRET_SUCCESS", TRUE) EXCEPT !.wellFormed = FALSE] \in Results
      BY <3>1 DEF Results
    <3> QED
      BY <1>5, <3>1, <3>2, <3>3, <3>4 DEF DeviceAnswers, DeviceFails
  <2>7. wire'.at = "answer" /\ at' = at
    BY <1>5, <2>6 DEF Results, DeviceAnswers, DeviceFails
  <2> QED
    BY <2>2, <2>4, <2>5, <2>6, <2>7 DEF DeviceTyped, WireTyped, WireInStep
<1> QED
  BY <1>4, <1>5

\* A step of the library leaves the device alone.
HostNext ==
  \/ \E f \in Files, act \in {"PROGRAM", "ERASE", "VERIFY"}, app \in AppIds :
       RunAction(f, act, app)
  \/ Abort \/ SeeAbort \/ ReadLine_v0 \/ ReadLine_v1 \/ ReadEnd
  \/ OpenConnection \/ Transfers \/ Answers \/ EndBootloadOperation \/ CloseConnection

LEMMA AnswersTake ==
  ASSUME Answers
  PROVE  /\ UNCHANGED <<abort, action, file, appId, row, deviceVars, operations, faults>>
         /\ wire.at = "answer" /\ wire' = Silent
  BY DEF Answers, StartBootloadOperation, StartBootloadOperation_v1,
     SetApplicationMetaData, GetApplicationStatus, SetEncryptionInitialVector,
     GetFlashSize, SendData, ProgramRow, ProgramRow_v1, EraseRow, EraseRow_v1, VerifyRow,
     VerifyRow_v1, VerifyApplication, VerifyApplication_v1, ApplicationIsValid,
     SetApplicationStatus, Simple, Checked, Answered, deviceVars

LEMMA HostLeavesTheDevice ==
  ASSUME HostNext
  PROVE  UNCHANGED deviceVars
  BY AnswersTake DEF HostNext, RunAction, Abort, SeeAbort, ReadLine_v0, ReadLine_v1, ReadLine,
     ReadEnd, AtLine, OpenConnection, Transfers, TransferData, TransferFails,
     EndBootloadOperation, CloseConnection, deviceVars

LEMMA SameRequest ==
  ASSUME UNCHANGED <<at, hostVars>>
  PROVE  Request' = Request
<1>1. UNCHANGED <<Cmd("ENTER_BOOTLOADER", NoBlock), V1, SubBufSize, at, action, row, sent>>
  BY DEF hostVars, Cmd, V1, SubBufSize
<1>2. UNCHANGED <<Block, LastBlock>>
  BY <1>1 DEF Block, LastBlock
<1> QED
  BY <1>1, <1>2 DEF Request, Cmd, EnterBootLoaderCmd, GetFlashSizeCmd, SendDataCmd,
     ProgramRowCmd, ProgramDataCmd, VerifyDataCmd, VerifyRowCmd, EraseRowCmd, EraseDataCmd,
     VerifyChecksumCmd, GetAppStatusCmd, SetActiveAppCmd, SetApplicationMetadataCmd,
     SetEncryptionInitialVectorCmd

\* Nothing is on the wire but for a request that is being made and the exit request.
LEMMA WireIsSilent ==
  ASSUME WireTyped, WireInStep, at \in {"open", "line", "exit"}
  PROVE  wire = Silent
<1>1. (\A w \in Requests : w.at = "request") /\ (\A w \in Results : w.at = "answer")
  BY DEF Requests, Results
<1> QED
  BY <1>1 DEF WireTyped, WireInStep, Asking, RowSteps, FinalSteps

LEMMA WireStep ==
  ASSUME Shape, HostNext
  PROVE  WireTyped' /\ WireInStep'
<1> USE DEF Shape
<1>1. Silent.at = "silent"
  BY DEF Silent
<1>2. CASE wire' = Silent
  BY <1>1, <1>2 DEF WireTyped, WireInStep
<1>3. CASE TransferData
  <2>1. wire' = [at |-> "request", cmd |-> Request] /\ at' = at /\ at \in Asking
    BY <1>3 DEF TransferData
  <2>2. Request' = Request
    BY <1>3, SameRequest DEF TransferData
  <2>3. wire' \in Requests
    BY <2>1, RequestTyped DEF Requests
  <2> QED
    BY <2>1, <2>2, <2>3 DEF WireTyped, WireInStep
<1>4. CASE Abort
  BY <1>4, SameRequest DEF Abort, WireTyped, WireInStep
<1>5. CASE EndBootloadOperation /\ wire' # Silent
  <2>1. wire' = [at |-> "request", cmd |-> ExitBootLoaderCmd] /\ at' = "close"
    BY <1>5 DEF EndBootloadOperation, Go
  <2>2. row \in Row
    BY BlockSize DEF HostTyped
  <2>3. ExitBootLoaderCmd \in [code : RequestCodes, row : Row, block : Blocks]
        /\ ExitBootLoaderCmd.code = "EXIT_BOOTLOADER"
    BY <2>2 DEF ExitBootLoaderCmd, Cmd, RequestCodes, NoBlock, Blocks
  <2> QED
    BY <2>1, <2>3 DEF WireTyped, WireInStep, Requests
<1>6. CASE CloseConnection
  <2>1. at = "close" /\ at' = "returned" /\ wire' = wire
    BY <1>6 DEF CloseConnection, Go
  <2> QED
    BY <2>1 DEF WireTyped, WireInStep, Asking, RowSteps, FinalSteps
<1>7. ASSUME SeeAbort \/ ReadLine_v0 \/ ReadLine_v1 \/ ReadEnd \/ OpenConnection
      PROVE  wire' = Silent
  BY <1>7, WireIsSilent DEF SeeAbort, ReadLine_v0, ReadLine_v1, ReadLine, ReadEnd, AtLine,
     OpenConnection
<1>8. ASSUME \E f \in Files, act \in {"PROGRAM", "ERASE", "VERIFY"}, app \in AppIds :
               RunAction(f, act, app)
      PROVE  wire' = Silent
  BY <1>8 DEF RunAction
<1> QED
  BY <1>2, <1>3, <1>4, <1>5, <1>6, <1>7, <1>8, AnswersTake
     DEF HostNext, Transfers, TransferFails

\* The file is the same while an operation runs, and a line that is read one of it.
LEMMA SameFile ==
  ASSUME HostTyped, HostNext \/ DeviceAnswers \/ DeviceFails \/ DeviceLeaves,
         at # "returned"
  PROVE  file'.of = file.of /\ UNCHANGED <<action, appId>>
<1>1. CASE ReadLine_v0 \/ ReadLine_v1
  BY <1>1 DEF ReadLine_v0, ReadLine_v1, ReadLine, AtLine, HostTyped
<1> QED
  BY <1>1, AnswersTake DEF HostNext, RunAction, Abort, SeeAbort, ReadEnd, AtLine,
     OpenConnection, Transfers, TransferData, TransferFails, EndBootloadOperation,
     CloseConnection, DeviceAnswers, DeviceFails, DeviceLeaves, hostVars

LEMMA RowStep ==
  ASSUME Shape, HostNext
  PROVE  RowInStep'
<1> USE DEF Shape
<1>1. CASE \E f \in Files, act \in {"PROGRAM", "ERASE", "VERIFY"}, app \in AppIds :
             RunAction(f, act, app)
  <2>1. PICK f \in Files, act \in {"PROGRAM", "ERASE", "VERIFY"}, app \in AppIds :
               RunAction(f, act, app)
    BY <1>1
  <2>2. at' \in {"open", "returned"}
        /\ (at' = "open" => err' = "CYRET_SUCCESS" /\ file'.of.extension \in {".cyacd", ".cyacd2"})
    <3>1. file'.of = f
      BY <2>1 DEF RunAction
    <3> DEFINE header == CASE FileVersion(f) = "0" -> ParseHeader(f)
                           [] FileVersion(f) = "1" -> ParseHeader_v1(f)
                           [] OTHER -> FileVersion(f)
    <3>2. FileVersion(f) # "CYRET_SUCCESS"
      BY DEF FileVersion
    <3>3. header = "CYRET_SUCCESS" => FileVersion(f) \in {"0", "1"}
      BY <3>2
    <3>4. err' = header /\ at' = IF header = "CYRET_SUCCESS" THEN "open" ELSE "returned"
      BY <2>1 DEF RunAction
    <3> HIDE DEF header
    <3> QED
      BY <3>1, <3>3, <3>4, KnownFormats
  <2> QED
    BY <2>2 DEF RowInStep, Asking, RowSteps, FinalSteps
<1>2. CASE ReadLine_v0
  <2>1. PICK line \in LinesOf(file.of) :
          /\ ReadLine(line)
          /\ IF ParseRowData(line) = "CYRET_SUCCESS" THEN ProcessDataRow_v0(line.row)
             ELSE Fail(ParseRowData(line))
    BY <1>2 DEF ReadLine_v0
  <2>2. ~V1 /\ file'.of = file.of /\ V1' = V1 /\ UNCHANGED action /\ at = "line"
    BY <1>2, SameFile DEF ReadLine_v0, ReadLine, AtLine, V1, HostNext
  <2>3. CASE ParseRowData(line) # "CYRET_SUCCESS"
    BY <2>1, <2>2, <2>3 DEF Fail, AfterError, RowInStep, RowSteps, FinalSteps
  <2>4. CASE ParseRowData(line) = "CYRET_SUCCESS"
    <3>1. line.first = ":" /\ row' = line.row
      BY <2>1, <2>4, RowLine, FileFacts DEF ReadLine, HostTyped
    <3>2. file.of.extension = ".cyacd"
      BY <2>2 DEF RowInStep, V1
    <3>3. row' \in RowsOf(file.of)
      BY <2>4, <3>1, <3>2 DEF RowsOf, ParseRow
    <3>4. ProcessDataRow_v0(line.row)
      BY <2>1, <2>4
    <3> DEFINE next == CASE action = "ERASE" -> "erase"
                         [] action = "PROGRAM" -> FirstBlock(line.row)
                         [] action = "VERIFY" -> "rowChecksum"
    <3>5. /\ next \in {"erase", "data", "commit", "rowChecksum"}
          /\ action = "ERASE" <=> next = "erase"
          /\ action = "VERIFY" => next = "rowChecksum"
      BY DEF FirstBlock, HostTyped
    <3>6. ValidateRow(line.row, next)
      BY <3>4 DEF ProcessDataRow_v0
    <3> HIDE DEF next
    <3>7. \/ at' = next /\ UNCHANGED <<err, then>>
          \/ at' \in {"exit", "returned"}
          \/ at' = "size" /\ then' = next /\ UNCHANGED err
      BY <3>6 DEF ValidateRow, Go, GoIf, Fail, AfterError
    <3> QED
      BY <2>2, <3>3, <3>5, <3>7 DEF RowInStep, Ahead, RowSteps, FinalSteps
  <2> QED
    BY <2>3, <2>4
<1>3. CASE ReadLine_v1
  <2>1. PICK line \in LinesOf(file.of) :
          /\ ReadLine(line)
          /\ IF line.first # ":" THEN ProcessMetaRow_v1(line)
             ELSE IF ParseRowData_v1(line) = "CYRET_SUCCESS" THEN ProcessDataRow_v1(line.row)
             ELSE Fail(ParseRowData_v1(line))
    BY <1>3 DEF ReadLine_v1
  <2>2. V1 /\ file'.of = file.of /\ V1' = V1 /\ UNCHANGED action /\ at = "line"
    BY <1>3, SameFile DEF ReadLine_v1, ReadLine, AtLine, V1, HostNext
  <2>3. CASE line.first # ":"
    BY <2>1, <2>2, <2>3 DEF ProcessMetaRow_v1, Go, RowInStep, RowSteps, FinalSteps
  <2>4. CASE line.first = ":" /\ ParseRowData_v1(line) # "CYRET_SUCCESS"
    BY <2>1, <2>2, <2>4 DEF Fail, AfterError, RowInStep, RowSteps, FinalSteps
  <2>5. CASE line.first = ":" /\ ParseRowData_v1(line) = "CYRET_SUCCESS"
    <3>1. row' = line.row
      BY <2>1, <2>5 DEF ReadLine
    <3>2. file.of.extension = ".cyacd2"
      BY <2>2 DEF V1
    <3>3. row' \in RowsOf(file.of)
      BY <2>5, <3>1, <3>2 DEF RowsOf, ParseRow
    <3>4. /\ at' \in {"erase", "data", "commit"} /\ (action = "ERASE" <=> at' = "erase")
          /\ UNCHANGED err
      BY <2>1, <2>5 DEF ProcessDataRow_v1, FirstBlock, Go
    <3> QED
      BY <2>2, <3>3, <3>4 DEF RowInStep, Ahead, RowSteps, FinalSteps
  <2> QED
    BY <2>3, <2>4, <2>5
<1>4. CASE Answers
  <2>1. at # "returned" /\ at \in Asking
    BY <1>4, AnswersTake DEF WireInStep, Asking, RowSteps, FinalSteps
  <2>2. file'.of = file.of /\ V1' = V1 /\ UNCHANGED <<action, row>>
    BY <1>4, <2>1, SameFile, AnswersTake DEF HostNext, V1
  <2>3. CASE GetFlashSize
    BY <2>2, <2>3 DEF GetFlashSize, Answered, GoIf, Go, Fail, AfterError, RowInStep, Ahead,
       RowSteps, FinalSteps
  <2>4. CASE SendData \/ EraseRow \/ EraseRow_v1 \/ VerifyRow
    BY <2>2, <2>4 DEF SendData, EraseRow, EraseRow_v1, VerifyRow, Simple, Checked, Answered,
       GoIf, Go, Fail, AfterError, RowInStep, Ahead, RowSteps, FinalSteps
  <2>5. CASE ProgramRow \/ ProgramRow_v1 \/ VerifyRow_v1
    BY <2>2, <2>5 DEF ProgramRow, ProgramRow_v1, VerifyRow_v1, Simple, Answered, ValidateRow,
       GoIf, Go, Fail, AfterError, RowInStep, Ahead, RowSteps, FinalSteps
  <2>6. CASE StartBootloadOperation \/ StartBootloadOperation_v1 \/ SetApplicationMetaData
             \/ GetApplicationStatus \/ SetEncryptionInitialVector
    BY <2>2, <2>6 DEF StartBootloadOperation, StartBootloadOperation_v1,
       SetApplicationMetaData, GetApplicationStatus, SetEncryptionInitialVector, Simple,
       Answered, GoIf, Go, Fail, AfterError, RowInStep, RowSteps, FinalSteps
  <2>7. CASE VerifyApplication \/ VerifyApplication_v1 \/ ApplicationIsValid
             \/ SetApplicationStatus
    BY <2>2, <2>7 DEF VerifyApplication, VerifyApplication_v1, ApplicationIsValid,
       SetApplicationStatus, Simple, Checked, Answered, GoIf, Go, Fail, AfterError,
       RowInStep, RowSteps, FinalSteps
  <2> QED
    BY <1>4, <2>3, <2>4, <2>5, <2>6, <2>7 DEF Answers
<1>5. CASE SeeAbort \/ ReadEnd \/ OpenConnection \/ TransferFails \/ EndBootloadOperation
           \/ CloseConnection
  <2>1. at # "returned"
    BY <1>5 DEF SeeAbort, ReadEnd, OpenConnection, TransferFails, EndBootloadOperation,
       CloseConnection, AtLine, Asking, RowSteps, FinalSteps
  <2>2. file'.of = file.of /\ V1' = V1 /\ UNCHANGED action
    BY <1>5, <2>1, SameFile DEF HostNext, Transfers, V1
  <2>3. CASE ReadEnd
    BY <2>2, <2>3 DEF ReadEnd, AtLine, LastStep, GoIf, Go, Fail, AfterError, RowInStep,
       RowSteps, FinalSteps
  <2>4. CASE ~ReadEnd
    BY <1>5, <2>2, <2>4 DEF SeeAbort, OpenConnection, TransferFails, EndBootloadOperation,
       CloseConnection, AtLine, Go, Fail, AfterError, RowInStep, RowSteps, FinalSteps
  <2> QED
    BY <2>3, <2>4
<1>6. CASE Abort \/ TransferData
  BY <1>6 DEF Abort, TransferData, hostVars, RowInStep, Ahead, V1
<1> QED
  BY <1>1, <1>2, <1>3, <1>4, <1>5, <1>6 DEF HostNext, Transfers

LEMMA ShapeStep == Shape /\ [Next]_vars => Shape'
<1> SUFFICES ASSUME Shape, [Next]_vars PROVE Shape'
  OBVIOUS
<1>1. CASE HostNext
  <2>1. HostTyped'
    BY <1>1, HostStep DEF HostNext, Next
  <2>2. DeviceTyped'
    BY <1>1, HostLeavesTheDevice DEF Shape, DeviceTyped, deviceVars
  <2> QED
    BY <1>1, <2>1, <2>2, WireStep, RowStep DEF Shape
<1>2. CASE DeviceAnswers \/ DeviceFails \/ DeviceLeaves
  <2>1. HostTyped'
    BY <1>2, HostStep DEF Next
  <2>2. RowInStep'
    BY <1>2 DEF DeviceAnswers, DeviceFails, DeviceLeaves, hostVars, Shape, RowInStep, Ahead, V1
  <2> QED
    BY <1>2, <2>1, <2>2, DeviceStep DEF Shape
<1>3. CASE UNCHANGED vars
  <2>1. UNCHANGED <<at, hostVars, deviceVars, err, abort, wire, operations, faults>>
    BY <1>3 DEF vars, hostVars, deviceVars
  <2> QED
    BY <2>1, SameRequest DEF Shape, HostTyped, WireTyped, DeviceTyped, WireInStep, RowInStep,
       Ahead, V1, hostVars, deviceVars
<1> QED
  BY <1>1, <1>2, <1>3 DEF Next, HostNext

-----------------------------------------------------------------------------
(***************************************************************************)
(* How much of a row has been sent.                                        *)
(***************************************************************************)
HeaderOf(f) == IF f.extension = ".cyacd2" THEN 15 ELSE 10

\* What is left of a row when it is sent in blocks is a block at least or fits in the
\* last packet.  Rows of 128 bytes of the newer format are not like that (the run
\* cypress_rows): the last block of them would be longer than what is left.
RowsFit ==
  \A f \in Files : \A r \in RowsOf(f), k \in Nat :
    r.size - k * BlockSizeOf(r) > MaxTransferSize - HeaderOf(f)
      => r.size - k * BlockSizeOf(r) >= BlockSizeOf(r)

Sending ==
  /\ sent <= row.size
  /\ \E k \in Nat : sent = k * BlockSizeOf(row)
  /\ at \in RowSteps /\ Ahead = "data" => BlockDue(row, sent)
  /\ at \in RowSteps /\ Ahead = "commit" => ~BlockDue(row, sent)
  /\ at = "size" /\ then \in {"data", "commit"} => sent = 0

LEMMA InitSending == Init => Sending
<1> SUFFICES ASSUME Init PROVE Sending
  OBVIOUS
<1>1. sent = 0 /\ row.size = 0 /\ at = "returned"
  BY DEF Init, NoRow
<1>2. BlockSizeOf(row) \in Int
  BY <1>1, CyBtldrAssumption DEF BlockSizeOf, CyBtldrAssumption
<1>3. sent = 0 * BlockSizeOf(row)
  BY <1>1, <1>2
<1> QED
  BY <1>1, <1>3 DEF Sending, RowSteps

\* A block fewer than the row has left.
LEMMA OneMoreBlock ==
  ASSUME RowsFit, Shape, Sending, at = "data"
  PROVE  /\ sent + SubBufSize <= row.size
         /\ \E k \in Nat : sent + SubBufSize = k * BlockSizeOf(row)
<1>1. PICK k \in Nat : sent = k * BlockSizeOf(row)
  BY DEF Sending
<1>2. SubBufSize = BlockSizeOf(row) /\ SubBufSize \in Nat /\ row.size \in Nat
  BY BlockSize DEF Shape, HostTyped
<1>3. row \in RowsOf(file.of) /\ file.of \in Files
  BY DEF Shape, HostTyped, RowInStep, RowSteps
<1>4. row.size - sent > MaxTransferSize - HeaderOf(file.of)
  BY DEF Sending, Ahead, RowSteps, BlockDue, HeaderSize, HeaderOf, V1
<1>5. row.size - sent >= BlockSizeOf(row)
  BY <1>1, <1>3, <1>4 DEF RowsFit
<1>6. sent + SubBufSize = (k + 1) * BlockSizeOf(row) /\ k + 1 \in Nat /\ sent \in Int
  BY <1>1, <1>2
<1> QED
  BY <1>2, <1>5, <1>6

LEMMA SendingStep ==
  ASSUME RowsFit, Shape, Sending, HostNext
  PROVE  Sending'
<1> USE DEF Shape
<1>1. CASE \E f \in Files, act \in {"PROGRAM", "ERASE", "VERIFY"}, app \in AppIds :
             RunAction(f, act, app)
  <2>1. sent' = 0 /\ row' = NoRow /\ row'.size = 0 /\ at' \in {"returned", "open"}
    BY <1>1 DEF RunAction, NoRow
  <2>2. BlockSizeOf(row') \in Int
    BY <2>1, CyBtldrAssumption DEF BlockSizeOf, CyBtldrAssumption
  <2>3. sent' = 0 * BlockSizeOf(row')
    BY <2>1, <2>2
  <2> QED
    BY <2>1, <2>3 DEF Sending, RowSteps
<1>2. CASE ReadLine_v0 \/ ReadLine_v1
  <2>1. PICK line \in LinesOf(file.of) :
          /\ ReadLine(line)
          /\ \/ /\ ParseRowData(line) = "CYRET_SUCCESS" \/ ParseRowData_v1(line) = "CYRET_SUCCESS"
                /\ ProcessDataRow_v0(line.row) \/ ProcessDataRow_v1(line.row)
             \/ \E e : Fail(e)
             \/ ProcessMetaRow_v1(line)
    BY <1>2 DEF ReadLine_v0, ReadLine_v1
  <2>2. file'.of = file.of /\ V1' = V1 /\ HeaderSize' = HeaderSize /\ UNCHANGED action
        /\ at = "line"
    BY <1>2, <2>1, SameFile DEF ReadLine, AtLine, V1, HostNext, HeaderSize
  <2>3. line.row \in Row
    BY RowFacts, FileFacts DEF HostTyped
  <2>4. (row' = line.row /\ sent' = 0) \/ UNCHANGED <<row, sent>>
    BY <2>1 DEF ReadLine
  <2>5. BlockSizeOf(line.row) \in Int
    BY <2>3, CyBtldrAssumption DEF BlockSizeOf, Row, CyBtldrAssumption
  <2>6. 0 <= line.row.size /\ 0 = 0 * BlockSizeOf(line.row)
    BY <2>3, <2>5 DEF Row
  <2>7. sent' <= row'.size /\ \E k \in Nat : sent' = k * BlockSizeOf(row')
    BY <2>4, <2>6 DEF Sending
  <2>8. CASE at' \notin {"size", "data", "commit"}
    BY <2>7, <2>8 DEF Sending, Ahead, RowSteps
  <2>9. CASE at' \in {"size", "data", "commit"}
    <3>1. /\ ParseRowData(line) = "CYRET_SUCCESS" \/ ParseRowData_v1(line) = "CYRET_SUCCESS"
          /\ ProcessDataRow_v0(line.row) \/ ProcessDataRow_v1(line.row)
      BY <2>1, <2>9 DEF Fail, AfterError, ProcessMetaRow_v1, Go
    <3>2. row' = line.row /\ sent' = 0
      BY <2>1, <3>1, RowLine, FileFacts DEF ReadLine, HostTyped
    <3>3. at' = "data" \/ (at' = "size" /\ then' = "data") => BlockDue(line.row, 0)
      BY <3>1 DEF ProcessDataRow_v0, ProcessDataRow_v1, ValidateRow, FirstBlock, Go, GoIf,
         Fail, AfterError, HostTyped
    <3>4. at' = "commit" \/ (at' = "size" /\ then' = "commit") => ~BlockDue(line.row, 0)
      BY <3>1 DEF ProcessDataRow_v0, ProcessDataRow_v1, ValidateRow, FirstBlock, Go, GoIf,
         Fail, AfterError, HostTyped
    <3>5. BlockDue(row, sent)' <=> BlockDue(line.row, 0)
      BY <2>2, <3>2 DEF BlockDue
    <3> QED
      BY <2>7, <3>2, <3>3, <3>4, <3>5 DEF Sending, Ahead
  <2> QED
    BY <2>8, <2>9
<1>3. CASE Answers
  <2>1. at # "returned"
    BY <1>3, AnswersTake DEF WireInStep, Asking, RowSteps, FinalSteps
  <2>2. file'.of = file.of /\ V1' = V1 /\ HeaderSize' = HeaderSize /\ UNCHANGED <<action, row>>
    BY <1>3, <2>1, SameFile, AnswersTake DEF HostNext, V1, HeaderSize
  <2>3. CASE SendData
    <3>1. /\ at = "data" /\ sent' = sent + SubBufSize
          /\ at' = "data" => BlockDue(row, sent')
          /\ at' = "commit" => ~BlockDue(row, sent')
          /\ at' \in {"data", "commit", "exit", "returned"}
      BY <2>3 DEF SendData, Answered, Go, Fail, AfterError
    <3>2. sent' <= row'.size /\ \E k \in Nat : sent' = k * BlockSizeOf(row')
      BY <2>2, <3>1, OneMoreBlock
    <3>3. BlockDue(row, sent)' <=> BlockDue(row, sent')
      BY <2>2 DEF BlockDue
    <3> QED
      BY <3>1, <3>2, <3>3 DEF Sending, Ahead, RowSteps
  <2>4. CASE ~SendData
    <3>1. UNCHANGED sent
      BY <1>3, <2>4 DEF Answers, StartBootloadOperation, StartBootloadOperation_v1,
         SetApplicationMetaData, GetApplicationStatus, SetEncryptionInitialVector,
         GetFlashSize, ProgramRow, ProgramRow_v1, EraseRow, EraseRow_v1, VerifyRow,
         VerifyRow_v1, VerifyApplication, VerifyApplication_v1, ApplicationIsValid,
         SetApplicationStatus, Simple, Checked
    <3>2. UNCHANGED BlockDue(row, sent)
      BY <2>2, <3>1 DEF BlockDue
    <3>3. at' \in {"data", "commit"} => at = "size" /\ then = at'
      BY <1>3, <2>4 DEF Answers, StartBootloadOperation, StartBootloadOperation_v1,
         SetApplicationMetaData, GetApplicationStatus, SetEncryptionInitialVector,
         GetFlashSize, ProgramRow, ProgramRow_v1, EraseRow, EraseRow_v1, VerifyRow,
         VerifyRow_v1, VerifyApplication, VerifyApplication_v1, ApplicationIsValid,
         SetApplicationStatus, Simple, Checked, ValidateRow, Go, GoIf, Fail, AfterError,
         Answered
    <3>4. at' = "size" => then' = "rowChecksum"
      BY <1>3, <2>4 DEF Answers, StartBootloadOperation, StartBootloadOperation_v1,
         SetApplicationMetaData, GetApplicationStatus, SetEncryptionInitialVector,
         GetFlashSize, ProgramRow, ProgramRow_v1, EraseRow, EraseRow_v1, VerifyRow,
         VerifyRow_v1, VerifyApplication, VerifyApplication_v1, ApplicationIsValid,
         SetApplicationStatus, Simple, Checked, ValidateRow, Go, GoIf, Fail, AfterError,
         Answered, RowInStep, Ahead, RowSteps
    <3> QED
      BY <2>2, <3>1, <3>2, <3>3, <3>4 DEF Sending, Ahead, RowSteps
  <2> QED
    BY <2>3, <2>4
<1>4. CASE SeeAbort \/ ReadEnd \/ OpenConnection \/ TransferFails \/ EndBootloadOperation
           \/ CloseConnection
  <2>1. UNCHANGED <<row, sent>> /\ at' \notin RowSteps
    BY <1>4 DEF SeeAbort, ReadEnd, OpenConnection, TransferFails, EndBootloadOperation,
       CloseConnection, AtLine, LastStep, GoIf, Go, Fail, AfterError, RowSteps, FinalSteps
  <2> QED
    BY <2>1 DEF Sending, RowSteps
<1>5. CASE Abort \/ TransferData
  BY <1>5 DEF Abort, TransferData, hostVars, Sending, Ahead, BlockDue, HeaderSize, V1
<1> QED
  BY <1>1, <1>2, <1>3, <1>4, <1>5 DEF HostNext, Transfers

-----------------------------------------------------------------------------
(***************************************************************************)
(* What the device has of a row.                                           *)
(***************************************************************************)
\* Blocks from the first byte up to n, in order and without a gap.
Covers(blocks, n) ==
  IF blocks = <<>> THEN n = 0
  ELSE /\ blocks[1].from = 0 /\ blocks[Len(blocks)].to = n
       /\ \A k \in 1..Len(blocks) - 1 : blocks[k].to = blocks[k + 1].from

LEMMA CoversOneMore ==
  ASSUME NEW blocks \in Seq(Blocks), NEW n \in Int, Covers(blocks, n),
         NEW block \in Blocks, block.from = n
  PROVE  /\ Append(blocks, block) \in Seq(Blocks) /\ Append(blocks, block) # <<>>
         /\ Covers(Append(blocks, block), block.to)
<1> DEFINE all == Append(blocks, block)
<1> SUFFICES all \in Seq(Blocks) /\ all # <<>> /\ Covers(all, block.to)
  OBVIOUS
<1>1. /\ all \in Seq(Blocks) /\ Len(all) = Len(blocks) + 1 /\ Len(blocks) \in Nat
      /\ \A k \in 1..Len(blocks) : all[k] = blocks[k]
      /\ all[Len(blocks) + 1] = block
  BY AppendProperties
<1> HIDE DEF all
<1>2. all # <<>>
  BY <1>1
<1>3. CASE blocks = <<>>
  <2>1. Len(blocks) = 0 /\ n = 0
    BY <1>3 DEF Covers
  <2> QED
    BY <1>1, <1>2, <2>1 DEF Covers
<1>4. CASE blocks # <<>>
  <2>1. Len(blocks) \in Nat \ {0}
    BY <1>4, EmptySeq
  <2>2. /\ blocks[1].from = 0 /\ blocks[Len(blocks)].to = n
        /\ \A k \in 1..Len(blocks) - 1 : blocks[k].to = blocks[k + 1].from
    BY <1>4 DEF Covers
  <2>3. all[1].from = 0 /\ all[Len(all)].to = block.to
    BY <1>1, <2>1, <2>2
  <2>4. ASSUME NEW k \in 1..Len(all) - 1
        PROVE  all[k].to = all[k + 1].from
    <3>1. CASE k = Len(blocks)
      BY <1>1, <2>1, <2>2, <3>1
    <3>2. CASE k # Len(blocks)
      <4>1. k \in 1..Len(blocks) - 1 /\ k \in 1..Len(blocks) /\ k + 1 \in 1..Len(blocks)
        BY <1>1, <3>2
      <4> QED
        BY <1>1, <2>2, <4>1
    <3> QED
      BY <3>1, <3>2
  <2> QED
    BY <1>1, <1>2, <2>3, <2>4 DEF Covers
<1> QED
  BY <1>1, <1>2, <1>3, <1>4

\* The blocks that the device keeps are those of the row that have been sent.
Held ==
  /\ at \in {"appStatus", "metadata", "eiv", "line", "size", "erase", "rowChecksum"}
       => device.buffer = <<>>
  /\ at \in {"enter", "commit"} /\ wire.at = "answer" => device.buffer = <<>>
  /\ at \in {"data", "commit"} /\ wire.at # "answer" => Covers(device.buffer, sent)
  /\ at = "data" /\ wire.at = "answer" => Covers(device.buffer, sent + SubBufSize)

LEMMA InitHeld == Init => Held
  BY DEF Init, Held

LEMMA HeldHostStep ==
  ASSUME Shape, Sending, Held, HostNext
  PROVE  Held'
<1> USE DEF Shape
<1>1. UNCHANGED device /\ Covers(<<>>, 0) /\ Silent.at = "silent"
  BY HostLeavesTheDevice DEF deviceVars, Covers, Silent
<1>2. CASE Answers
  <2>1. wire' = Silent /\ wire.at = "answer"
    BY <1>2, AnswersTake
  <2>2. CASE SendData
    <3>1. at = "data" /\ sent' = sent + SubBufSize /\ at' \in {"data", "commit", "exit", "returned"}
      BY <2>2 DEF SendData, Answered, Go, Fail, AfterError
    <3> QED
      BY <1>1, <2>1, <3>1 DEF Held
  <2>3. CASE ~SendData
    <3>1. UNCHANGED sent
      BY <1>2, <2>3 DEF Answers, StartBootloadOperation, StartBootloadOperation_v1,
         SetApplicationMetaData, GetApplicationStatus, SetEncryptionInitialVector,
         GetFlashSize, ProgramRow, ProgramRow_v1, EraseRow, EraseRow_v1, VerifyRow,
         VerifyRow_v1, VerifyApplication, VerifyApplication_v1, ApplicationIsValid,
         SetApplicationStatus, Simple, Checked
    <3>2. /\ at \in {"enter", "appStatus", "metadata", "eiv", "line", "size", "erase",
                     "rowChecksum", "commit"} \cup FinalSteps
          /\ at \in FinalSteps => at' \in FinalSteps \cup {"exit", "returned"}
          /\ at' \notin {"enter", "open"}
          /\ at' \in {"data", "commit"} => at = "size" /\ then = at'
      BY <1>2, <2>3 DEF Answers, StartBootloadOperation, StartBootloadOperation_v1,
         SetApplicationMetaData, GetApplicationStatus, SetEncryptionInitialVector,
         GetFlashSize, ProgramRow, ProgramRow_v1, EraseRow, EraseRow_v1, VerifyRow,
         VerifyRow_v1, VerifyApplication, VerifyApplication_v1, ApplicationIsValid,
         SetApplicationStatus, Simple, Checked, ValidateRow, Go, GoIf, Fail, AfterError,
         Answered, RowInStep, Ahead, RowSteps, FinalSteps
    <3>3. at \notin FinalSteps => device.buffer = <<>>
      BY <2>1, <3>2 DEF Held
    <3>4. at' \in {"data", "commit"} => sent' = 0 /\ device.buffer = <<>>
      BY <3>1, <3>2, <3>3 DEF Sending, FinalSteps
    <3> QED
      BY <1>1, <2>1, <3>2, <3>3, <3>4 DEF Held, FinalSteps
  <2> QED
    BY <2>2, <2>3
<1>3. CASE ReadLine_v0 \/ ReadLine_v1
  <2>1. device.buffer = <<>> /\ wire' = Silent
    BY <1>3, WireIsSilent DEF ReadLine_v0, ReadLine_v1, ReadLine, AtLine, Held
  <2>2. at' \in {"data", "commit"} => sent' = 0
    <3>1. PICK line \in LinesOf(file.of) :
            /\ ReadLine(line)
            /\ \/ ParseRowData(line) = "CYRET_SUCCESS" \/ ParseRowData_v1(line) = "CYRET_SUCCESS"
               \/ \E e : Fail(e)
               \/ ProcessMetaRow_v1(line)
      BY <1>3 DEF ReadLine_v0, ReadLine_v1
    <3>2. CASE line.first = ":"
      BY <3>1, <3>2 DEF ReadLine
    <3>3. CASE line.first # ":"
      BY <3>1, <3>3, RowLine, FileFacts
         DEF ProcessMetaRow_v1, Go, Fail, AfterError, HostTyped
    <3> QED
      BY <3>2, <3>3
  <2> QED
    BY <1>1, <2>1, <2>2 DEF Held
<1>4. CASE OpenConnection
  <2>1. wire' = Silent /\ at' \in {"enter", "exit", "returned"}
    BY <1>4, WireIsSilent DEF OpenConnection, Go, Fail, AfterError
  <2> QED
    BY <1>1, <2>1 DEF Held
<1>5. CASE SeeAbort \/ ReadEnd \/ TransferFails \/ EndBootloadOperation \/ CloseConnection
           \/ \E f \in Files, act \in {"PROGRAM", "ERASE", "VERIFY"}, app \in AppIds :
                RunAction(f, act, app)
  <2>1. at' \in FinalSteps \cup {"returned", "open", "exit", "close"}
    BY <1>5 DEF SeeAbort, ReadEnd, TransferFails, EndBootloadOperation,
       CloseConnection, AtLine, LastStep, GoIf, Go, Fail, AfterError, FinalSteps, RunAction
  <2> QED
    BY <2>1 DEF Held, FinalSteps
<1>6. CASE Abort
  <2>1. UNCHANGED <<at, wire, device, sent, SubBufSize>>
    BY <1>6 DEF Abort, hostVars, deviceVars, SubBufSize
  <2> QED
    BY <2>1 DEF Held
<1>7. CASE TransferData
  <2>1. UNCHANGED <<at, device, sent>> /\ wire.at = "silent" /\ wire'.at = "request"
    BY <1>1, <1>7 DEF TransferData, hostVars, deviceVars
  <2> QED
    BY <2>1 DEF Held
<1> QED
  BY <1>2, <1>3, <1>4, <1>5, <1>6, <1>7 DEF HostNext, Transfers

\* The code of a request says where the library is, and which block goes with it.
LEMMA RequestCode ==
  ASSUME Shape, at \in Asking
  PROVE  /\ Request.row = row
         /\ Request.code = "ENTER_BOOTLOADER" <=> at = "enter"
         /\ Request.code = "SEND_DATA" <=> at = "data"
         /\ Request.code \in Commits <=> at = "commit"
         /\ Request.code \in {"PROGRAM_ROW", "PROGRAM_DATA"}
              => at = "commit" /\ action = "PROGRAM"
         /\ Request.code \in {"ERASE_ROW", "ERASE_DATA"} <=> at = "erase"
         /\ Request.code = "GET_ROW_CHECKSUM" <=> at = "rowChecksum"
         /\ Request.code = "VERIFY_CHECKSUM" <=> at = "verifyApp"
         /\ Request.code = "GET_APP_STATUS" <=> at \in {"appStatus", "appValid"}
         /\ Request.code # "EXIT_BOOTLOADER"
         /\ at = "data" => Request.block = Block
         /\ at = "commit" => Request.block = LastBlock
         /\ at = "commit" => (Request.code = "PROGRAM_ROW" <=> ~V1)
<1> USE DEF Request, Cmd, EnterBootLoaderCmd, GetFlashSizeCmd, SendDataCmd,
     ProgramRowCmd, ProgramDataCmd, VerifyDataCmd, VerifyRowCmd, EraseRowCmd, EraseDataCmd,
     VerifyChecksumCmd, GetAppStatusCmd, SetActiveAppCmd, SetApplicationMetadataCmd,
     SetEncryptionInitialVectorCmd
<1>1. CASE at \in {"enter", "appStatus", "metadata", "eiv", "size"} \cup FinalSteps
  BY <1>1 DEF Commits, FinalSteps
<1>2. CASE at = "data"
  BY <1>2 DEF Commits
<1>3. CASE at = "commit"
  <2>1. (action = "PROGRAM" \/ V1) /\ action \in {"PROGRAM", "VERIFY"}
    BY <1>3 DEF Shape, HostTyped, RowInStep, RowSteps, Ahead
  <2> QED
    BY <1>3, <2>1 DEF Commits
<1>4. CASE at \in {"erase", "rowChecksum"}
  BY <1>4 DEF Commits
<1> QED
  BY ONLY <1>1, <1>2, <1>3, <1>4, at \in Asking DEF Asking, RowSteps, FinalSteps

\* What the last packet of a row carries is all that has not been sent.
LEMMA LastBlockIsTheRest ==
  ASSUME Shape, Sending, at = "commit"
  PROVE  LastBlock = [from |-> sent, to |-> row.size] /\ ~BlockDue(row, sent)
<1>1. row.size \in Nat /\ sent \in Nat
  BY BlockSize DEF Shape, HostTyped
<1>2. ~BlockDue(row, sent) /\ sent <= row.size
  BY DEF Sending, Ahead, RowSteps
<1>3. HeaderSize \in {10, 15} /\ MaxTransferSize \in 16..512
  BY CyBtldrAssumption DEF HeaderSize, CyBtldrAssumption
<1> DEFINE left == row.size - sent
<1>4. left \in Nat /\ ~(left > MaxTransferSize - HeaderSize)
  BY <1>1, <1>2 DEF BlockDue
<1>5. left < 65536
  BY <1>3, <1>4
<1>6. left % 65536 = left
  BY <1>4, <1>5
<1> QED
  BY <1>1, <1>2, <1>6 DEF LastBlock

LEMMA HeldDeviceStep ==
  ASSUME Shape, Sending, Held, DeviceAnswers \/ DeviceFails
  PROVE  Held'
<1>1. wire.at = "request" /\ cmd.code # "EXIT_BOOTLOADER"
  BY DEF DeviceAnswers, DeviceFails, Asked
<1>2. at \in Asking /\ cmd = Request
  BY <1>1 DEF Shape, WireInStep, cmd
<1>3. device' = Received /\ wire'.at = "answer" /\ UNCHANGED <<at, sent, SubBufSize>>
  BY DEF DeviceAnswers, DeviceFails, Answer, hostVars, SubBufSize
<1>4. device'.buffer = CASE cmd.code = "SEND_DATA" -> Append(device.buffer, cmd.block)
                          [] cmd.code \in Commits \cup {"ENTER_BOOTLOADER"} -> <<>>
                          [] OTHER -> device.buffer
  BY <1>3 DEF Received, Shape, DeviceTyped
<1>5. CASE at = "data"
  <2>1. sent \in Nat /\ SubBufSize \in Nat /\ device.buffer \in Seq(Blocks)
    BY BlockSize DEF Shape, HostTyped, DeviceTyped
  <2>2. cmd.code = "SEND_DATA" /\ cmd.block = Block
    BY <1>2, <1>5, RequestCode
  <2>3. Block \in Blocks /\ Block.from = sent /\ Block.to = sent + SubBufSize
    BY <2>1 DEF Block, Blocks
  <2>4. Covers(device.buffer, sent)
    BY <1>1, <1>5 DEF Held
  <2>5. Covers(Append(device.buffer, Block), sent + SubBufSize)
    BY <2>1, <2>3, <2>4, CoversOneMore
  <2>6. device'.buffer = Append(device.buffer, Block)
    BY <1>4, <2>2 DEF Commits
  <2> QED
    BY <1>3, <1>5, <2>5, <2>6 DEF Held
<1>6. CASE at \in {"enter", "commit"}
  <2>1. device'.buffer = <<>>
    BY <1>2, <1>4, <1>6, RequestCode DEF Commits
  <2> QED
    BY <1>3, <1>6, <2>1 DEF Held
<1>7. CASE at \notin {"data", "enter", "commit"}
  <2>1. device'.buffer = device.buffer
    BY <1>2, <1>4, <1>7, RequestCode
  <2> QED
    BY <1>3, <1>7, <2>1 DEF Held
<1> QED
  BY <1>5, <1>6, <1>7

LEMMA HeldStep == RowsFit /\ Shape /\ Sending /\ Held /\ [Next]_vars => Sending' /\ Held'
<1> SUFFICES ASSUME RowsFit, Shape, Sending, Held, [Next]_vars PROVE Sending' /\ Held'
  OBVIOUS
<1>1. CASE HostNext
  BY <1>1, SendingStep, HeldHostStep
<1>2. CASE DeviceAnswers \/ DeviceFails \/ DeviceLeaves \/ UNCHANGED vars
  <2>1. UNCHANGED <<at, hostVars>>
    BY <1>2 DEF DeviceAnswers, DeviceFails, DeviceLeaves, vars, hostVars
  <2>2. Sending'
    BY <2>1 DEF Sending, Ahead, BlockDue, HeaderSize, V1, hostVars
  <2>3. CASE DeviceAnswers \/ DeviceFails
    BY <2>2, <2>3, HeldDeviceStep
  <2>4. CASE DeviceLeaves
    <3>1. wire.at = "request" /\ cmd.code = "EXIT_BOOTLOADER"
      BY <2>4 DEF DeviceLeaves
    <3>2. at \in {"close", "returned"}
      BY <3>1, RequestCode DEF Shape, WireInStep, cmd
    <3> QED
      BY <2>1, <2>2, <3>1, <3>2 DEF Held, Shape, WireInStep, Asking, RowSteps
  <2>5. CASE UNCHANGED vars
    BY <2>2, <2>5 DEF vars, Held, SubBufSize
  <2> QED
    BY <1>2, <2>3, <2>4, <2>5
<1> QED
  BY <1>1, <1>2 DEF Next, HostNext

(* The library and the device are always somewhere the code knows: no more *)
(* of a row is sent than it has, and the rows of an array are those of the *)
(* file, whatever fails.                                                   *)
THEOREM TypesHold ==
  ASSUME RowsFit
  PROVE  Spec => []TypeOK
<1>1. Init => Shape /\ Sending /\ Held
  BY InitShape, InitSending, InitHeld
<1>2. (Shape /\ Sending /\ Held) /\ [Next]_vars => (Shape /\ Sending /\ Held)'
  BY ShapeStep, HeldStep
<1>3. Shape /\ Sending => TypeOK
  <2> SUFFICES ASSUME Shape, Sending PROVE TypeOK
    OBVIOUS
  <2>1. sent \in 0..row.size
    BY BlockSize DEF Shape, HostTyped, Sending
  <2>2. wire.at \in {"silent", "request", "answer"}
    BY DEF Shape, WireTyped, Silent, Requests, Results
  <2>3. file.of \in Files
    BY DEF Shape, HostTyped
  <2>4. device.entered \in BOOLEAN /\ device.dual \in Duals /\ device.active \in BOOLEAN
    BY DEF Shape, DeviceTyped
  <2>5. abort \in BOOLEAN
    BY DEF Shape, HostTyped
  <2> QED
    BY <2>1, <2>2, <2>3, <2>4, <2>5 DEF Shape, HostTyped, DeviceTyped, TypeOK, Points
<1> QED
  BY <1>1, <1>2, <1>3, PTL DEF Spec

(* A row that is programmed or verified arrives whole, in blocks and a last *)
(* packet that the transfer has room for, however large rows and packets    *)
(* are.                                                                     *)
THEOREM RowsAreSentWhole ==
  ASSUME RowsFit
  PROVE  Spec => []RowsArriveWhole
<1>1. Init => Shape /\ Sending /\ Held
  BY InitShape, InitSending, InitHeld
<1>2. (Shape /\ Sending /\ Held) /\ [Next]_vars => (Shape /\ Sending /\ Held)'
  BY ShapeStep, HeldStep
<1>3. Shape /\ Sending /\ Held => RowsArriveWhole
  <2> SUFFICES ASSUME Shape, Sending, Held, wire.at = "request", cmd.code \in Commits
               PROVE  RowIsWhole /\ CmdSize(cmd) <= MaxTransferSize
    BY DEF RowsArriveWhole
  <2>1. at = "commit" /\ cmd = Request
    <3>1. at \in Asking /\ cmd = Request
      BY DEF Shape, WireInStep, cmd, Commits
    <3> QED
      BY <3>1, RequestCode
  <2>2. cmd.row = row /\ cmd.block = LastBlock /\ (cmd.code = "PROGRAM_ROW" <=> ~V1)
    BY <2>1, RequestCode DEF Asking, RowSteps
  <2>3. LastBlock = [from |-> sent, to |-> row.size] /\ ~BlockDue(row, sent)
    BY <2>1, LastBlockIsTheRest
  <2>4. sent \in Nat /\ row.size \in Nat /\ device.buffer \in Seq(Blocks)
    BY BlockSize DEF Shape, HostTyped, DeviceTyped
  <2>5. Covers(device.buffer, sent)
    BY <2>1 DEF Held
  <2>6. /\ Append(device.buffer, LastBlock) # <<>>
        /\ Covers(Append(device.buffer, LastBlock), row.size)
    BY <2>3, <2>4, <2>5, CoversOneMore DEF Blocks
  <2>7. RowIsWhole
    BY <2>2, <2>6 DEF RowIsWhole, Whole, Covers
  <2>8. CmdSize(cmd) <= MaxTransferSize
    <3>1. cmd.block.to - cmd.block.from = row.size - sent /\ row.size - sent \in Int
      BY <2>2, <2>3, <2>4
    <3>2. row.size - sent <= MaxTransferSize - HeaderSize
      BY <2>3, <2>4, CyBtldrAssumption DEF BlockDue, HeaderSize, CyBtldrAssumption
    <3>3. 7 + (IF cmd.code = "PROGRAM_ROW" THEN 3 ELSE 8) <= HeaderSize
      BY <2>2 DEF HeaderSize
    <3>4. CmdSize(cmd) = 7 + (IF cmd.code = "PROGRAM_ROW" THEN 3 ELSE 8) + (row.size - sent)
      BY <2>2, <2>3, <2>4 DEF CmdSize
    <3>5. HeaderSize \in Int /\ MaxTransferSize \in Int
      BY CyBtldrAssumption DEF HeaderSize, CyBtldrAssumption
    <3> QED
      BY <3>1, <3>2, <3>3, <3>4, <3>5
  <2> QED
    BY <2>7, <2>8
<1> QED
  BY <1>1, <1>2, <1>3, PTL DEF Spec

-----------------------------------------------------------------------------
(***************************************************************************)
(* What an operation has done.                                             *)
(***************************************************************************)
\* The rows of the first lines of a file.
IsRow(f, line) == line.first = ":" /\ ParseRow(f, line) = "CYRET_SUCCESS"
RowsUpTo(f, n) == {f.lines[k].row : k \in {j \in 1..n : IsRow(f, f.lines[j])}}
RowsBefore == RowsUpTo(file.of, file.next - 1)

LEMMA NoRowsYet ==
  ASSUME NEW f
  PROVE  RowsUpTo(f, 0) = {}
<1>1. 1..0 = {}
  OBVIOUS
<1> QED
  BY <1>1 DEF RowsUpTo

\* The lines between the one read last and the next are comments.
LEMMA RowsWithNext ==
  ASSUME HostTyped, LinesLeft # {}
  PROVE  /\ RowsUpTo(file.of, Min(LinesLeft)) \subseteq
              RowsBefore \cup {file.of.lines[Min(LinesLeft)].row}
         /\ ~IsRow(file.of, file.of.lines[Min(LinesLeft)])
              => RowsUpTo(file.of, Min(LinesLeft)) \subseteq RowsBefore
<1> DEFINE m == Min(LinesLeft)
<1>1. /\ m \in Nat /\ file.next \in Nat
      /\ \A k \in file.next..m - 1 : file.of.lines[k].first = "#"
  BY NextLine
<1> HIDE DEF m
<1>2. ASSUME NEW k \in 1..m, IsRow(file.of, file.of.lines[k])
      PROVE  k \in 1..file.next - 1 \/ k = m
  BY <1>1, <1>2 DEF IsRow
<1> SUFFICES /\ RowsUpTo(file.of, m) \subseteq RowsBefore \cup {file.of.lines[m].row}
             /\ ~IsRow(file.of, file.of.lines[m]) => RowsUpTo(file.of, m) \subseteq RowsBefore
  BY DEF m
<1> QED
  BY <1>2 DEF RowsUpTo, RowsBefore

LEMMA RowsAtEnd ==
  ASSUME HostTyped, LinesLeft = {}
  PROVE  image \subseteq RowsBefore
<1>1. file.next \in Nat /\ Len(file.of.lines) \in Nat
  BY FileFacts DEF HostTyped
<1>2. ASSUME NEW k \in 1..Len(file.of.lines), IsRow(file.of, file.of.lines[k])
      PROVE  k \in 1..file.next - 1
  BY <1>1, <1>2 DEF LinesLeft, IsRow
<1>3. \A r \in image : \E k \in 1..Len(file.of.lines) :
        IsRow(file.of, file.of.lines[k]) /\ r = file.of.lines[k].row
  BY DEF image, RowsOf, LinesOf, IsRow
<1> QED
  BY <1>2, <1>3 DEF RowsBefore, RowsUpTo

LEMMA RowsBeforeAreRows ==
  ASSUME HostTyped
  PROVE  RowsBefore \subseteq image
<1>1. file.next \in 1..Len(file.of.lines) + 1 /\ Len(file.of.lines) \in Nat
  BY FileFacts DEF HostTyped
<1> QED
  BY <1>1 DEF RowsBefore, RowsUpTo, image, RowsOf, LinesOf, IsRow

\* The rows that the operation is through with, not the one it is at.
DoneRows == IF at \in RowSteps THEN RowsBefore \ {row} ELSE RowsBefore
Working == {"open", "line"} \cup Asking

\* An answer that lets the operation go on.
Success == wire.at = "answer" /\ ParseResult = "CYRET_SUCCESS"

Finished == IF action = "ERASE" THEN image \cap programmed = {} ELSE image \subseteq programmed

Doing ==
  /\ at \in Working /\ action = "ERASE" => DoneRows \cap programmed = {}
  /\ at \in Working /\ action = "PROGRAM" /\ ~V1 => DoneRows \subseteq programmed
  /\ at = "erase" /\ Success => row \notin programmed
  /\ at = "rowChecksum" /\ Success /\ wire.ok => row \in programmed
  /\ at \in {"verifyApp", "appValid"} /\ Success /\ wire.ok => image \subseteq programmed
  /\ at \in FinalSteps /\ action = "PROGRAM" /\ ~V1 => image \subseteq programmed
  /\ at = "setActive" => image \subseteq programmed
  /\ at \in {"exit", "close"} /\ err = "CYRET_SUCCESS" => Finished

LEMMA InitDoing == Init => Doing
  BY DEF Init, Doing, Working, Asking, RowSteps, FinalSteps

LEMMA DoingAnswers ==
  ASSUME Shape, Doing, Answers
  PROVE  Doing'
<1> USE DEF Shape
<1>1. ~Success' /\ wire.at = "answer" /\ at \in Asking
  <2>1. wire.at = "answer" /\ wire' = Silent
    BY AnswersTake
  <2> QED
    BY <2>1 DEF Success, Silent, WireInStep
<1>2. /\ UNCHANGED <<action, file, row, programmed, V1, image, RowsBefore>>
      /\ Finished' = Finished
  BY AnswersTake DEF deviceVars, V1, image, RowsBefore, Finished
<1>3. at' = "setActive" => image \subseteq programmed
  BY <1>1 DEF Answers, StartBootloadOperation, StartBootloadOperation_v1,
     SetApplicationMetaData, GetApplicationStatus, SetEncryptionInitialVector,
     GetFlashSize, SendData, ProgramRow, ProgramRow_v1, EraseRow, EraseRow_v1, VerifyRow,
     VerifyRow_v1, VerifyApplication, VerifyApplication_v1, ApplicationIsValid,
     SetApplicationStatus, Simple, Checked, Answered, ValidateRow, GoIf, Go, Fail,
     AfterError, Success, Doing, RowInStep, Ahead, RowSteps
<1>4. at' \in FinalSteps => at = "appValid" /\ at' = "setActive"
  BY DEF Answers, StartBootloadOperation, StartBootloadOperation_v1,
     SetApplicationMetaData, GetApplicationStatus, SetEncryptionInitialVector,
     GetFlashSize, SendData, ProgramRow, ProgramRow_v1, EraseRow, EraseRow_v1, VerifyRow,
     VerifyRow_v1, VerifyApplication, VerifyApplication_v1, ApplicationIsValid,
     SetApplicationStatus, Simple, Checked, Answered, ValidateRow, GoIf, Go, Fail,
     AfterError, RowInStep, Ahead, RowSteps, FinalSteps
<1>5. at' \in {"exit", "close"} /\ err' = "CYRET_SUCCESS" => Finished
  <2>1. SUFFICES ASSUME at' \in {"exit", "close"}, err' = "CYRET_SUCCESS"
                 PROVE  Finished
    OBVIOUS
  <2>2. CASE VerifyApplication \/ VerifyApplication_v1
    <3>1. at = "verifyApp" /\ Success /\ wire.ok
      BY <1>1, <2>1, <2>2 DEF VerifyApplication, VerifyApplication_v1, Checked, Answered,
         GoIf, Go, Fail, Success
    <3> QED
      BY <3>1 DEF Doing, Finished, RowInStep, FinalSteps
  <2>3. CASE SetApplicationStatus
    <3>1. at = "setActive"
      BY <2>3 DEF SetApplicationStatus, Simple, Answered
    <3> QED
      BY <3>1 DEF Doing, Finished, RowInStep, FinalSteps
  <2>4. CASE ApplicationIsValid
    <3>1. at = "appValid"
      BY <2>4 DEF ApplicationIsValid, Answered
    <3> QED
      BY <3>1 DEF Doing, Finished, RowInStep, FinalSteps
  <2>5. CASE ~(VerifyApplication \/ VerifyApplication_v1 \/ SetApplicationStatus
               \/ ApplicationIsValid)
    BY <2>1, <2>5 DEF Answers, StartBootloadOperation, StartBootloadOperation_v1,
       SetApplicationMetaData, GetApplicationStatus, SetEncryptionInitialVector,
       GetFlashSize, SendData, ProgramRow, ProgramRow_v1, EraseRow, EraseRow_v1, VerifyRow,
       VerifyRow_v1, Simple, Checked, Answered, ValidateRow, GoIf, Go, Fail,
       RowInStep, Ahead, RowSteps
  <2> QED
    BY <2>2, <2>3, <2>4, <2>5
<1>6. at' \in Working => at \in Working /\ (at \in RowSteps \/ at' \notin RowSteps)
  BY DEF Answers, StartBootloadOperation, StartBootloadOperation_v1,
     SetApplicationMetaData, GetApplicationStatus, SetEncryptionInitialVector,
     GetFlashSize, SendData, ProgramRow, ProgramRow_v1, EraseRow, EraseRow_v1, VerifyRow,
     VerifyRow_v1, VerifyApplication, VerifyApplication_v1, ApplicationIsValid,
     SetApplicationStatus, Simple, Checked, Answered, ValidateRow, GoIf, Go, Fail,
     AfterError, Working, Asking, RowInStep, Ahead, RowSteps, FinalSteps
<1>7. at \in RowSteps /\ at' \in Working \ RowSteps
        => /\ action = "ERASE" => row \notin programmed
           /\ action = "PROGRAM" /\ ~V1 => row \in programmed
  <2>1. SUFFICES ASSUME at \in RowSteps, at' \in Working \ RowSteps
                 PROVE  /\ action = "ERASE" => row \notin programmed
                        /\ action = "PROGRAM" /\ ~V1 => row \in programmed
    OBVIOUS
  <2>2. CASE EraseRow \/ EraseRow_v1
    <3>1. at = "erase" /\ Success
      BY <1>1, <2>1, <2>2 DEF EraseRow, EraseRow_v1, Simple, Answered, GoIf, Go, Fail,
         AfterError, Success, Working, Asking, RowSteps, FinalSteps
    <3> QED
      BY <3>1 DEF Doing, RowInStep, Ahead, RowSteps
  <2>3. CASE VerifyRow
    <3>1. at = "rowChecksum" /\ Success /\ wire.ok
      BY <1>1, <2>1, <2>3 DEF VerifyRow, Checked, Answered, GoIf, Go, Fail,
         AfterError, Success, Working, Asking, RowSteps, FinalSteps
    <3> QED
      BY <3>1 DEF Doing, RowInStep, Ahead, RowSteps
  <2>4. CASE ProgramRow_v1 \/ VerifyRow_v1
    BY <2>4 DEF ProgramRow_v1, VerifyRow_v1
  <2>5. CASE GetFlashSize \/ SendData \/ ProgramRow
    BY <2>1, <2>5 DEF GetFlashSize, SendData, ProgramRow, Answered, ValidateRow, GoIf, Go,
       Fail, AfterError, Working, Asking, RowInStep, Ahead, RowSteps, FinalSteps
  <2>6. CASE ~(EraseRow \/ EraseRow_v1 \/ VerifyRow \/ ProgramRow_v1 \/ VerifyRow_v1
               \/ GetFlashSize \/ SendData \/ ProgramRow)
    BY <2>1, <2>6 DEF Answers, StartBootloadOperation, StartBootloadOperation_v1,
       SetApplicationMetaData, GetApplicationStatus, SetEncryptionInitialVector,
       VerifyApplication, VerifyApplication_v1, ApplicationIsValid,
       SetApplicationStatus, Simple, Checked, Answered, RowSteps
  <2> QED
    BY <2>2, <2>3, <2>4, <2>5, <2>6
<1>8. /\ at' \in Working /\ action = "ERASE" => DoneRows' \cap programmed = {}
      /\ at' \in Working /\ action = "PROGRAM" /\ ~V1 => DoneRows' \subseteq programmed
  BY <1>2, <1>6, <1>7 DEF Doing, DoneRows
<1>9. at = "appValid" => image \subseteq programmed \/ V1 \/ action # "PROGRAM"
  BY DEF Doing, FinalSteps
<1> QED
  BY <1>1, <1>2, <1>3, <1>4, <1>5, <1>8, <1>9 DEF Doing

LEMMA DoingHostStep ==
  ASSUME Shape, Doing, HostNext
  PROVE  Doing'
<1> USE DEF Shape
<1>1. UNCHANGED programmed
  BY HostLeavesTheDevice DEF deviceVars
<1>2. CASE \E f \in Files, act \in {"PROGRAM", "ERASE", "VERIFY"}, app \in AppIds :
             RunAction(f, act, app)
  <2>1. PICK f \in Files, act \in {"PROGRAM", "ERASE", "VERIFY"}, app \in AppIds :
               RunAction(f, act, app)
    BY <1>2
  <2>2. file'.next - 1 = 0 /\ at' \in {"open", "returned"}
    BY <2>1 DEF RunAction
  <2>3. RowsBefore' = {}
    BY <2>2, NoRowsYet DEF RowsBefore
  <2> QED
    BY <2>2, <2>3 DEF Doing, DoneRows, FinalSteps, RowSteps
<1>3. CASE ReadLine_v0 \/ ReadLine_v1
  <2>1. PICK line \in LinesOf(file.of) :
          /\ ReadLine(line)
          /\ \/ /\ ParseRowData(line) = "CYRET_SUCCESS" \/ ParseRowData_v1(line) = "CYRET_SUCCESS"
                /\ ParseRow(file.of, line) = "CYRET_SUCCESS"
             \/ \E e : e \in Codes \ {"CYRET_SUCCESS"} /\ Fail(e)
             \/ line.first # ":" /\ ProcessMetaRow_v1(line)
    <3>1. V1 <=> file.of.extension = ".cyacd2"
      BY DEF V1
    <3>2. at = "line"
      BY <1>3 DEF ReadLine_v0, ReadLine_v1, ReadLine, AtLine
    <3>3. \A line : ParseRow(file.of, line)
                      = IF V1 THEN ParseRowData_v1(line) ELSE ParseRowData(line)
      BY <3>1, <3>2 DEF RowInStep, ParseRow
    <3> QED
      BY <1>3, <3>3, ParseCodes DEF ReadLine_v0, ReadLine_v1
  <2>2. file'.of = file.of /\ V1' = V1 /\ UNCHANGED action /\ at = "line"
    BY <1>3, <2>1, SameFile DEF ReadLine, AtLine, V1, HostNext
  <2>3. wire' = Silent
    BY <2>1, WireIsSilent DEF ReadLine, AtLine
  <2>4. ~Success' /\ DoneRows = RowsBefore /\ at \in Working
    BY <2>2, <2>3 DEF Success, Silent, DoneRows, RowSteps, Working
  <2> DEFINE m == Min(LinesLeft)
  <2>5. /\ line = file.of.lines[m] /\ file'.next = m + 1 /\ m \in Nat
        /\ RowsUpTo(file.of, m) \subseteq RowsBefore \cup {line.row}
        /\ ~IsRow(file.of, line) => RowsUpTo(file.of, m) \subseteq RowsBefore
    BY <2>1, NextLine, RowsWithNext DEF ReadLine, HostTyped
  <2>6. RowsBefore' = RowsUpTo(file.of, m)
    <3>1. file'.next - 1 = m
      BY <2>5
    <3> QED
      BY <2>2, <3>1 DEF RowsBefore
  <2>7. /\ at' \notin FinalSteps
        /\ at' \in {"exit", "close"} => err' # "CYRET_SUCCESS"
        /\ IsRow(file.of, line) => row' = line.row /\ at' # "line"
        /\ at' \in RowSteps => row' = line.row /\ at' # "line"
    <3>1. IsRow(file.of, line) => line.first = ":"
      BY DEF IsRow
    <3>2. ParseRowData(line) = "CYRET_SUCCESS" \/ ParseRowData_v1(line) = "CYRET_SUCCESS"
            => line.first = ":"
      BY RowLine, FileFacts DEF HostTyped
    <3>3. line.first = ":" => row' = line.row
      BY <2>1 DEF ReadLine
    <3>4. at' \notin FinalSteps
      BY <1>3, <2>2 DEF ReadLine_v0, ReadLine_v1, ProcessDataRow_v0, ProcessDataRow_v1,
         ProcessMetaRow_v1, ValidateRow, FirstBlock, GoIf, Go, Fail, AfterError, FinalSteps,
         HostTyped
    <3>5. at' \in {"exit", "close"} => err' # "CYRET_SUCCESS"
      BY <1>3, <2>2 DEF ReadLine_v0, ReadLine_v1, ProcessDataRow_v0, ProcessDataRow_v1,
         ProcessMetaRow_v1, ValidateRow, FirstBlock, GoIf, Go, Fail, AfterError, FinalSteps,
         HostTyped
    <3>6. line.first = ":" => at' # "line"
      BY <1>3, <2>1, <2>2, <2>5 DEF ReadLine_v0, ReadLine_v1, ReadLine, ProcessDataRow_v0,
         ProcessDataRow_v1, ValidateRow, FirstBlock, GoIf, Go, Fail, AfterError, HostTyped
    <3>7. at' \in RowSteps => line.first = ":"
      BY <2>1, <3>2 DEF ProcessMetaRow_v1, Go, Fail, AfterError, RowSteps
    <3> QED
      BY <3>1, <3>3, <3>4, <3>5, <3>6, <3>7
  <2> HIDE DEF m
  <2>8. at' \in Working => DoneRows' \subseteq DoneRows
    <3>1. CASE at' \in RowSteps
      BY <2>4, <2>5, <2>6, <2>7, <3>1 DEF DoneRows
    <3>2. CASE at' \notin RowSteps /\ ~IsRow(file.of, line)
      BY <2>4, <2>5, <2>6, <3>2 DEF DoneRows
    <3>3. CASE at' \notin RowSteps /\ IsRow(file.of, line)
      <4>1. at' \notin Working
        BY <1>3, <2>1, <2>2, <2>5, <3>3 DEF IsRow, ReadLine_v0, ReadLine_v1, ReadLine,
           ProcessDataRow_v0, ProcessDataRow_v1, ValidateRow, FirstBlock, GoIf, Go, Fail,
           AfterError, HostTyped, Working, Asking, RowSteps, FinalSteps
      <4> QED
        BY <4>1
    <3> QED
      BY <3>1, <3>2, <3>3
  <2> QED
    BY <1>1, <2>2, <2>4, <2>7, <2>8 DEF Doing, FinalSteps
<1>4. CASE ReadEnd
  <2>1. UNCHANGED <<file, action, row, V1, image, RowsBefore>> /\ at = "line" /\ LinesLeft = {}
    BY <1>4 DEF ReadEnd, AtLine, V1, image, RowsBefore
  <2>2. image = RowsBefore /\ RowsBefore = DoneRows /\ at \in Working
    BY <2>1, RowsAtEnd, RowsBeforeAreRows DEF DoneRows, RowSteps, Working
  <2>3. wire' = Silent
    BY <1>4, WireIsSilent DEF ReadEnd, AtLine
  <2>4. ~Success'
    BY <2>3 DEF Success, Silent
  <2>5. \/ at' = LastStep /\ err' = err
        \/ at' = "exit" /\ err' # "CYRET_SUCCESS"
    BY <1>4 DEF ReadEnd, EndOfFile, GoIf, Go, Fail, AfterError
  <2>6. LastStep \in {"exit", "appValid", "verifyApp"} /\ (LastStep = "exit" => action = "ERASE")
    BY DEF LastStep
  <2>7. action = "ERASE" => image \cap programmed = {}
    BY <2>2 DEF Doing
  <2>8. action = "PROGRAM" /\ ~V1 => image \subseteq programmed
    BY <2>2 DEF Doing
  <2>9. at' \notin RowSteps /\ at' # "setActive"
    BY <2>5, <2>6 DEF RowSteps
  <2>10. DoneRows' = image /\ image' = image
    BY <2>1, <2>2, <2>9 DEF DoneRows
  <2>11. at' \in {"exit", "close"} /\ err' = "CYRET_SUCCESS" => Finished'
    BY <1>1, <2>1, <2>5, <2>6, <2>7 DEF Finished
  <2> QED
    BY <1>1, <2>1, <2>4, <2>7, <2>8, <2>9, <2>10, <2>11 DEF Doing, RowSteps
<1>5. CASE SeeAbort \/ OpenConnection \/ TransferFails
  <2>1. /\ UNCHANGED <<file, action, row, V1, image, RowsBefore>>
        /\ at # "returned" /\ at \notin {"exit", "close"}
    BY <1>5 DEF SeeAbort, OpenConnection, TransferFails, AtLine, V1, image, RowsBefore,
       Asking, RowSteps, FinalSteps
  <2>2. \/ at' \in {"exit", "returned"} /\ err' # "CYRET_SUCCESS"
        \/ at = "open" /\ at' = "enter"
    BY <1>5 DEF SeeAbort, OpenConnection, TransferFails, AtLine, Go, Fail, AfterError
  <2>3. at' = "enter" => DoneRows' = DoneRows /\ at \in Working
    BY <2>1, <2>2 DEF DoneRows, RowSteps, Working
  <2> QED
    BY <1>1, <2>1, <2>2, <2>3 DEF Doing, Working, Asking, RowSteps, FinalSteps
<1>6. CASE EndBootloadOperation \/ CloseConnection
  <2>1. /\ UNCHANGED <<file, action, row, V1, image, err>> /\ at \in {"exit", "close"}
        /\ at' \in {"close", "returned"}
    BY <1>6 DEF EndBootloadOperation, CloseConnection, Go, V1, image
  <2> QED
    BY <1>1, <2>1 DEF Doing, Finished, Working, Asking, RowSteps, FinalSteps
<1>7. CASE Abort
  <2>1. UNCHANGED <<at, err, action, file, row, programmed, wire, V1, image, RowsBefore,
                    DoneRows, Finished, Success>>
    BY <1>7 DEF Abort, hostVars, deviceVars, V1, image, RowsBefore, DoneRows, Finished,
       Success, ParseResult
  <2> QED
    BY <2>1 DEF Doing
<1>8. CASE TransferData
  <2>1. UNCHANGED <<at, err, action, file, row, programmed, V1, image, RowsBefore,
                    DoneRows, Finished>>
    BY <1>8 DEF TransferData, hostVars, deviceVars, V1, image, RowsBefore, DoneRows, Finished
  <2>2. ~Success'
    BY <1>8 DEF TransferData, Success
  <2> QED
    BY <2>1, <2>2 DEF Doing
<1> QED
  BY <1>2, <1>3, <1>4, <1>5, <1>6, <1>7, <1>8, DoingAnswers DEF HostNext, Transfers

\* The device changes no row but the one of the request, and no answer is better than it.
LEMMA DeviceChanges ==
  ASSUME Shape, DeviceAnswers \/ DeviceFails
  PROVE  /\ at \in Asking /\ UNCHANGED <<at, err, hostVars>> /\ wire'.at = "answer"
         /\ \/ UNCHANGED programmed
            \/ at = "commit" /\ action = "PROGRAM" /\ programmed' = programmed \cup {row}
            \/ at = "commit" /\ action = "PROGRAM" /\ programmed' = programmed \ {row}
            \/ at = "erase" /\ programmed' = programmed \ {row}
         /\ at = "erase" /\ Success' => row \notin programmed'
         /\ at = "rowChecksum" /\ Success' /\ wire'.ok => row \in programmed'
         /\ at \in {"verifyApp", "appValid"} /\ Success' /\ wire'.ok => image \subseteq programmed'
<1>1. wire.at = "request" /\ cmd.code # "EXIT_BOOTLOADER"
  BY DEF DeviceAnswers, DeviceFails, Asked
<1>2. at \in Asking /\ cmd = Request
  BY <1>1 DEF Shape, WireInStep, cmd
<1>3. /\ cmd.row = row
      /\ cmd.code \in {"PROGRAM_ROW", "PROGRAM_DATA"} => at = "commit" /\ action = "PROGRAM"
      /\ cmd.code \in {"ERASE_ROW", "ERASE_DATA"} <=> at = "erase"
      /\ cmd.code = "GET_ROW_CHECKSUM" <=> at = "rowChecksum"
      /\ cmd.code = "VERIFY_CHECKSUM" <=> at = "verifyApp"
      /\ cmd.code = "GET_APP_STATUS" <=> at \in {"appStatus", "appValid"}
  BY <1>2, RequestCode
<1>4. UNCHANGED <<at, err, hostVars>> /\ wire'.at = "answer"
  BY DEF DeviceAnswers, DeviceFails, Answer
<1>5. CASE DeviceAnswers
  <2>1. programmed' = Written /\ wire' = Answer(Status, Ok)
    BY <1>5 DEF DeviceAnswers
  <2>2. wire'.ok = Ok
    BY <2>1 DEF Answer
  <2>3. \/ Written = programmed
        \/ at = "commit" /\ action = "PROGRAM" /\ Written = programmed \cup {row}
        \/ at = "erase" /\ Written = programmed \ {row}
    BY <1>3 DEF Written
  <2>4. at = "erase" => Written = programmed \ {row}
    BY <1>3 DEF Written
  <2>5. at \in {"rowChecksum", "verifyApp", "appValid"} => Written = programmed
    BY <1>3 DEF Written
  <2>6. at = "rowChecksum" => (Ok <=> row \in programmed)
    BY <1>3 DEF Ok
  <2>7. at \in {"verifyApp", "appValid"} => (Ok <=> image \subseteq programmed)
    BY <1>3 DEF Ok
  <2>8. at = "rowChecksum" /\ wire'.ok => row \in programmed'
    BY <2>1, <2>2, <2>5, <2>6
  <2>9. at \in {"verifyApp", "appValid"} /\ wire'.ok => image \subseteq programmed'
    BY <2>1, <2>2, <2>5, <2>7
  <2> QED
    BY <1>2, <1>4, <2>1, <2>3, <2>4, <2>8, <2>9
<1>6. CASE DeviceFails
  <2>1. CASE cmd.code \in {"PROGRAM_ROW", "PROGRAM_DATA"} /\ programmed' = programmed \ {cmd.row}
    BY <1>2, <1>3, <1>4, <2>1
  <2>2. CASE /\ UNCHANGED programmed
             /\ wire' \in {Answer("CYRET_ERR_BTLDR_MASK", TRUE),
                           [Answer("CYRET_SUCCESS", TRUE) EXCEPT !.wellFormed = FALSE]}
    <3>1. ~Success'
      BY <2>2 DEF Success, ParseResult, Answer
    <3> QED
      BY <1>2, <1>4, <2>2, <3>1
  <2> QED
    BY <1>6, <2>1, <2>2 DEF DeviceFails
<1> QED
  BY <1>5, <1>6

LEMMA DoingStep == Shape /\ Doing /\ [Next]_vars => Doing'
<1> SUFFICES ASSUME Shape, Doing, [Next]_vars PROVE Doing'
  OBVIOUS
<1>1. CASE DeviceAnswers \/ DeviceFails
  <2>1. UNCHANGED <<at, err, action, file, row, V1, image, RowsBefore, DoneRows>>
    BY <1>1, DeviceChanges DEF hostVars, V1, image, RowsBefore, DoneRows
  <2>2. at \in Asking
    BY <1>1, DeviceChanges
  <2>3. at \in Working /\ action = "ERASE" => DoneRows \cap programmed' = {}
    BY <1>1, DeviceChanges DEF Doing
  <2>4. at \in Working /\ action = "PROGRAM" /\ ~V1 => DoneRows \subseteq programmed'
    <3>1. at = "erase" => action = "ERASE"
      BY DEF Shape, RowInStep, RowSteps, Ahead
    <3>2. at \in RowSteps => row \notin DoneRows
      BY DEF DoneRows
    <3> QED
      BY <1>1, <3>1, <3>2, DeviceChanges DEF Doing, RowSteps
  <2>5. at \in FinalSteps => UNCHANGED programmed
    BY <1>1, DeviceChanges DEF FinalSteps
  <2>6. at \notin {"exit", "close"}
    BY <2>2 DEF Asking, RowSteps, FinalSteps
  <2>7. /\ at = "erase" /\ Success' => row \notin programmed'
        /\ at = "rowChecksum" /\ Success' /\ wire'.ok => row \in programmed'
        /\ at \in {"verifyApp", "appValid"} /\ Success' /\ wire'.ok => image \subseteq programmed'
    BY <1>1, DeviceChanges
  <2>8. at = "setActive" => image \subseteq programmed'
    BY <2>5 DEF Doing, FinalSteps
  <2>9. at \in FinalSteps /\ action = "PROGRAM" /\ ~V1 => image \subseteq programmed'
    BY <2>5 DEF Doing
  <2> QED
    BY <2>1, <2>3, <2>4, <2>6, <2>7, <2>8, <2>9 DEF Doing
<1>2. CASE DeviceLeaves
  <2>1. ~Success'
    BY <1>2 DEF DeviceLeaves, Success, Silent
  <2>2. UNCHANGED <<at, err, action, file, row, programmed, V1, image, RowsBefore, DoneRows,
                    Finished>>
    BY <1>2 DEF DeviceLeaves, hostVars, V1, image, RowsBefore, DoneRows, Finished
  <2> QED
    BY <2>1, <2>2 DEF Doing
<1>3. CASE UNCHANGED vars
  <2>1. UNCHANGED <<at, err, action, file, row, programmed, wire, V1, image, RowsBefore,
                    DoneRows, Finished, Success>>
    BY <1>3 DEF vars, V1, image, RowsBefore, DoneRows, Finished, Success, ParseResult
  <2> QED
    BY <2>1 DEF Doing
<1>4. CASE HostNext
  BY <1>4, DoingHostStep
<1> QED
  BY <1>1, <1>2, <1>3, <1>4 DEF Next, HostNext

-----------------------------------------------------------------------------
(***************************************************************************)
(* Every step of the library is one of the promise, or none.               *)
(***************************************************************************)
\* The connection and the outcome, of each place.
LEMMA Places ==
  /\ at \in {"returned", "open"} => Connection = "closed"
  /\ at = "exit" => Connection = "leaving"
  /\ at = "close" => Connection = "exiting"
  /\ at \in Asking \cup {"line"} /\ wire = Silent => Connection = "open"
  /\ at \in Asking /\ wire # Silent => Connection = "asked"
  /\ at # "returned" => Outcome = "running"
  /\ at = "returned" => Outcome \in {"ok", "cut", "error"}
  /\ at = "returned" /\ err = "CYRET_ERR_COMM_MASK" => Outcome = "cut"
  /\ at = "returned" /\ err \notin {"CYRET_SUCCESS", "CYRET_ERR_COMM_MASK"}
       => Outcome = "error"
  /\ at = "returned" /\ Outcome = "ok" => err = "CYRET_SUCCESS"
  BY DEF Connection, Outcome, Asking, RowSteps, FinalSteps

LEMMA PlacesNext ==
  /\ at' \in {"returned", "open"} => Connection' = "closed"
  /\ at' = "exit" => Connection' = "leaving"
  /\ at' = "close" => Connection' = "exiting"
  /\ at' \in Asking \cup {"line"} /\ wire' = Silent => Connection' = "open"
  /\ at' \in Asking /\ wire' # Silent => Connection' = "asked"
  /\ at' # "returned" => Outcome' = "running"
  /\ at' = "returned" => Outcome' \in {"ok", "cut", "error"}
  /\ at' = "returned" /\ err' = "CYRET_ERR_COMM_MASK" => Outcome' = "cut"
  /\ at' = "returned" /\ err' \notin {"CYRET_SUCCESS", "CYRET_ERR_COMM_MASK"}
       => Outcome' = "error"
  /\ at' = "returned" /\ Outcome' = "ok" => err' = "CYRET_SUCCESS"
  BY DEF Connection, Outcome, Asking, RowSteps, FinalSteps

LEMMA InitPromise == Init => Promise!Init
<1> SUFFICES ASSUME Init PROVE Promise!Init
  OBVIOUS
<1>1. at = "returned" /\ err = "CYRET_ERR_FILE" /\ file.of \in Files
  BY DEF Init
<1>2. Connection = "closed" /\ Outcome = "error"
  BY <1>1, Places
<1>3. image \subseteq Rows
  BY <1>1, FileFacts DEF image
<1> QED
  BY <1>2, <1>3 DEF Init, Promise!Init, Promise!Actions

\* An answer lets the operation go on, or it leaves the bootloader.
LEMMA AnswersLead ==
  ASSUME Shape, Answers
  PROVE  /\ at \in Asking /\ wire # Silent /\ wire' = Silent
         /\ at' \in Asking \cup {"line", "exit"}
<1> USE DEF Shape
<1>1. wire.at = "answer" /\ wire' = Silent /\ Silent.at = "silent"
  BY AnswersTake DEF Silent
<1>2. at \in Asking
  BY <1>1 DEF WireInStep
<1>3. ParseResult # "CYRET_ERR_COMM_MASK" /\ AppStartAndSize # "CYRET_ERR_COMM_MASK"
  <2>1. wire \in Results
    BY <1>1 DEF WireTyped, Requests
  <2>2. wire.status # "CYRET_ERR_COMM_MASK"
    BY <2>1 DEF Results
  <2> QED
    BY <2>2, FileCodes DEF ParseResult, Codes
<1>4. at' # "returned"
  <2>1. CASE GetFlashSize
    BY <1>3, <2>1 DEF GetFlashSize, Answered, GoIf, Go, Fail, AfterError, RowInStep, Ahead,
       RowSteps
  <2>2. CASE StartBootloadOperation_v1
    BY <1>3, <2>2 DEF StartBootloadOperation_v1, GoIf, Go, Fail, AfterError
  <2>3. CASE ~(GetFlashSize \/ StartBootloadOperation_v1)
    BY <1>3, <2>3 DEF Answers, StartBootloadOperation, SetApplicationMetaData,
       GetApplicationStatus, SetEncryptionInitialVector, SendData, ProgramRow,
       ProgramRow_v1, EraseRow, EraseRow_v1, VerifyRow, VerifyRow_v1, VerifyApplication,
       VerifyApplication_v1, ApplicationIsValid, SetApplicationStatus, Simple, Checked,
       ValidateRow, GoIf, Go, Fail, AfterError
  <2> QED
    BY <2>1, <2>2, <2>3
<1>5. at' \in Asking \cup {"line", "exit", "returned"}
  BY DEF Answers, StartBootloadOperation, StartBootloadOperation_v1,
     SetApplicationMetaData, GetApplicationStatus, SetEncryptionInitialVector,
     GetFlashSize, SendData, ProgramRow, ProgramRow_v1, EraseRow, EraseRow_v1, VerifyRow,
     VerifyRow_v1, VerifyApplication, VerifyApplication_v1, ApplicationIsValid,
     SetApplicationStatus, Simple, Checked, ValidateRow, GoIf, Go, Fail, AfterError,
     Asking, RowSteps, FinalSteps, RowInStep, Ahead, Answered
<1> QED
  BY <1>1, <1>2, <1>4, <1>5

LEMMA PromiseHostStep ==
  ASSUME Shape, Doing, HostNext
  PROVE  [Promise!Next]_(Promise!vars)
<1> USE DEF Shape
<1>1. UNCHANGED programmed
  BY HostLeavesTheDevice DEF deviceVars
<1>2. CASE \E f \in Files, act \in {"PROGRAM", "ERASE", "VERIFY"}, app \in AppIds :
             RunAction(f, act, app)
  <2>1. PICK f \in Files, act \in {"PROGRAM", "ERASE", "VERIFY"}, app \in AppIds :
               RunAction(f, act, app)
    BY <1>2
  <2>2. at = "returned" /\ at' \in {"open", "returned"} /\ action' = act /\ file'.of = f
    BY <2>1 DEF RunAction
  <2>3. Connection = "closed" /\ Connection' = "closed" /\ Outcome # "running"
    BY <2>2, Places, PlacesNext
  <2>4. image' \in SUBSET Rows /\ action' \in Promise!Actions
    BY <2>2, FileFacts DEF image, Promise!Actions
  <2>5. at' = "returned" => err' \notin {"CYRET_SUCCESS", "CYRET_ERR_COMM_MASK"}
    <3> DEFINE header == CASE FileVersion(f) = "0" -> ParseHeader(f)
                           [] FileVersion(f) = "1" -> ParseHeader_v1(f)
                           [] OTHER -> FileVersion(f)
    <3>1. header # "CYRET_ERR_COMM_MASK"
      BY HeaderCodes DEF Codes
    <3>2. err' = header /\ at' = IF header = "CYRET_SUCCESS" THEN "open" ELSE "returned"
      BY <2>1 DEF RunAction
    <3> HIDE DEF header
    <3> QED
      BY <3>1, <3>2
  <2>6. Outcome' \in {"running", "error"}
    BY <2>2, <2>5, PlacesNext
  <2>7. Promise!Begin
    BY <1>1, <2>3, <2>4, <2>6 DEF Promise!Begin
  <2> QED
    BY <2>7 DEF Promise!Next
<1>3. CASE ~\E f \in Files, act \in {"PROGRAM", "ERASE", "VERIFY"}, app \in AppIds :
              RunAction(f, act, app)
  <2>1. at # "returned"
    <3>1. CASE Answers
      BY <3>1, AnswersLead DEF Asking, RowSteps, FinalSteps
    <3>2. CASE ~Answers
      BY <1>3, <3>2 DEF HostNext, Abort, SeeAbort, ReadLine_v0, ReadLine_v1, ReadLine,
         ReadEnd, AtLine, OpenConnection, Transfers, TransferData, TransferFails,
         EndBootloadOperation, CloseConnection, Asking, RowSteps, FinalSteps
    <3> QED
      BY <3>1, <3>2
  <2>2. UNCHANGED <<action, image, programmed>> /\ Outcome = "running"
    <3>1. file'.of = file.of /\ UNCHANGED action
      BY <2>1, SameFile
    <3> QED
      BY <1>1, <2>1, <3>1, Places DEF image
  <2>3. CASE Abort
    <3>1. UNCHANGED <<Connection, Outcome>>
      BY <2>3 DEF Abort, Connection, Outcome
    <3> QED
      BY <2>2, <3>1 DEF Promise!vars
  <2>4. CASE SeeAbort \/ ReadLine_v0 \/ ReadLine_v1 \/ ReadEnd
    <3>1. at = "line" /\ wire = Silent /\ wire' = Silent
      BY <2>4, WireIsSilent DEF SeeAbort, ReadLine_v0, ReadLine_v1, ReadLine, ReadEnd, AtLine
    <3>2. at' # "returned"
      BY <2>4, <3>1, ParseCodes, FileCodes DEF SeeAbort, ReadLine_v0, ReadLine_v1, ReadEnd,
         ProcessDataRow_v0, ProcessDataRow_v1, ProcessMetaRow_v1, ValidateRow, FirstBlock,
         LastStep, GoIf, Go, Fail, AfterError, Codes, HostTyped
    <3>3. at' \in Asking \cup {"line", "exit", "returned"}
      BY <2>4, <3>1 DEF SeeAbort, ReadLine_v0, ReadLine_v1, ReadEnd,
         ProcessDataRow_v0, ProcessDataRow_v1, ProcessMetaRow_v1, ValidateRow, FirstBlock,
         LastStep, GoIf, Go, Fail, AfterError, HostTyped, Asking, RowSteps, FinalSteps
    <3>4. Connection = "open" /\ Connection' \in {"open", "leaving"} /\ Outcome' = "running"
      BY <3>1, <3>2, <3>3, Places, PlacesNext
    <3> QED
      BY <2>2, <3>4 DEF Promise!Next, Promise!Leave, Promise!Link, Promise!vars
  <2>5. CASE OpenConnection
    <3>1. wire = Silent /\ wire' = Silent /\ at = "open"
      BY <2>5, WireIsSilent DEF OpenConnection
    <3>2. \/ at' = "enter"
          \/ at' = "returned" /\ err' = "CYRET_ERR_COMM_MASK"
      BY <2>5 DEF OpenConnection, Go, Fail, AfterError, FinalSteps
    <3>3. Connection = "closed"
      BY <3>1, Places
    <3>4. CASE at' = "enter"
      <4>1. Connection' = "open" /\ Outcome' = "running"
        BY <3>1, <3>4, PlacesNext DEF Asking
      <4> QED
        BY <2>2, <3>3, <4>1 DEF Promise!Next, Promise!Open, Promise!Link
    <3>5. CASE at' = "returned" /\ err' = "CYRET_ERR_COMM_MASK"
      <4>1. Connection' = "closed" /\ Outcome' = "cut"
        BY <3>5, PlacesNext
      <4> QED
        BY <2>2, <3>3, <4>1 DEF Promise!Next, Promise!Cut, Promise!Return
    <3> QED
      BY <3>2, <3>4, <3>5
  <2>6. CASE TransferData
    <3>1. at \in Asking /\ at' = at /\ wire = Silent /\ wire' # Silent
      BY <2>6 DEF TransferData, Silent
    <3>2. Connection = "open" /\ Connection' = "asked" /\ Outcome' = "running"
      BY <2>1, <3>1, Places, PlacesNext
    <3> QED
      BY <2>2, <3>2 DEF Promise!Next, Promise!Ask, Promise!Link
  <2>7. CASE TransferFails
    <3>1. at \in Asking /\ wire' = Silent
      BY <2>7 DEF TransferFails
    <3>2. \/ at' = "exit"
          \/ at' = "returned" /\ err' = "CYRET_ERR_COMM_MASK"
      BY <2>7 DEF TransferFails, Fail, AfterError
    <3>3. Connection \in {"open", "asked"}
      BY <3>1, Places
    <3>4. CASE at' = "exit"
      <4>1. Connection' = "leaving" /\ Outcome' = "running"
        BY <3>4, PlacesNext
      <4> QED
        BY <2>2, <3>3, <4>1 DEF Promise!Next, Promise!Leave, Promise!Link
    <3>5. CASE at' = "returned" /\ err' = "CYRET_ERR_COMM_MASK"
      <4>1. Connection' = "closed" /\ Outcome' = "cut"
        BY <3>5, PlacesNext
      <4> QED
        BY <2>2, <3>3, <4>1 DEF Promise!Next, Promise!Cut, Promise!Return
    <3> QED
      BY <3>2, <3>4, <3>5
  <2>8. CASE Answers
    <3>1. Connection = "asked" /\ Connection' \in {"open", "leaving"} /\ Outcome' = "running"
      BY <2>8, AnswersLead, Places, PlacesNext DEF Asking, RowSteps, FinalSteps
    <3> QED
      BY <2>2, <3>1 DEF Promise!Next, Promise!Answer, Promise!Leave, Promise!Link
  <2>9. CASE EndBootloadOperation \/ CloseConnection
    <3>1. /\ at \in {"exit", "close"} /\ at' \in {"close", "returned"}
          /\ at' = "close" => at = "exit"
          /\ UNCHANGED err
      BY <2>9 DEF EndBootloadOperation, CloseConnection, Go
    <3>2. Connection \in {"leaving", "exiting"}
          /\ (at = "exit" => Connection = "leaving")
      BY <3>1, Places
    <3>3. CASE at' = "close"
      <4>1. Connection' = "exiting" /\ Outcome' = "running"
        BY <3>3, PlacesNext
      <4> QED
        BY <2>2, <3>1, <3>2, <3>3, <4>1 DEF Promise!Next, Promise!Exit, Promise!Link
    <3>4. CASE at' = "returned"
      <4>1. Connection' = "closed" /\ Outcome' \in {"ok", "error", "cut"}
        BY <3>4, PlacesNext
      <4>2. Outcome' = "ok" => Promise!Done
        BY <3>1, <3>4, PlacesNext DEF Doing, Finished, Promise!Done
      <4> QED
        BY <2>2, <3>2, <4>1, <4>2 DEF Promise!Next, Promise!Close, Promise!Return
    <3> QED
      BY <3>1, <3>3, <3>4
  <2> QED
    BY <1>3, <2>3, <2>4, <2>5, <2>6, <2>7, <2>8, <2>9 DEF HostNext, Transfers
<1> QED
  BY <1>2, <1>3

LEMMA PromiseStep ==
  ASSUME Shape, Doing, [Next]_vars
  PROVE  [Promise!Next]_(Promise!vars)
<1>1. CASE HostNext
  BY <1>1, PromiseHostStep
<1>2. CASE DeviceAnswers \/ DeviceFails
  <2>1. /\ at \in Asking /\ UNCHANGED <<at, action, image>>
        /\ wire # Silent /\ wire' # Silent
    <3>1. wire.at = "request" /\ Silent.at = "silent"
      BY <1>2 DEF DeviceAnswers, DeviceFails, Asked, Silent
    <3> QED
      BY <1>2, <3>1, DeviceChanges DEF hostVars, image
  <2>2. Connection = "asked" /\ Connection' = "asked" /\ Outcome = "running" /\ Outcome' = "running"
    BY <2>1, Places, PlacesNext DEF Asking, RowSteps, FinalSteps
  <2>3. CASE UNCHANGED programmed
    BY <2>1, <2>2, <2>3 DEF Promise!vars
  <2>4. CASE programmed' \in {programmed \cup {row}, programmed \ {row}}
             /\ at \in {"commit", "erase"}
    <3>1. row \in Rows
      BY <2>4, FileFacts DEF Shape, HostTyped, RowInStep, RowSteps
    <3> QED
      BY <2>1, <2>2, <2>4, <3>1 DEF Promise!Next, Promise!Change
  <2> QED
    BY <1>2, <2>3, <2>4, DeviceChanges
<1>3. CASE DeviceLeaves
  <2>1. at \in {"close", "returned"}
    <3>1. wire.at = "request" /\ cmd.code = "EXIT_BOOTLOADER"
      BY <1>3 DEF DeviceLeaves
    <3> QED
      BY <3>1, RequestCode DEF Shape, WireInStep, cmd
  <2>2. UNCHANGED <<at, err, action, image, programmed>>
    BY <1>3 DEF DeviceLeaves, hostVars, image
  <2>3. UNCHANGED <<Connection, Outcome>>
    BY <2>1, <2>2 DEF Connection, Outcome
  <2> QED
    BY <2>2, <2>3 DEF Promise!vars
<1>4. CASE UNCHANGED vars
  BY <1>4 DEF vars, Connection, Outcome, image, Promise!vars
<1> QED
  BY <1>1, <1>2, <1>3, <1>4 DEF Next, HostNext

(* The library keeps its promise (CyBtldrPromise): requests are made one at *)
(* a time over one connection, an operation leaves the bootloader unless    *)
(* its communications fail, and one that succeeds has the rows of the file  *)
(* in flash, or none of them when it was to erase; for every file, number   *)
(* of operations and number of faults.                                      *)
THEOREM PromiseIsKept == Spec => KeepsPromise
<1>1. Init => Shape /\ Doing
  BY InitShape, InitDoing
<1>2. (Shape /\ Doing) /\ [Next]_vars => (Shape /\ Doing)'
  BY ShapeStep, DoingStep
<1>3. (Shape /\ Doing) /\ [Next]_vars => [Promise!Next]_(Promise!vars)
  BY PromiseStep
<1> QED
  BY <1>1, <1>2, <1>3, InitPromise, PTL DEF Spec, KeepsPromise, Promise!Spec
=============================================================================
