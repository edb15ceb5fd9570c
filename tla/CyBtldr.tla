------------------------------- MODULE CyBtldr -------------------------------
(***************************************************************************)
(* The Cypress bootloader library of the host (cybootloaderutils): one     *)
(* operation reads a .cyacd or .cyacd2 file line by line and has the rows  *)
(* programmed, erased or verified by the bootloader of a device, with a    *)
(* request and an answer for each step, in the callbacks of its caller.    *)
(*                                                                         *)
(* Abstractions.  A line of a file is how it begins, its length and the    *)
(* row it stands for.  The data of a row are the positions of its bytes,   *)
(* and a row of flash holds the data of the file or does not.  A packet is *)
(* its command code, its row and its block; the checksum of a packet, the  *)
(* key, the silicon id and the progress callback are left out, the answers *)
(* are what they decide.  The file is not changed while it is read.        *)
(***************************************************************************)
EXTENDS Integers, Sequences, FiniteSetsExt

CONSTANTS
  Files,            \* the files that may be given
  AppIds,           \* the application numbers that may be given
  FirstRow, LastRow,\* rows of a flash array of the device
  Duals,            \* whether the device may have two applications: a set of BOOLEAN
  MaxTransferSize,  \* of the callbacks; 52 in eigen_bootloader.cpp
  MaxOperations,    \* bound: operations in a behaviour
  MaxFaults         \* bound: failed callbacks, refused requests, badly written rows

\* A line that is no row has one as well, which is not looked at; the separator is
\* that of the start and the size in an @APPINFO line.
Lines == [first : STRING, chars : Nat, separator : BOOLEAN,
          row : [array : Nat, num : Nat, size : Nat]]

ASSUME CyBtldrAssumption ==
  /\ Files \subseteq [extension : STRING, version : Nat, header : Nat, lines : Seq(Lines),
                     newline : BOOLEAN]
  /\ FirstRow \in Nat /\ LastRow \in Nat
  /\ MaxTransferSize \in 16..512
  /\ MaxOperations \in Nat /\ MaxFaults \in Nat
  /\ Duals \subseteq BOOLEAN

VARIABLES
  at,         \* where the library is: a request of an API function, a line, or a callback
  action,     \* PROGRAM, ERASE or VERIFY
  file,       \* the file, and the line to read next
  appId,      \* of RunAction_v0
  row,        \* the row of the line read last
  sent,       \* SendData: offset
  then,       \* ValidateRow: what follows it
  validRows,  \* g_validRows: the arrays whose rows are known
  err,        \* err of RunAction_v0 and RunAction_v1
  abort,      \* g_abort
  wire,       \* the request or the answer on its way
  device,     \* the bootloader of the device
  programmed, \* the rows of flash that hold the data of the file
  operations, \* operations begun so far
  faults      \* faults so far

hostVars == <<action, file, appId, row, sent, then, validRows>>
deviceVars == <<device, programmed>>
vars == <<at, action, file, appId, row, sent, then, validRows, err, abort, wire, device,
          programmed, operations, faults>>

-----------------------------------------------------------------------------
(***************************************************************************)
(* The file (cybtldr_parse.cpp): what is made of its header and its lines. *)
(***************************************************************************)
\* The version is that of the extension, and of the header of the newer format.
FileVersion(f) ==
  CASE f.header = 0 -> "CYRET_ERR_FILE"
    [] f.header > 0 /\ f.extension = ".cyacd" -> "0"
    [] f.header > 1 /\ f.extension = ".cyacd2" /\ f.version = 1 -> "1"
    [] OTHER -> "CYRET_ERR_FILE"

\* Two characters are a byte.
FromAscii(chars) == IF chars % 2 = 0 THEN "CYRET_SUCCESS" ELSE "CYRET_ERR_LENGTH"

ParseHeader(f) ==
  IF f.header \div 2 > 4 THEN FromAscii(f.header) ELSE "CYRET_ERR_LENGTH"

ParseHeader_v1(f) ==
  IF f.header = 24 THEN "CYRET_SUCCESS" ELSE "CYRET_ERR_LENGTH"

\* The array, the number, the size, the data and a checksum: six bytes and the data.
ParseRowData(line) ==
  CASE line.chars <= 6 -> "CYRET_ERR_LENGTH"
    [] line.chars > 6 /\ line.first # ":" -> "CYRET_ERR_CMD"
    [] OTHER ->
         IF FromAscii(line.chars - 1) # "CYRET_SUCCESS" THEN FromAscii(line.chars - 1)
         ELSE IF (line.chars - 1) \div 2 # line.row.size + 6 THEN "CYRET_ERR_DATA"
         ELSE "CYRET_SUCCESS"

\* The address and the data.
ParseRowData_v1(line) ==
  CASE line.chars <= 4 -> "CYRET_ERR_LENGTH"
    [] line.chars > 4 /\ line.first # ":" -> "CYRET_ERR_CMD"
    [] OTHER ->
         IF FromAscii(line.chars - 1) # "CYRET_SUCCESS" THEN FromAscii(line.chars - 1)
         ELSE IF (line.chars - 1) \div 2 <= 4 THEN "CYRET_ERR_DATA" ELSE "CYRET_SUCCESS"

ParseRow(f, line) ==
  IF f.extension = ".cyacd" THEN ParseRowData(line) ELSE ParseRowData_v1(line)

LinesOf(f) == {f.lines[k] : k \in 1..Len(f.lines)}

RowsOf(f) ==
  {line.row : line \in {l \in LinesOf(f) :
                          l.first = ":" /\ ParseRow(f, l) = "CYRET_SUCCESS"}}

NoRow == [array |-> 0, num |-> 0, size |-> 0]
Rows == UNION {RowsOf(f) : f \in Files}
RowsRead == {line.row : line \in UNION {LinesOf(f) : f \in Files}}
Silent == [at |-> "silent"]

\* What is asked of the device, and where the library is then.
FinalSteps == {"appValid", "setActive", "verifyApp"}
RowSteps == {"size", "data", "commit", "erase", "rowChecksum"}
Asking == {"enter", "appStatus", "metadata", "eiv"} \cup RowSteps \cup FinalSteps

TypeOK ==
  /\ at \in {"returned", "open", "line", "exit", "close"} \cup Asking
  /\ action \in {"PROGRAM", "ERASE", "VERIFY"}
  /\ file.of \in Files /\ file.next \in 1..Len(file.of.lines) + 1
  /\ appId \in AppIds /\ row \in RowsRead \cup {NoRow}
  /\ sent \in 0..row.size
  /\ then \in Asking
  /\ validRows \subseteq {r.array : r \in Rows}
  /\ abort \in BOOLEAN
  /\ wire.at \in {"silent", "request", "answer"}
  /\ device.entered \in BOOLEAN /\ device.dual \in Duals /\ device.active \in BOOLEAN
  /\ programmed \subseteq Rows
  /\ operations \in 0..MaxOperations /\ faults \in 0..MaxFaults

Init ==
  /\ at = "returned" /\ action = "VERIFY" /\ appId \in AppIds
  /\ file \in {[of |-> f, next |-> 1] : f \in Files}
  /\ row = NoRow /\ sent = 0 /\ then = "enter" /\ validRows = {}
  /\ err = "CYRET_ERR_FILE" /\ abort = FALSE
  /\ wire = Silent
  /\ device \in [entered : {FALSE}, buffer : {<<>>}, dual : Duals, active : BOOLEAN,
                 known : BOOLEAN, supported : BOOLEAN]
  /\ device.active => device.dual
  /\ programmed = {}
  /\ operations = 0 /\ faults = 0

Fault == faults < MaxFaults /\ faults' = faults + 1

V1 == file.of.extension = ".cyacd2"

-----------------------------------------------------------------------------
(***************************************************************************)
(* Where the library goes on.                                              *)
(***************************************************************************)
Go(point) == at' = point /\ UNCHANGED <<err, then>>

\* Deliberate fault: an operation that fails returns at once.
AfterErrorNot(e) == "returned"

\* A communications error leaves the device as it is, once the last row is done
\* nothing does.
AfterError(e) ==
  IF e = "CYRET_ERR_COMM_MASK" /\ at \notin FinalSteps THEN "returned" ELSE "exit"

Fail(e) == at' = AfterError(e) /\ err' = e /\ UNCHANGED then

GoIf(ok, point, e) == IF ok THEN Go(point) ELSE Fail(e)

-----------------------------------------------------------------------------
(***************************************************************************)
(* The lines of the file (cybtldr_parse.cpp).                              *)
(***************************************************************************)
\* CyBtldr_ReadLine passes over comments.
LinesLeft == {k \in file.next..Len(file.of.lines) : file.of.lines[k].first # "#"}

\* A last line without a newline ends the stream at once, and the next read is
\* not an end of file but an error.
EndOfFile == IF file.of.newline THEN "CYRET_ERR_EOF" ELSE "CYRET_ERR_FILE"

\* CyBtldr_ParseAppStartAndSize_v1 reads to the application's line or to the end,
\* and goes back.
AppStartAndSize ==
  LET stops == {k \in LinesLeft :
                  LET line == file.of.lines[k]
                  IN  \/ line.first = "@APPINFO:"
                      \/ line.first = ":" /\ ParseRowData_v1(line) # "CYRET_SUCCESS"}
      stop == file.of.lines[Min(stops)]
  IN  IF stops = {} THEN IF EndOfFile = "CYRET_ERR_EOF" THEN "CYRET_SUCCESS" ELSE EndOfFile
      ELSE IF stop.first # "@APPINFO:" THEN ParseRowData_v1(stop)
      ELSE IF stop.separator THEN "CYRET_SUCCESS" ELSE "CYRET_ERR_FILE"

-----------------------------------------------------------------------------
(***************************************************************************)
(* Requests (cybtldr_command.cpp).                                         *)
(***************************************************************************)
Cmd(code, block) == [code |-> code, row |-> row, block |-> block]
NoBlock == [from |-> 0, to |-> 0]

\* Deliberate fault: the header of the newer format in both.
HeaderSizeNot == 15

\* SendData: the header that is left room for, the size of a block, and whether
\* another one is due after n bytes.
HeaderSize == IF V1 THEN 15 ELSE 10

SubBufSize == Min({MaxTransferSize - 7, row.size})

BlockDue(r, n) == r.size - n > MaxTransferSize - HeaderSize

\* The block is the next part of the row, the last one what is left, in 16 bits.
Block == [from |-> sent, to |-> sent + SubBufSize]
LastBlock == [from |-> sent, to |-> sent + ((row.size - sent) % 65536)]

CmdSize(c) == 7 + (IF c.code = "PROGRAM_ROW" THEN 3 ELSE 8) + c.block.to - c.block.from

EnterBootLoaderCmd == Cmd("ENTER_BOOTLOADER", NoBlock)
GetFlashSizeCmd == Cmd("GET_FLASH_SIZE", NoBlock)
SendDataCmd == Cmd("SEND_DATA", Block)
ProgramRowCmd == Cmd("PROGRAM_ROW", LastBlock)
ProgramDataCmd == Cmd("PROGRAM_DATA", LastBlock)
VerifyDataCmd == Cmd("VERIFY_DATA", LastBlock)
VerifyRowCmd == Cmd("GET_ROW_CHECKSUM", NoBlock)
EraseRowCmd == Cmd("ERASE_ROW", NoBlock)
EraseDataCmd == Cmd("ERASE_DATA", NoBlock)
VerifyChecksumCmd == Cmd("VERIFY_CHECKSUM", NoBlock)
GetAppStatusCmd == Cmd("GET_APP_STATUS", NoBlock)
SetActiveAppCmd == Cmd("SET_ACTIVE_APP", NoBlock)
SetApplicationMetadataCmd == Cmd("SET_METADATA", NoBlock)
SetEncryptionInitialVectorCmd == Cmd("SET_EIV", NoBlock)
ExitBootLoaderCmd == Cmd("EXIT_BOOTLOADER", NoBlock)

Request ==
  CASE at = "enter" -> EnterBootLoaderCmd
    [] at \in {"appStatus", "appValid"} -> GetAppStatusCmd
    [] at = "metadata" -> SetApplicationMetadataCmd
    [] at = "eiv" -> SetEncryptionInitialVectorCmd
    [] at = "size" -> GetFlashSizeCmd
    [] at = "data" -> SendDataCmd
    [] at = "commit" -> IF ~V1 THEN ProgramRowCmd
                        ELSE IF action = "PROGRAM" THEN ProgramDataCmd ELSE VerifyDataCmd
    [] at = "erase" -> IF V1 THEN EraseDataCmd ELSE EraseRowCmd
    [] at = "rowChecksum" -> VerifyRowCmd
    [] at = "setActive" -> SetActiveAppCmd
    [] at = "verifyApp" -> VerifyChecksumCmd

\* ParseGenericCmdResult: the status comes before the form of the answer.
ParseResult ==
  IF wire.status # "CYRET_SUCCESS" THEN wire.status
  ELSE IF ~wire.wellFormed THEN "CYRET_ERR_DATA" ELSE "CYRET_SUCCESS"

-----------------------------------------------------------------------------
(***************************************************************************)
(* The API functions (cybtldr_api.cpp): each writes a request, reads the   *)
(* answer, and goes on with what it says.                                  *)
(***************************************************************************)
TransferData ==
  /\ at \in Asking /\ wire = Silent
  /\ wire' = [at |-> "request", cmd |-> Request]
  /\ UNCHANGED <<at, err, abort, hostVars, deviceVars, operations, faults>>

\* WriteData or ReadData fails; ReadData also when there is no answer.  The functions
\* that look for a status in outBuf find one if the stack still holds a packet.
TransferFails ==
  /\ at \in Asking
  /\ wire' = Silent
  /\ Fault
  /\ \E e \in {"CYRET_ERR_COMM_MASK"} \cup
              (IF at \in {"enter", "appStatus", "appValid"} THEN {"CYRET_ERR_BTLDR_MASK"} ELSE {}) :
       Fail(e)
  /\ UNCHANGED <<abort, action, file, appId, row, sent, validRows, deviceVars, operations>>

Answered(point) ==
  /\ at = point /\ wire.at = "answer" /\ wire' = Silent
  /\ UNCHANGED <<abort, action, file, appId, row, deviceVars, operations, faults>>

\* A step whose answer decides only whether the operation goes on.
Simple(point, next) ==
  /\ Answered(point)
  /\ GoIf(ParseResult = "CYRET_SUCCESS", next, ParseResult)
  /\ UNCHANGED <<sent, validRows>>

OpenConnection ==
  /\ at = "open"
  /\ \/ Go("enter") /\ UNCHANGED faults
     \/ Fail("CYRET_ERR_COMM_MASK") /\ Fault
  /\ validRows' = {}
  /\ UNCHANGED <<wire, abort, action, file, appId, row, sent, deviceVars, operations>>

StartBootloadOperation ==
  /\ Answered("enter") /\ ~V1
  /\ IF ParseResult # "CYRET_SUCCESS" THEN Fail(ParseResult)
     ELSE IF ~wire.known THEN Fail("CYRET_ERR_DEVICE")
     ELSE GoIf(wire.supported, IF appId \in {1, 2} THEN "appStatus" ELSE "line",
               "CYRET_ERR_VERSION")
  /\ UNCHANGED <<sent, validRows>>

StartBootloadOperation_v1 ==
  /\ Answered("enter") /\ V1
  /\ IF ParseResult # "CYRET_SUCCESS" THEN Fail(ParseResult)
     ELSE IF ~wire.known THEN Fail("CYRET_ERR_DEVICE")
     ELSE GoIf(AppStartAndSize = "CYRET_SUCCESS", "metadata", AppStartAndSize)
  /\ UNCHANGED <<sent, validRows>>

SetApplicationMetaData == Simple("metadata", "line")

\* A multi-application bootloader: an application that is active is not programmed or erased.
GetApplicationStatus ==
  /\ Answered("appStatus")
  /\ IF ParseResult # "CYRET_SUCCESS" THEN Fail(ParseResult)
     ELSE GoIf(action = "VERIFY" \/ ~wire.active, "line", "CYRET_ERR_ACTIVE")
  /\ UNCHANGED <<sent, validRows>>

SetEncryptionInitialVector == Simple("eiv", "line")

\* A flash array is less than 64.
Exists(r) == r.num \in FirstRow..LastRow

\* The rows of an array are asked for once; the rows 0 to 0 look like none.
ValidateRow(r, next) ==
  IF r.array >= 64 THEN Go(next)
  ELSE IF r.array \in validRows THEN GoIf(Exists(r), next, "CYRET_ERR_ROW")
  ELSE at' = "size" /\ then' = next /\ UNCHANGED err

GetFlashSize ==
  /\ Answered("size")
  /\ IF ParseResult # "CYRET_SUCCESS" THEN Fail(ParseResult) /\ UNCHANGED validRows
     ELSE /\ validRows' = validRows \cup (IF LastRow = 0 THEN {} ELSE {row.array})
          /\ GoIf(Exists(row), then, "CYRET_ERR_ROW")
  /\ UNCHANGED sent

\* SendData, until the rest fits in the last packet.
SendData ==
  /\ Answered("data")
  /\ sent' = sent + SubBufSize
  /\ IF ParseResult # "CYRET_SUCCESS" THEN Fail(ParseResult)
     ELSE Go(IF BlockDue(row, sent') THEN "data" ELSE "commit")
  /\ UNCHANGED validRows

\* case PROGRAM goes on with case VERIFY.
ProgramRow ==
  /\ ~V1 /\ Answered("commit")
  /\ IF ParseResult # "CYRET_SUCCESS" THEN Fail(ParseResult) ELSE ValidateRow(row, "rowChecksum")
  /\ UNCHANGED <<sent, validRows>>

ProgramRow_v1 == V1 /\ action = "PROGRAM" /\ Simple("commit", "line")
VerifyRow_v1 == V1 /\ action = "VERIFY" /\ Simple("commit", "line")

EraseRow == ~V1 /\ Simple("erase", "line")
EraseRow_v1 == V1 /\ Simple("erase", "line")

\* The answer says in a byte whether what is in flash is right.
Checked(point, next) ==
  /\ Answered(point)
  /\ IF ParseResult # "CYRET_SUCCESS" THEN Fail(ParseResult)
     ELSE GoIf(wire.ok, next, "CYRET_ERR_CHECKSUM")
  /\ UNCHANGED <<sent, validRows>>

VerifyRow == Checked("rowChecksum", "line")
VerifyApplication == ~V1 /\ Checked("verifyApp", "exit")
VerifyApplication_v1 == V1 /\ Checked("verifyApp", "exit")

\* After the last row; a bootloader of one application does not know the request.
ApplicationIsValid ==
  /\ Answered("appValid")
  /\ IF ParseResult = "CYBTLDR_STAT_ERR_CMD" THEN Go("exit")
     ELSE IF ParseResult # "CYRET_SUCCESS" THEN Fail(ParseResult)
     ELSE GoIf(wire.ok, "setActive", "CYRET_ERR_CHECKSUM")
  /\ UNCHANGED <<sent, validRows>>

SetApplicationStatus == Simple("setActive", "exit")

EndBootloadOperation ==
  /\ at = "exit" /\ wire = Silent
  /\ \/ /\ wire' = [at |-> "request", cmd |-> ExitBootLoaderCmd]
        /\ Go("close") /\ UNCHANGED faults
     \/ Go("returned") /\ Fault /\ UNCHANGED wire
  /\ UNCHANGED <<abort, action, file, appId, row, sent, validRows, deviceVars, operations>>

\* The exit request is not answered.
CloseConnection ==
  /\ at = "close"
  /\ Go("returned")
  /\ UNCHANGED <<wire, abort, action, file, appId, row, sent, validRows, deviceVars,
                 operations, faults>>

-----------------------------------------------------------------------------
(***************************************************************************)
(* The operation (cybtldr_api2.cpp).                                       *)
(***************************************************************************)
\* A file whose format is unknown or whose header does not parse ends the operation
\* before the connection is opened.
RunAction(f, act, app) ==
  /\ at = "returned" /\ wire = Silent
  /\ operations < MaxOperations /\ operations' = operations + 1
  /\ action' = act /\ appId' = app
  /\ file' = [of |-> f, next |-> 1]
  /\ abort' = FALSE
  /\ LET header == CASE FileVersion(f) = "0" -> ParseHeader(f)
                     [] FileVersion(f) = "1" -> ParseHeader_v1(f)
                     [] OTHER -> FileVersion(f)
     IN  /\ err' = header
         /\ at' = IF header = "CYRET_SUCCESS" THEN "open" ELSE "returned"
  /\ row' = NoRow /\ sent' = 0
  /\ UNCHANGED <<then, validRows, wire, deviceVars, faults>>

\* CyBtldr_Abort, from another thread.
Abort ==
  /\ ~abort /\ at # "returned"
  /\ abort' = TRUE
  /\ UNCHANGED <<at, err, hostVars, wire, deviceVars, operations, faults>>

AtLine ==
  /\ at = "line"
  /\ UNCHANGED <<abort, action, appId, validRows, wire, deviceVars, operations, faults>>

SeeAbort ==
  /\ AtLine /\ abort
  /\ Fail("CYRET_ABORT")
  /\ UNCHANGED <<file, row, sent>>

\* A row that parses begins with the first step of the action.
FirstBlock(r) == IF BlockDue(r, 0) THEN "data" ELSE "commit"

ProcessDataRow_v0(r) ==
  ValidateRow(r, CASE action = "ERASE" -> "erase"
                   [] action = "PROGRAM" -> FirstBlock(r)
                   [] action = "VERIFY" -> "rowChecksum")

ProcessDataRow_v1(r) == Go(IF action = "ERASE" THEN "erase" ELSE FirstBlock(r))

ProcessMetaRow_v1(line) == Go(IF line.first = "@EIV:" THEN "eiv" ELSE "line")

ReadLine(line) ==
  /\ AtLine /\ ~abort /\ LinesLeft # {}
  /\ line = file.of.lines[Min(LinesLeft)]
  /\ file' = [file EXCEPT !.next = Min(LinesLeft) + 1]
  /\ IF line.first = ":" THEN row' = line.row /\ sent' = 0 ELSE UNCHANGED <<row, sent>>

\* RunAction_v0 takes every line for a row, RunAction_v1 passes over what it does
\* not know.
ReadLine_v0 ==
  /\ ~V1
  /\ \E line \in LinesOf(file.of) :
       /\ ReadLine(line)
       /\ IF ParseRowData(line) = "CYRET_SUCCESS" THEN ProcessDataRow_v0(line.row)
          ELSE Fail(ParseRowData(line))

ReadLine_v1 ==
  /\ V1
  /\ \E line \in LinesOf(file.of) :
       /\ ReadLine(line)
       /\ IF line.first # ":" THEN ProcessMetaRow_v1(line)
          ELSE IF ParseRowData_v1(line) = "CYRET_SUCCESS" THEN ProcessDataRow_v1(line.row)
          ELSE Fail(ParseRowData_v1(line))

\* A file that names no application is verified as a whole.
LastStep ==
  CASE action = "ERASE" -> "exit"
    [] action = "PROGRAM" /\ ~V1 /\ appId \in {1, 2} -> "appValid"
    [] OTHER -> "verifyApp"

ReadEnd ==
  /\ AtLine /\ ~abort /\ LinesLeft = {}
  /\ GoIf(EndOfFile = "CYRET_ERR_EOF", LastStep, EndOfFile)
  /\ UNCHANGED <<file, row, sent>>

-----------------------------------------------------------------------------
(***************************************************************************)
(* The bootloader of the device: it keeps the blocks of a row until the    *)
(* request that uses them, and answers every request.                      *)
(***************************************************************************)
cmd == wire.cmd
image == RowsOf(file.of)

\* Blocks that are the bytes of a row, in order and without a gap.
Whole(blocks, r) ==
  /\ blocks[1].from = 0 /\ blocks[Len(blocks)].to = r.size
  /\ \A k \in 1..Len(blocks) - 1 : blocks[k].to = blocks[k + 1].from

Commits == {"PROGRAM_ROW", "PROGRAM_DATA", "VERIFY_DATA"}

RowIsWhole == Whole(Append(device.buffer, cmd.block), cmd.row)

Answer(status, ok) ==
  [at |-> "answer", status |-> status, wellFormed |-> TRUE, ok |-> ok, known |-> device.known,
   supported |-> device.supported, active |-> device.active]

\* The request is carried out, or refused for what it is.
Refuses ==
  \/ cmd.code \in Commits /\ ~RowIsWhole
  \/ cmd.code = "VERIFY_DATA" /\ cmd.row \notin programmed
  \/ cmd.code \in {"GET_APP_STATUS", "SET_ACTIVE_APP"} /\ ~device.dual

Status ==
  IF ~Refuses THEN "CYRET_SUCCESS"
  ELSE IF cmd.code \in Commits THEN "CYRET_ERR_BTLDR_MASK" ELSE "CYBTLDR_STAT_ERR_CMD"

Ok ==
  CASE cmd.code = "GET_ROW_CHECKSUM" -> cmd.row \in programmed
    [] cmd.code \in {"VERIFY_CHECKSUM", "GET_APP_STATUS"} -> image \subseteq programmed
    [] OTHER -> TRUE

Received ==
  [device EXCEPT
     !.entered = @ \/ cmd.code = "ENTER_BOOTLOADER",
     !.active = @ \/ (cmd.code = "SET_ACTIVE_APP" /\ device.dual),
     !.buffer = CASE cmd.code = "SEND_DATA" -> Append(@, cmd.block)
                  [] cmd.code \in Commits \cup {"ENTER_BOOTLOADER"} -> <<>>
                  [] OTHER -> @]

Written ==
  CASE cmd.code \in {"PROGRAM_ROW", "PROGRAM_DATA"} /\ ~Refuses -> programmed \cup {cmd.row}
    [] cmd.code \in {"ERASE_ROW", "ERASE_DATA"} -> programmed \ {cmd.row}
    [] OTHER -> programmed

Asked == wire.at = "request" /\ cmd.code # "EXIT_BOOTLOADER"

DeviceAnswers ==
  /\ Asked /\ (device.entered \/ cmd.code = "ENTER_BOOTLOADER")
  /\ device' = Received /\ programmed' = Written
  /\ wire' = Answer(Status, Ok)
  /\ UNCHANGED <<at, err, abort, hostVars, operations, faults>>

\* The row is written badly and nobody notices; or the request is refused for some
\* other reason; or the answer is not one to it.
DeviceFails ==
  /\ Asked /\ Fault
  /\ device' = Received
  /\ \/ /\ cmd.code \in {"PROGRAM_ROW", "PROGRAM_DATA"}
        /\ programmed' = programmed \ {cmd.row}
        /\ wire' = Answer("CYRET_SUCCESS", TRUE)
     \/ /\ UNCHANGED programmed
        /\ wire' \in {Answer("CYRET_ERR_BTLDR_MASK", TRUE),
                      [Answer("CYRET_SUCCESS", TRUE) EXCEPT !.wellFormed = FALSE]}
  /\ UNCHANGED <<at, err, abort, hostVars, operations>>

DeviceLeaves ==
  /\ wire.at = "request" /\ cmd.code = "EXIT_BOOTLOADER"
  /\ device' = [device EXCEPT !.entered = FALSE, !.buffer = <<>>]
  /\ wire' = Silent
  /\ UNCHANGED <<at, err, abort, hostVars, programmed, operations, faults>>

Transfers == TransferData \/ TransferFails

Answers ==
  \/ StartBootloadOperation \/ StartBootloadOperation_v1 \/ SetApplicationMetaData
  \/ GetApplicationStatus \/ SetEncryptionInitialVector \/ GetFlashSize \/ SendData
  \/ ProgramRow \/ ProgramRow_v1 \/ EraseRow \/ EraseRow_v1 \/ VerifyRow \/ VerifyRow_v1
  \/ VerifyApplication \/ VerifyApplication_v1 \/ ApplicationIsValid \/ SetApplicationStatus

Next ==
  \/ \E f \in Files, act \in {"PROGRAM", "ERASE", "VERIFY"}, app \in AppIds :
       RunAction(f, act, app)
  \/ Abort \/ SeeAbort \/ ReadLine_v0 \/ ReadLine_v1 \/ ReadEnd
  \/ OpenConnection \/ Transfers \/ Answers \/ EndBootloadOperation \/ CloseConnection
  \/ DeviceAnswers \/ DeviceFails \/ DeviceLeaves

Spec == Init /\ [][Next]_vars

-----------------------------------------------------------------------------
(***************************************************************************)
(* Properties.                                                             *)
(***************************************************************************)

(* What a request to program or verify a row completes is the row: SendData *)
(* leaves the last packet what it can carry, never more, and never sends a *)
(* byte twice or one that is not of the row: maxRemainingDataSize is the   *)
(* "maximum amount of data allowed to be left over" (cybtldr_api.cpp:251). *)
RowsArriveWhole ==
  wire.at = "request" /\ cmd.code \in Commits =>
    /\ RowIsWhole
    /\ CmdSize(cmd) <= MaxTransferSize

\* The connection and the outcome, as the caller of the library sees them.
Connection ==
  CASE at \in {"returned", "open"} -> "closed"
    [] at = "exit" -> "leaving"
    [] at = "close" -> "exiting"
    [] at \in Asking /\ wire # Silent -> "asked"
    [] OTHER -> "open"

Outcome ==
  CASE at # "returned" -> "running"
    [] at = "returned" /\ err = "CYRET_SUCCESS" -> "ok"
    [] at = "returned" /\ err = "CYRET_ERR_COMM_MASK" -> "cut"
    [] OTHER -> "error"

(* Success is never reported of a file whose rows are not in flash, though  *)
(* rows may be written badly without a word and operations repeat after    *)
(* failures; and every operation that begins, but for one whose            *)
(* communications fail, ends with the request to leave the bootloader, so  *)
(* that an abort or a bad row does not leave a module in it.               *)
Promise == INSTANCE CyBtldrPromise WITH link <- Connection, result <- Outcome

\* Every operation of the library is one that the promise allows.
KeepsPromise == Promise!Spec
=============================================================================
