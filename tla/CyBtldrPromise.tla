---------------------------- MODULE CyBtldrPromise ----------------------------
(***************************************************************************)
(* What an operation of the Cypress bootloader library promises to its     *)
(* caller: requests are written one at a time, over a connection that is   *)
(* opened once and closed after the exit request; a request changes one    *)
(* row at most; and an operation that succeeds has done what it was asked. *)
(***************************************************************************)
CONSTANTS
  Rows        \* the rows of flash a file may hold

VARIABLES
  link,       \* the connection, as the callbacks of the caller see it
  action,     \* PROGRAM, ERASE or VERIFY
  image,      \* the rows of the file
  programmed, \* the rows of flash that hold their data
  result      \* of the operation that is running, or of the one before

vars == <<link, action, image, programmed, result>>

Actions == {"PROGRAM", "ERASE", "VERIFY"}

TypeOK ==
  /\ link \in {"closed", "open", "asked", "leaving", "exiting"}
  /\ action \in Actions /\ image \subseteq Rows /\ programmed \subseteq Rows
  /\ result \in {"running", "ok", "error", "cut"}

Init ==
  /\ link = "closed" /\ action \in Actions
  /\ image \subseteq Rows /\ programmed = {} /\ result = "error"

\* A file may be refused at once.
Begin ==
  /\ result # "running" /\ result' \in {"running", "error"}
  /\ action' \in Actions /\ image' \in SUBSET Rows
  /\ UNCHANGED <<link, programmed>>

Link(from, to) ==
  /\ result = "running" /\ link = from /\ link' = to
  /\ UNCHANGED <<action, image, programmed, result>>

Open == Link("closed", "open")
Ask == Link("open", "asked")
Answer == Link("asked", "open")
Leave == Link("open", "leaving") \/ Link("asked", "leaving")
Exit == Link("leaving", "exiting")

\* What the device does about a request.
Change ==
  /\ result = "running" /\ link = "asked"
  /\ \E r \in Rows : programmed' \in {programmed \cup {r}, programmed \ {r}}
  /\ UNCHANGED <<link, action, image, result>>

Done == IF action = "ERASE" THEN image \cap programmed = {} ELSE image \subseteq programmed

Return(from, results) ==
  /\ result = "running" /\ link = from /\ link' = "closed"
  /\ result' \in results
  /\ result' = "ok" => Done
  /\ UNCHANGED <<action, image, programmed>>

\* The exit request has been written, or could not be.
Close == \E from \in {"leaving", "exiting"} : Return(from, {"ok", "error", "cut"})

Cut == \E from \in {"closed", "open", "asked"} : Return(from, {"cut"})

Next ==
  Begin \/ Open \/ Ask \/ Answer \/ Leave \/ Change \/ Exit \/ Close \/ Cut

Spec == Init /\ [][Next]_vars
===============================================================================
