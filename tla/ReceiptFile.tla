---------------------------- MODULE ReceiptFile ----------------------------
(***************************************************************************)
(* How a receipt reaches its file (_write_json): the text is written to a  *)
(* temporary file, whose name depends on the receipt's path alone, and the *)
(* temporary file then replaces the receipt.  Processes that were given    *)
(* one path share both files, and nothing locks them.                      *)
(*                                                                         *)
(* The content of a file is the set of the texts it holds parts of: {} is  *)
(* a file truncated and not yet written, {t} is the text t, two texts are  *)
(* a mixture no reader can parse.  NoFile is none.                         *)
(***************************************************************************)
EXTENDS Naturals

CONSTANTS
    Run,                \* apply processes; a retry is a process of its own
    Path, ReceiptPath,  \* receipt files, and the one each process is given
    None

ASSUME ReceiptPathType == ReceiptPath \in [Run -> Path]

VARIABLES
    receipt,    \* the receipt files
    temporary,  \* the temporary file beside each of them
    writer,     \* the text each process is writing, and how far it is
    contested   \* history: the paths two processes were writing at once

Receipt == [owner : Run, status : {"running", "failed", "completed"}, applied : Nat]
Content == SUBSET Receipt
NoFile == {None}
Files == [Path -> Content \cup {NoFile}]

ASSUME NoneIsNoReceipt == None \notin Receipt

(* A process opens the temporary file, fills it, and replaces the receipt. *)
(* The file it has open keeps its identity when it is renamed: it is then  *)
(* the receipt, and later gone, replaced by the next one.                  *)
NoWriter == [step |-> "none", text |-> None, file |-> "none"]
Writer ==
    {NoWriter} \cup
    [step : {"open", "fill", "replace"}, text : Receipt,
     file : {"none", "temporary", "receipt", "gone"}]

(* A file that is open exists. *)
FilesTypeOK ==
    /\ receipt \in Files /\ temporary \in Files
    /\ writer \in [Run -> Writer]
    /\ contested \in SUBSET Path
    /\ \A r \in Run :
          /\ writer[r].file = "temporary" => temporary[ReceiptPath[r]] # NoFile
          /\ writer[r].file = "receipt" => receipt[ReceiptPath[r]] # NoFile

FilesInit ==
    /\ receipt = [p \in Path |-> NoFile]
    /\ temporary = [p \in Path |-> NoFile]
    /\ writer = [r \in Run |-> NoWriter]
    /\ contested = {}

(* The process has nothing left to write: _write_json returned. *)
Journaled(r) == writer[r].step = "none"
Writing(r) == writer[r].step \in {"fill", "replace"}

(* A call of _write_json. *)
WriteText(r, text) ==
    /\ writer' = [writer EXCEPT ![r] = [step |-> "open", text |-> text, file |-> "none"]]
    /\ UNCHANGED <<receipt, temporary, contested>>

(* Opening it for writing creates the temporary file, or empties it. *)
OpenTemporary(r) ==
    LET p == ReceiptPath[r]
    IN  /\ writer[r].step = "open"
        /\ temporary' = [temporary EXCEPT ![p] = {}]
        /\ writer' = [writer EXCEPT ![r] =
               [step |-> "fill", text |-> @.text, file |-> "temporary"]]
        /\ contested' = IF \E q \in Run \ {r} : ReceiptPath[q] = p /\ Writing(q)
                        THEN contested \cup {p} ELSE contested
        /\ UNCHANGED receipt

(* One write from the start of the file; of a text another process left    *)
(* there, the end remains if it is the longer one.                         *)
Over(content, text) == {{text}, {text} \cup content}

(* The text goes to the file that was opened, whatever its name is now,    *)
(* and the file is closed.                                                 *)
FillTemporary(r) ==
    LET p == ReceiptPath[r]
    IN  /\ writer[r].step = "fill"
        /\ \/ /\ writer[r].file = "temporary"
              /\ \E c \in Over(temporary[p], writer[r].text) :
                    temporary' = [temporary EXCEPT ![p] = c]
              /\ UNCHANGED receipt
           \/ /\ writer[r].file = "receipt"
              /\ \E c \in Over(receipt[p], writer[r].text) :
                    receipt' = [receipt EXCEPT ![p] = c]
              /\ UNCHANGED temporary
           \/ /\ writer[r].file = "gone"
              /\ UNCHANGED <<receipt, temporary>>
        /\ writer' = [writer EXCEPT ![r] =
               [step |-> "replace", text |-> @.text, file |-> "none"]]
        /\ UNCHANGED contested

(* Whatever the temporary file holds becomes the receipt. *)
Renamed(file) ==
    CASE file = "temporary" -> "receipt"
      [] file = "receipt" -> "gone"
      [] OTHER -> file
ReplaceReceipt(r) ==
    LET p == ReceiptPath[r]
    IN  /\ writer[r].step = "replace"
        /\ temporary[p] # NoFile
        /\ receipt' = [receipt EXCEPT ![p] = temporary[p]]
        /\ temporary' = [temporary EXCEPT ![p] = NoFile]
        /\ writer' = [q \in Run |->
              IF q = r THEN NoWriter
              ELSE IF ReceiptPath[q] = p
                   THEN [writer[q] EXCEPT !.file = Renamed(@)]
                   ELSE writer[q]]
        /\ UNCHANGED contested

(* Another process has renamed the temporary file: the replace raises, and *)
(* no handler of main's catches a FileNotFoundError.                       *)
NothingToReplace(r) ==
    writer[r].step = "replace" /\ temporary[ReceiptPath[r]] = NoFile

(* A process that dies stops writing where it is. *)
Abandon(r) ==
    /\ writer' = [writer EXCEPT ![r] = NoWriter]
    /\ UNCHANGED <<receipt, temporary, contested>>

(* The file holds one text, whole. *)
IsWhole(content) == \E text \in content : content = {text}
=============================================================================
