------------------------- MODULE ReviewedApplyProofs -------------------------
(* The guarantees of the reviewed apply for any planner, any mutations, any *)
(* number of processes and any sharing of receipt files.                   *)
EXTENDS ReviewedApply, TLAPS

(* A file that is there is not one that is not.                            *)
LEMMA NoFileIsNoContent == NoFile \notin Content
  BY NoneIsNoReceipt DEF NoFile, Content

(* A process that only moves on keeps everything else it knows.            *)
LEMMA GotoEffect ==
    ASSUME TypeOK, NEW r \in Run, NEW pc, Goto(r, pc)
    PROVE  /\ DOMAIN run' = Run
           /\ \A q \in Run \ {r} : run'[q] = run[q]
           /\ run'[r] = [run[r] EXCEPT !.pc = pc]
           /\ pc \in Phase \ {"idle"} /\ run[r].pc # "idle" => IsProcess(run'[r])
  <1>1. /\ DOMAIN run' = Run
        /\ \A q \in Run \ {r} : run'[q] = run[q]
        /\ run'[r] = [run[r] EXCEPT !.pc = pc]
    BY DEF Goto, TypeOK
  <1>2. ASSUME pc \in Phase \ {"idle"}, run[r].pc # "idle"
        PROVE  IsProcess(run'[r])
    <2>1. IsProcess(run[r])
      BY DEF TypeOK
    <2>2. run'[r] = [pc |-> pc, plan |-> run[r].plan, confirm |-> run[r].confirm,
                     manifest |-> run[r].manifest, snapshot |-> run[r].snapshot,
                     next |-> run[r].next, done |-> run[r].done]
      BY <1>1, <2>1 DEF IsProcess
    <2> QED BY <1>2, <2>1, <2>2 DEF IsProcess
  <1> QED BY <1>1, <1>2

(* It is in the phase it went to, and no other process moves.              *)
LEMMA GotoPhase ==
    ASSUME TypeOK, NEW r \in Run, NEW pc, Goto(r, pc)
    PROVE  run'[r].pc = pc /\ \A q \in Run \ {r} : run'[q] = run[q]
  BY DEF Goto, TypeOK, IsProcess

(* The same for a step that counts: a fetch, a mutation, a finished action. *)
LEMMA CountEffect ==
    ASSUME TypeOK, NEW r \in Run, NEW n \in Nat \ {0}, NEW d \in Nat,
           run' = [run EXCEPT ![r].next = n, ![r].done = d]
    PROVE  /\ DOMAIN run' = Run
           /\ \A q \in Run \ {r} : run'[q] = run[q]
           /\ run'[r] = [run[r] EXCEPT !.next = n, !.done = d]
           /\ IsProcess(run'[r])
  <1>1. IsProcess(run[r]) /\ DOMAIN run = Run
    BY DEF TypeOK
  <1>2. /\ DOMAIN run' = Run
        /\ \A q \in Run \ {r} : run'[q] = run[q]
        /\ run'[r] = [run[r] EXCEPT !.next = n, !.done = d]
    BY <1>1
  <1>3. run'[r] = [pc |-> run[r].pc, plan |-> run[r].plan, confirm |-> run[r].confirm,
                   manifest |-> run[r].manifest, snapshot |-> run[r].snapshot,
                   next |-> n, done |-> d]
    BY <1>1, <1>2 DEF IsProcess
  <1> QED BY <1>1, <1>2, <1>3 DEF IsProcess

(* Starting a process gives it a plan file that reads as a plan.           *)
LEMMA LoadEffect ==
    ASSUME TypeOK, NEW r \in Run, Load(r)
    PROVE  /\ DOMAIN run' = Run
           /\ \A q \in Run \ {r} : run'[q] = run[q]
           /\ run'[r].pc = "loaded" /\ run'[r].next = 1 /\ run'[r].done = 0
           /\ IsProcess(run'[r])
  <1>1. PICK c \in {confirmed, None} :
          run' = [run EXCEPT ![r] = [IdleProcess EXCEPT !.pc = "loaded",
                      !.plan = planFile, !.confirm = c, !.manifest = manifest]]
    BY DEF Load
  <1>2. /\ DOMAIN run' = Run
        /\ \A q \in Run \ {r} : run'[q] = run[q]
        /\ run'[r] = [pc |-> "loaded", plan |-> planFile, confirm |-> c,
                      manifest |-> manifest, snapshot |-> None, next |-> 1, done |-> 0]
    BY <1>1 DEF TypeOK, IdleProcess
  <1>3. IsPlan(planFile) /\ manifest \in Manifest
    BY DEF Load, TypeOK
  <1> QED BY <1>2, <1>3 DEF IsProcess, Phase

(* A fetch changes what the process knows of GitHub, and its phase.        *)
LEMMA FetchEffect ==
    ASSUME TypeOK, NEW r \in Run, Fetch(r)
    PROVE  /\ DOMAIN run' = Run
           /\ \A q \in Run \ {r} : run'[q] = run[q]
           /\ run'[r] = [run[r] EXCEPT !.pc = "fetched", !.snapshot = remote]
           /\ IsProcess(run'[r])
           /\ run'[r].pc = "fetched" /\ run'[r].snapshot = remote
           /\ run'[r].plan = run[r].plan
           /\ run'[r].next = run[r].next /\ run'[r].done = run[r].done
  <1>1. IsProcess(run[r]) /\ DOMAIN run = Run
    BY DEF TypeOK
  <1>2. /\ DOMAIN run' = Run
        /\ \A q \in Run \ {r} : run'[q] = run[q]
        /\ run'[r] = [run[r] EXCEPT !.pc = "fetched", !.snapshot = remote]
    BY <1>1 DEF Fetch
  <1>3. run'[r] = [pc |-> "fetched", plan |-> run[r].plan, confirm |-> run[r].confirm,
                   manifest |-> run[r].manifest, snapshot |-> remote,
                   next |-> run[r].next, done |-> run[r].done]
    BY <1>1, <1>2 DEF IsProcess
  <1> QED BY <1>1, <1>2, <1>3 DEF IsProcess, Phase, Fetch

(* The parts of TypeOK: the processes, what they share, the receipt files. *)
Processes == DOMAIN run = Run /\ \A q \in Run : IsProcess(run[q])
Shared ==
    /\ manifest \in Manifest
    /\ reported \in [Run -> Content \cup {NoFile}]
    /\ landed \in [Run -> SUBSET (Nat \X Nat)]
    /\ clean \in [Run -> BOOLEAN]
    /\ events \in 0..MaxEvents

(* Only a process that has begun, and neither fails nor died, writes. *)
JournalersWrite == \A r \in Run : Journaled(r) \/ run[r].pc \in Journaling

(* TypeOK is the conjunction of those parts.                               *)
LEMMA TypeParts == TypeOK <=> Processes /\ Shared /\ FilesTypeOK /\ JournalersWrite
  BY DEF TypeOK, Processes, Shared, JournalersWrite

(* Moving a process to another phase keeps the processes well formed.      *)
LEMMA GotoTyped ==
    ASSUME TypeOK, NEW r \in Run, run[r].pc # "idle",
           NEW pc \in Phase \ {"idle"}, Goto(r, pc)
    PROVE  Processes'
  <1>1. Processes
    BY TypeParts
  <1>2. /\ DOMAIN run' = Run
        /\ \A q \in Run \ {r} : run'[q] = run[q]
        /\ IsProcess(run'[r])
    BY GotoEffect
  <1> QED BY <1>1, <1>2 DEF Processes

(* Files nobody touches stay well formed.                                  *)
LEMMA FilesKept ==
    ASSUME FilesTypeOK, UNCHANGED filing
    PROVE  FilesTypeOK'
  BY DEF FilesTypeOK, filing

(* Journaling gives the process a text to write, and nothing else.         *)
LEMMA JournalTyped ==
    ASSUME FilesTypeOK, NEW r \in Run,
           NEW status \in {"running", "failed", "completed"},
           NEW k \in Nat, Journal(r, status, k)
    PROVE  /\ FilesTypeOK'
           /\ receipt' = receipt /\ temporary' = temporary /\ contested' = contested
           /\ \A q \in Run \ {r} : writer'[q] = writer[q]
           /\ writer'[r].step = "open"
           /\ writer'[r].text = [owner |-> r, status |-> status, applied |-> k]
           /\ writer'[r].text \in Receipt
  <1> DEFINE text == [owner |-> r, status |-> status, applied |-> k]
             w == [step |-> "open", text |-> text, file |-> "none"]
  <1>1. text \in Receipt
    BY DEF Receipt
  <1>2. w \in Writer /\ w.step = "open" /\ w.text = text /\ w.file = "none"
    BY <1>1 DEF Writer
  <1>3. writer' = [writer EXCEPT ![r] = w]
        /\ receipt' = receipt /\ temporary' = temporary /\ contested' = contested
    BY DEF Journal, WriteText
  <1> HIDE DEF w
  <1>4. writer'[r] = w /\ \A q \in Run \ {r} : writer'[q] = writer[q]
    BY <1>3 DEF FilesTypeOK
  <1>5. writer' \in [Run -> Writer]
    BY <1>2, <1>3 DEF FilesTypeOK
  <1>6. \A q \in Run : q # r => writer'[q].file = writer[q].file
    BY <1>4
  <1>7. FilesTypeOK'
    BY <1>2, <1>3, <1>4, <1>5, <1>6 DEF FilesTypeOK
  <1> QED BY <1>1, <1>2, <1>3, <1>4, <1>7

(* A process that dies writes nothing more.                                *)
LEMMA AbandonTyped ==
    ASSUME FilesTypeOK, NEW r \in Run, Abandon(r)
    PROVE  /\ FilesTypeOK'
           /\ receipt' = receipt /\ temporary' = temporary /\ contested' = contested
           /\ \A q \in Run \ {r} : writer'[q] = writer[q]
           /\ writer'[r].step = "none" /\ writer'[r].file = "none"
  <1>1. NoWriter \in Writer /\ NoWriter.step = "none" /\ NoWriter.file = "none"
    BY DEF Writer, NoWriter
  <1>2. writer' = [writer EXCEPT ![r] = NoWriter]
        /\ receipt' = receipt /\ temporary' = temporary /\ contested' = contested
    BY DEF Abandon
  <1>3. writer'[r] = NoWriter /\ \A q \in Run \ {r} : writer'[q] = writer[q]
    BY <1>2 DEF FilesTypeOK
  <1>4. writer' \in [Run -> Writer]
    BY <1>1, <1>2 DEF FilesTypeOK
  <1>5. \A q \in Run : q # r => writer'[q].file = writer[q].file
    BY <1>3
  <1>6. FilesTypeOK'
    BY <1>1, <1>2, <1>3, <1>4, <1>5 DEF FilesTypeOK
  <1> QED BY <1>1, <1>2, <1>3, <1>6

(* A process that writes has a text to write.                              *)
LEMMA WritersText ==
    ASSUME NEW w \in Writer, w # NoWriter
    PROVE  w.text \in Receipt
  <1>1. w \in [step : {"open", "fill", "replace"}, text : Receipt,
               file : {"none", "temporary", "receipt", "gone"}]
    BY DEF Writer
  <1> QED BY <1>1

(* A process opens its temporary file: it is now there, and empty.         *)
LEMMA OpenEffect ==
    ASSUME FilesTypeOK, NEW r \in Run, NEW p, p = ReceiptPath[r], OpenTemporary(r)
    PROVE  /\ FilesTypeOK'
           /\ p \in Path /\ writer[r].step = "open"
           /\ receipt' = receipt
           /\ temporary'[p] = {} /\ \A x \in Path \ {p} : temporary'[x] = temporary[x]
           /\ \A q \in Run \ {r} : writer'[q] = writer[q]
           /\ writer'[r].step = "fill" /\ writer'[r].file = "temporary"
           /\ writer'[r].text = writer[r].text
           /\ contested \subseteq contested'
           /\ p \notin contested' =>
                 \A q \in Run \ {r} : ReceiptPath[q] = p => ~Writing(q)
           /\ contested' \subseteq contested \cup {p}
  <1> DEFINE w == [step |-> "fill", text |-> writer[r].text, file |-> "temporary"]
  <1>1. p \in Path /\ writer[r].step = "open" /\ receipt' = receipt
    BY ReceiptPathType DEF OpenTemporary
  <1>2. writer[r] \in Writer /\ writer[r] # NoWriter
    BY <1>1 DEF FilesTypeOK, NoWriter
  <1>3. writer[r].text \in Receipt
    BY <1>2, WritersText
  <1>4. w \in Writer /\ w.step = "fill" /\ w.file = "temporary" /\ w.text = writer[r].text
    BY <1>3 DEF Writer
  <1>5. writer' = [writer EXCEPT ![r] = w]
    BY <1>3 DEF OpenTemporary, FilesTypeOK
  <1> HIDE DEF w
  <1>6. writer' \in [Run -> Writer] /\ writer'[r] = w
        /\ \A q \in Run \ {r} : writer'[q] = writer[q]
    BY <1>4, <1>5 DEF FilesTypeOK
  <1>7. temporary' = [temporary EXCEPT ![p] = {}]
    BY DEF OpenTemporary
  <1>8. {} \in Content
    BY DEF Content
  <1>9. /\ temporary' \in Files
        /\ temporary'[p] = {} /\ \A x \in Path \ {p} : temporary'[x] = temporary[x]
    BY <1>1, <1>7, <1>8 DEF FilesTypeOK, Files
  <1>10. contested' = IF \E q \in Run \ {r} : ReceiptPath[q] = p /\ Writing(q)
                      THEN contested \cup {p} ELSE contested
    BY DEF OpenTemporary
  <1>11. /\ contested' \in SUBSET Path /\ contested \subseteq contested'
         /\ contested' \subseteq contested \cup {p}
    BY <1>1, <1>10 DEF FilesTypeOK
  <1>12. p \notin contested' => \A q \in Run \ {r} : ReceiptPath[q] = p => ~Writing(q)
    BY <1>10
  <1>13. ASSUME NEW q \in Run
         PROVE  /\ writer'[q].file = "temporary" => temporary'[ReceiptPath[q]] # NoFile
                /\ writer'[q].file = "receipt" => receipt'[ReceiptPath[q]] # NoFile
    <2>1. ReceiptPath[q] \in Path /\ {} # NoFile
      BY ReceiptPathType, NoFileIsNoContent DEF Content
    <2>2. CASE q = r
      BY <1>4, <1>6, <1>9, <2>1, <2>2
    <2>3. CASE q # r
      <3>1. writer'[q] = writer[q]
        BY <1>6, <2>3
      <3> QED BY <1>1, <1>9, <2>1, <3>1 DEF FilesTypeOK
    <2> QED BY <2>2, <2>3
  <1>14. FilesTypeOK'
    BY <1>1, <1>6, <1>9, <1>11, <1>13 DEF FilesTypeOK
  <1> QED BY <1>1, <1>4, <1>6, <1>9, <1>11, <1>12, <1>14

(* The text goes into whatever the opened file is by now.                  *)
LEMMA FillEffect ==
    ASSUME FilesTypeOK, NEW r \in Run, NEW p, p = ReceiptPath[r],
           NEW text, text = writer[r].text, FillTemporary(r)
    PROVE  /\ FilesTypeOK'
           /\ p \in Path /\ writer[r].step = "fill" /\ text \in Receipt
           /\ \A x \in Path :
                 \/ temporary'[x] = temporary[x]
                 \/ /\ x = p /\ writer[r].file = "temporary" /\ temporary[p] # NoFile
                    /\ temporary'[p] \in Over(temporary[p], text)
           /\ \A x \in Path :
                 \/ receipt'[x] = receipt[x]
                 \/ /\ x = p /\ writer[r].file = "receipt" /\ receipt[p] # NoFile
                    /\ receipt'[p] \in Over(receipt[p], text)
           /\ writer[r].file = "temporary" => temporary'[p] \in Over(temporary[p], text)
           /\ \A q \in Run \ {r} : writer'[q] = writer[q]
           /\ writer'[r].step = "replace" /\ writer'[r].text = text
           /\ contested' = contested
  <1> DEFINE w == [step |-> "replace", text |-> text, file |-> "none"]
  <1>1. p \in Path /\ writer[r].step = "fill"
    BY ReceiptPathType DEF FillTemporary
  <1>2. writer[r] \in Writer /\ writer[r] # NoWriter
    BY <1>1 DEF FilesTypeOK, NoWriter
  <1>3. text \in Receipt
    BY <1>2, WritersText
  <1>4. w \in Writer /\ w.step = "replace" /\ w.file = "none" /\ w.text = text
    BY <1>3 DEF Writer
  <1>5. writer' = [writer EXCEPT ![r] = w] /\ contested' = contested
    BY <1>3 DEF FillTemporary, FilesTypeOK
  <1> HIDE DEF w
  <1>6. writer' \in [Run -> Writer] /\ writer'[r] = w
        /\ \A q \in Run \ {r} : writer'[q] = writer[q]
    BY <1>4, <1>5 DEF FilesTypeOK
  <1>7. ASSUME NEW c \in Content, NEW d \in Over(c, text)
        PROVE  d \in Content /\ d # NoFile
    BY <1>3, <1>7, NoFileIsNoContent DEF Over, Content
  <1>8. /\ writer[r].file = "temporary" => temporary[p] \in Content /\ temporary[p] # NoFile
        /\ writer[r].file = "receipt" => receipt[p] \in Content /\ receipt[p] # NoFile
    BY <1>1 DEF FilesTypeOK, Files
  <1>9. \/ /\ writer[r].file = "temporary"
           /\ \E c \in Over(temporary[p], text) : temporary' = [temporary EXCEPT ![p] = c]
           /\ receipt' = receipt
        \/ /\ writer[r].file = "receipt"
           /\ \E c \in Over(receipt[p], text) : receipt' = [receipt EXCEPT ![p] = c]
           /\ temporary' = temporary
        \/ writer[r].file = "gone" /\ receipt' = receipt /\ temporary' = temporary
    BY DEF FillTemporary
  <1>10. receipt \in Files /\ temporary \in Files
    BY DEF FilesTypeOK
  <1>11. /\ receipt' \in Files /\ temporary' \in Files
         /\ \A x \in Path :
               \/ temporary'[x] = temporary[x]
               \/ /\ x = p /\ writer[r].file = "temporary" /\ temporary[p] # NoFile
                  /\ temporary'[p] \in Over(temporary[p], text) /\ temporary'[p] # NoFile
         /\ \A x \in Path :
               \/ receipt'[x] = receipt[x]
               \/ /\ x = p /\ writer[r].file = "receipt" /\ receipt[p] # NoFile
                  /\ receipt'[p] \in Over(receipt[p], text) /\ receipt'[p] # NoFile
         /\ writer[r].file = "temporary" => temporary'[p] \in Over(temporary[p], text)
    <2>1. CASE writer[r].file = "temporary"
      <3>1. PICK c \in Over(temporary[p], text) : temporary' = [temporary EXCEPT ![p] = c]
        BY <1>9, <2>1
      <3>2. c \in Content /\ c # NoFile /\ receipt' = receipt
        BY <1>7, <1>8, <1>9, <2>1
      <3> QED BY <1>1, <1>8, <1>10, <2>1, <3>1, <3>2 DEF Files
    <2>2. CASE writer[r].file = "receipt"
      <3>1. PICK c \in Over(receipt[p], text) : receipt' = [receipt EXCEPT ![p] = c]
        BY <1>9, <2>2
      <3>2. c \in Content /\ c # NoFile /\ temporary' = temporary
        BY <1>7, <1>8, <1>9, <2>2
      <3> QED BY <1>1, <1>8, <1>10, <2>2, <3>1, <3>2 DEF Files
    <2>3. CASE writer[r].file = "gone"
      BY <1>9, <1>10, <2>3
    <2> QED BY <1>9, <2>1, <2>2, <2>3
  <1>12. ASSUME NEW q \in Run
         PROVE  /\ writer'[q].file = "temporary" => temporary'[ReceiptPath[q]] # NoFile
                /\ writer'[q].file = "receipt" => receipt'[ReceiptPath[q]] # NoFile
    <2>1. ReceiptPath[q] \in Path
      BY ReceiptPathType
    <2>2. CASE q = r
      BY <1>4, <1>6, <2>2
    <2>3. CASE q # r
      <3>1. writer'[q] = writer[q]
        BY <1>6, <2>3
      <3> QED BY <1>11, <2>1, <3>1 DEF FilesTypeOK
    <2> QED BY <2>2, <2>3
  <1>13. FilesTypeOK'
    BY <1>5, <1>6, <1>11, <1>12 DEF FilesTypeOK
  <1> QED BY <1>1, <1>3, <1>4, <1>5, <1>6, <1>11, <1>13

(* A writer whose file is renamed is where it was, with the text it has.   *)
StepKept(q) == writer'[q].step = writer[q].step
TextKept(q) == writer'[q].text = writer[q].text

(* The temporary file becomes the receipt, whoever filled it.              *)
LEMMA ReplaceEffect ==
    ASSUME FilesTypeOK, NEW r \in Run, NEW p, p = ReceiptPath[r], ReplaceReceipt(r)
    PROVE  /\ FilesTypeOK'
           /\ p \in Path /\ writer[r].step = "replace"
           /\ temporary[p] \in Content /\ temporary[p] # NoFile
           /\ receipt'[p] = temporary[p] /\ temporary'[p] = NoFile
           /\ \A x \in Path \ {p} : /\ receipt'[x] = receipt[x]
                                     /\ temporary'[x] = temporary[x]
           /\ \A q \in Run \ {r} : StepKept(q) /\ TextKept(q)
           /\ \A q \in Run \ {r} : ReceiptPath[q] # p => writer'[q] = writer[q]
           /\ writer'[r].step = "none"
           /\ contested' = contested
  <1> DEFINE step == [q \in Run |-> IF q = r THEN NoWriter
                        ELSE IF ReceiptPath[q] = p
                             THEN [writer[q] EXCEPT !.file = Renamed(@)] ELSE writer[q]]
  <1>1. p \in Path /\ writer[r].step = "replace" /\ temporary[p] # NoFile
        /\ contested' = contested
    BY ReceiptPathType DEF ReplaceReceipt
  <1>2. receipt' = [receipt EXCEPT ![p] = temporary[p]]
        /\ temporary' = [temporary EXCEPT ![p] = NoFile] /\ writer' = step
    BY DEF ReplaceReceipt
  <1>3. temporary[p] \in Content
    BY <1>1 DEF FilesTypeOK, Files
  <1>4. /\ receipt' \in Files /\ temporary' \in Files
        /\ receipt'[p] = temporary[p] /\ temporary'[p] = NoFile
        /\ \A x \in Path \ {p} : receipt'[x] = receipt[x] /\ temporary'[x] = temporary[x]
    BY <1>1, <1>2, <1>3 DEF FilesTypeOK, Files
  <1>5. NoWriter \in Writer /\ NoWriter.step = "none" /\ NoWriter.file = "none"
    BY DEF Writer, NoWriter
  <1>6. ASSUME NEW q \in Run \ {r}
        PROVE  /\ writer'[q] \in Writer
               /\ StepKept(q) /\ TextKept(q)
               /\ ReceiptPath[q] # p => writer'[q] = writer[q]
               /\ ReceiptPath[q] = p => writer'[q].file = Renamed(writer[q].file)
    <2>1. writer[q] \in Writer
      BY DEF FilesTypeOK
    <2>2. ReceiptPath[q] # p => writer'[q] = writer[q]
      BY <1>2
    <2>3. ReceiptPath[q] = p => writer'[q] = [writer[q] EXCEPT !.file = Renamed(@)]
      BY <1>2
    <2>4. CASE ReceiptPath[q] = p
      <3> DEFINE f == Renamed(writer[q].file)
      <3>1. writer[q] = [step |-> writer[q].step, text |-> writer[q].text, file |-> writer[q].file]
        BY <2>1 DEF Writer, NoWriter
      <3>2. writer'[q] = [step |-> writer[q].step, text |-> writer[q].text, file |-> f]
        BY <2>3, <2>4, <3>1
      <3>3. f \in {"none", "temporary", "receipt", "gone"}
            /\ (writer[q].file = "none" => f = "none")
        BY <2>1 DEF Renamed, Writer, NoWriter
      <3> HIDE DEF f
      <3>4. writer'[q] \in Writer
        BY <2>1, <3>2, <3>3 DEF Writer, NoWriter
      <3>5. StepKept(q) /\ TextKept(q)
        BY <3>2 DEF StepKept, TextKept
      <3> QED BY <2>4, <3>2, <3>4, <3>5 DEF f
    <2> QED BY <2>1, <2>2, <2>4 DEF StepKept, TextKept
  <1>7. writer'[r] = NoWriter
    BY <1>2
  <1>8. writer' \in [Run -> Writer]
    <2>1. DOMAIN step = Run /\ step = [q \in Run |-> step[q]]
      OBVIOUS
    <2>2. \A q \in Run : writer'[q] \in Writer
      BY <1>5, <1>6, <1>7
    <2> HIDE DEF step
    <2> QED BY <1>2, <2>1, <2>2
  <1> HIDE DEF step
  <1>9. ASSUME NEW q \in Run
        PROVE  /\ writer'[q].file = "temporary" => temporary'[ReceiptPath[q]] # NoFile
               /\ writer'[q].file = "receipt" => receipt'[ReceiptPath[q]] # NoFile
    <2>1. ReceiptPath[q] \in Path
      BY ReceiptPathType
    <2>2. CASE q = r
      BY <1>5, <1>7, <2>2
    <2>3. CASE q # r /\ ReceiptPath[q] = p
      <3>1. writer'[q].file = Renamed(writer[q].file)
        BY <1>6, <2>3
      <3>2. writer'[q].file # "temporary"
        BY <3>1 DEF Renamed
      <3> QED BY <1>1, <1>4, <2>3, <3>2
    <2>4. CASE q # r /\ ReceiptPath[q] # p
      <3>1. writer'[q] = writer[q]
        BY <1>6, <2>4
      <3> QED BY <1>4, <2>1, <2>4, <3>1 DEF FilesTypeOK
    <2> QED BY <2>2, <2>3, <2>4
  <1>10. FilesTypeOK'
    BY <1>1, <1>4, <1>8, <1>9 DEF FilesTypeOK
  <1> QED BY <1>1, <1>3, <1>4, <1>5, <1>6, <1>7, <1>10

(* A landing adds one pair of indices to the history of its own process.   *)
LEMMA LandTyped ==
    ASSUME TypeOK, NEW r \in Run, Land(r)
    PROVE  /\ landed' \in [Run -> SUBSET (Nat \X Nat)]
           /\ landed'[r] = landed[r] \cup {<<run[r].next, run[r].done + 1>>}
           /\ \A q \in Run \ {r} : landed'[q] = landed[q]
           /\ clean' \in [Run -> BOOLEAN]
  <1>1. IsProcess(run[r]) /\ landed \in [Run -> SUBSET (Nat \X Nat)]
        /\ clean \in [Run -> BOOLEAN]
    BY DEF TypeOK
  <1>2. run[r].next \in Nat /\ run[r].done + 1 \in Nat
    BY <1>1 DEF IsProcess
  <1>3. <<run[r].next, run[r].done + 1>> \in Nat \X Nat
    BY <1>2
  <1> DEFINE w == <<run[r].next, run[r].done + 1>>
  <1>4. landed' = [landed EXCEPT ![r] = landed[r] \cup {w}]
    BY DEF Land
  <1>5. w \in Nat \X Nat
    BY <1>3
  <1> HIDE DEF w
  <1>6. /\ landed' \in [Run -> SUBSET (Nat \X Nat)]
        /\ landed'[r] = landed[r] \cup {w}
        /\ \A q \in Run \ {r} : landed'[q] = landed[q]
    BY <1>1, <1>4, <1>5
  <1>7. clean' \in [Run -> BOOLEAN]
    <2>1. clean' = [q \in Run |-> IF q = r \/ remote' = remote THEN clean[q] ELSE FALSE]
      BY DEF Land
    <2> QED BY <1>1, <2>1
  <1> QED BY <1>6, <1>7 DEF w

(* Every reachable state is well formed.                                   *)
THEOREM TypeCorrect == Spec => []TypeOK
<1>1. Init => TypeOK
  <2>1. ASSUME Init PROVE FilesTypeOK
    <3>1. receipt \in Files /\ temporary \in Files /\ contested \in SUBSET Path
      BY <2>1 DEF Init, FilesInit, Files
    <3>2. \A r \in Run : writer[r] = NoWriter
      BY <2>1 DEF Init, FilesInit
    <3>3. writer \in [Run -> Writer]
      BY <2>1 DEF Init, FilesInit, Writer
    <3>4. NoWriter.file = "none"
      BY DEF NoWriter
    <3> QED BY <3>1, <3>2, <3>3, <3>4 DEF FilesTypeOK
  <2>2. ASSUME Init PROVE Processes /\ Shared
    BY <2>2, MaxEventsType DEF Init, Processes, Shared, IdleProcess, IsProcess, Phase
  <2>3. ASSUME Init PROVE JournalersWrite
    BY <2>3 DEF Init, FilesInit, NoWriter, JournalersWrite, Journaled
  <2> QED BY <2>1, <2>2, <2>3, TypeParts
<1>2. ASSUME TypeOK, [Next]_vars
      PROVE  TypeOK'
  <2>1. Shared /\ Processes /\ FilesTypeOK /\ JournalersWrite
    BY <1>2, TypeParts
  <2>2. events < MaxEvents => events + 1 \in 0..MaxEvents
    BY <2>1, MaxEventsType DEF Shared
  <2>3. ASSUME Observe \/ Review \/ UNCHANGED vars \/ \E o \in Opts : BuildPlan(o)
        PROVE  FilesTypeOK' /\ Shared' /\ Processes'
    <3>1. Shared' /\ Processes'
      BY <2>1, <2>3 DEF Observe, Review, BuildPlan, vars, Shared, Processes
    <3>2. UNCHANGED filing
      BY <2>3 DEF Observe, Review, BuildPlan, vars, filing
    <3> QED BY <2>1, <3>1, <3>2, FilesKept
  <2>4. ASSUME EditRemote \/ EditManifest \/ EditPlanFile
        PROVE  FilesTypeOK' /\ Shared' /\ Processes'
    <3>0. FilesTypeOK'
      BY <2>1, <2>4, FilesKept DEF EditRemote, EditManifest, EditPlanFile
    <3>1. CASE EditRemote
      BY <2>1, <2>2, <3>0, <3>1 DEF EditRemote, Shared, Processes
    <3>2. CASE EditManifest
      BY <2>1, <2>2, <3>0, <3>2 DEF EditManifest, Shared, Processes
    <3>3. CASE EditPlanFile
      BY <2>1, <2>2, <3>0, <3>3 DEF EditPlanFile, Shared, Processes
    <3> QED BY <2>4, <3>1, <3>2, <3>3
  <2>5. ASSUME NEW r \in Run, Load(r)
        PROVE  FilesTypeOK' /\ Shared' /\ Processes'
    <3>1. Shared'
      BY <2>1, <2>5 DEF Load, Shared
    <3>2. Processes'
      BY <1>2, <2>1, <2>5, LoadEffect DEF Processes
    <3>f. FilesTypeOK'
      BY <2>1, <2>5, FilesKept DEF Load
    <3> QED BY <3>1, <3>2, <3>f
  <2>6. ASSUME NEW r \in Run, Fetch(r)
        PROVE  FilesTypeOK' /\ Shared' /\ Processes'
    <3>1. Shared'
      BY <2>1, <2>6 DEF Fetch, Shared
    <3>2. Processes'
      BY <1>2, <2>1, <2>6, FetchEffect DEF Processes
    <3>f. FilesTypeOK'
      BY <2>1, <2>6, FilesKept DEF Fetch
    <3> QED BY <3>1, <3>2, <3>f
  <2>7. ASSUME NEW r \in Run, Refuse(r) \/ Report(r)
        PROVE  FilesTypeOK' /\ Shared' /\ Processes'
    <3>1. receipt[ReceiptPath[r]] \in Content \cup {NoFile}
      BY <2>1, ReceiptPathType DEF FilesTypeOK, Files
    <3>2. reported' = [reported EXCEPT ![r] = receipt[ReceiptPath[r]]]
      BY <2>7 DEF Refuse, Report
    <3>3. Shared'
      BY <2>1, <2>7, <3>1, <3>2 DEF Refuse, Report, Shared
    <3>4. Processes'
      <4>1. CASE Refuse(r)
        BY <1>2, <4>1, GotoTyped DEF Refuse, Phase
      <4>2. CASE Report(r)
        BY <2>1, <4>2 DEF Report, Processes
      <4> QED BY <2>7, <4>1, <4>2
    <3>5. FilesTypeOK'
      BY <2>1, <2>7, FilesKept DEF Refuse, Report
    <3> QED BY <3>3, <3>4, <3>5
  <2>8. ASSUME NEW r \in Run, Start(r)
        PROVE  FilesTypeOK' /\ Shared' /\ Processes'
    <3>1. Shared'
      BY <2>1, <2>8 DEF Start, Shared
    <3>2. Processes'
      BY <1>2, <2>8, GotoTyped DEF Start, Phase
    <3>3. FilesTypeOK'
      BY <2>1, <2>8, JournalTyped DEF Start
    <3> QED BY <3>1, <3>2, <3>3
  <2>9. ASSUME NEW r \in Run, Write(r)
        PROVE  FilesTypeOK' /\ Shared' /\ Processes'
    <3>1. Shared'
      BY <1>2, <2>1, <2>9, LandTyped DEF Write, Shared
    <3>2. run[r].next \in Nat \ {0} /\ run[r].done + 1 \in Nat
      BY <2>1 DEF Processes, IsProcess
    <3>3. run' = [run EXCEPT ![r].next = run[r].next, ![r].done = run[r].done + 1]
      BY <2>1, <2>9 DEF Write, Processes, IsProcess
    <3>4. Processes'
      BY <1>2, <2>1, <3>2, <3>3, CountEffect DEF Processes
    <3>f. FilesTypeOK'
      BY <2>1, <2>9, FilesKept DEF Write
    <3> QED BY <3>1, <3>4, <3>f
  <2>10. ASSUME NEW r \in Run, WriteUnanswered(r)
         PROVE  FilesTypeOK' /\ Shared' /\ Processes'
    <3>1. Shared'
      BY <1>2, <2>1, <2>2, <2>10, LandTyped DEF WriteUnanswered, Shared
    <3>2. Processes'
      BY <1>2, <2>10, GotoTyped DEF WriteUnanswered, Pending, Remaining, Phase
    <3>f. FilesTypeOK'
      BY <2>1, <2>10, FilesKept DEF WriteUnanswered
    <3> QED BY <3>1, <3>2, <3>f
  <2>11. ASSUME NEW r \in Run, WriteRejected(r) \/ WriteFails(r)
         PROVE  FilesTypeOK' /\ Shared' /\ Processes'
    <3>1. Shared'
      BY <2>1, <2>2, <2>11 DEF WriteRejected, WriteFails, Shared
    <3>2. Processes'
      BY <1>2, <2>11, GotoTyped DEF WriteRejected, WriteFails, Pending, Remaining, Phase
    <3>3. FilesTypeOK'
      BY <2>1, <2>11, FilesKept DEF WriteRejected, WriteFails
    <3> QED BY <3>1, <3>2, <3>3
  <2>12. ASSUME NEW r \in Run, ActionDone(r)
         PROVE  FilesTypeOK' /\ Shared' /\ Processes'
    <3>1. run[r].next \in Nat \ {0} /\ run[r].next + 1 \in Nat \ {0}
      BY <2>1 DEF Processes, IsProcess
    <3>2. Shared'
      BY <2>1, <2>12 DEF ActionDone, Shared
    <3>3. run' = [run EXCEPT ![r].next = run[r].next + 1, ![r].done = 0]
      BY <2>12 DEF ActionDone
    <3>4. Processes'
      BY <1>2, <2>1, <3>1, <3>3, CountEffect DEF Processes
    <3>5. FilesTypeOK'
      BY <2>1, <2>12, <3>1, JournalTyped DEF ActionDone
    <3> QED BY <3>2, <3>4, <3>5
  <2>13. ASSUME NEW r \in Run, JournalFailure(r)
         PROVE  FilesTypeOK' /\ Shared' /\ Processes'
    <3>1. run[r].next - 1 \in Nat
      BY <2>1 DEF Processes, IsProcess
    <3>2. Shared'
      BY <2>1, <2>13 DEF JournalFailure, Shared
    <3>3. Processes'
      BY <1>2, <2>13, GotoTyped DEF JournalFailure, Phase
    <3>4. FilesTypeOK'
      BY <2>1, <2>13, <3>1, JournalTyped DEF JournalFailure
    <3> QED BY <3>2, <3>3, <3>4
  <2>14. ASSUME NEW r \in Run, Complete(r) \/ RecordVerification(r)
         PROVE  FilesTypeOK' /\ Shared' /\ Processes'
    <3>1. run[r].pc # "idle"
      BY <2>14 DEF Complete, RecordVerification
    <3>2. Len(Actions(r)) \in Nat
      BY <2>1, <3>1 DEF Processes, IsProcess, IsPlan, Actions
    <3>3. Shared'
      BY <2>1, <2>14 DEF Complete, RecordVerification, Shared
    <3>4. Processes'
      BY <1>2, <2>14, <3>1, GotoTyped DEF Complete, RecordVerification, Phase
    <3>5. FilesTypeOK'
      BY <2>1, <2>14, <3>2, JournalTyped DEF Complete, RecordVerification
    <3> QED BY <3>3, <3>4, <3>5
  <2>16. ASSUME NEW r \in Run, FileReceipt(r)
         PROVE  FilesTypeOK' /\ Shared' /\ Processes'
    <3>1. FilesTypeOK'
      BY <2>1, <2>16, OpenEffect, FillEffect, ReplaceEffect DEF FileReceipt
    <3> QED BY <2>1, <2>16, <3>1 DEF FileReceipt, Shared, Processes
  <2>17. ASSUME NEW r \in Run, ReceiptLost(r) \/ Crash(r)
         PROVE  FilesTypeOK' /\ Shared' /\ Processes'
    <3>1. Shared'
      BY <2>1, <2>2, <2>17 DEF ReceiptLost, Crash, Shared
    <3>2. FilesTypeOK'
      BY <2>1, <2>17, AbandonTyped DEF ReceiptLost, Crash
    <3>3. run[r].pc # "idle"
      <4>1. ~Journaled(r) => run[r].pc # "idle"
        BY <2>1 DEF JournalersWrite, Journaling
      <4> QED BY <2>17, <4>1 DEF ReceiptLost, NothingToReplace, Crash, Journaled
    <3>4. Processes'
      BY <1>2, <2>17, <3>3, GotoTyped DEF ReceiptLost, Crash, Phase
    <3> QED BY <3>1, <3>2, <3>4
  <2>15. FilesTypeOK' /\ Shared' /\ Processes'
    BY <1>2, <2>3, <2>4, <2>5, <2>6, <2>7, <2>8, <2>9, <2>10, <2>11, <2>12, <2>13,
       <2>14, <2>16, <2>17 DEF Next, Progress
  <2>18. JournalersWrite'
    <3> SUFFICES ASSUME NEW q \in Run, ~Journaled(q)'
                 PROVE  run'[q].pc \in Journaling
      BY DEF JournalersWrite
    <3>1. ASSUME run'[q] = run[q], writer'[q].step = writer[q].step
          PROVE  run'[q].pc \in Journaling
      BY <2>1, <3>1 DEF JournalersWrite, Journaled
    <3>2. CASE Observe \/ Review \/ UNCHANGED vars \/ (\E o \in Opts : BuildPlan(o))
               \/ EditRemote \/ EditManifest \/ EditPlanFile
      BY <3>1, <3>2 DEF Observe, Review, vars, filing, BuildPlan, EditRemote, EditManifest,
         EditPlanFile
    <3>3. ASSUME NEW r \in Run, NEW pc, Goto(r, pc)
          PROVE  /\ q # r => run'[q] = run[q]
                 /\ q = r => run'[q].pc = pc
      BY <1>2, <3>3, GotoPhase
    <3>4. ASSUME NEW r \in Run, Load(r) \/ Fetch(r) \/ Refuse(r)
          PROVE  run'[q].pc \in Journaling
      <4>1. run[r].pc \notin Journaling /\ writer' = writer
        BY <3>4 DEF Load, Fetch, Refuse, Journaling, filing
      <4>2. q # r
        BY <2>1, <4>1 DEF JournalersWrite, Journaled
      <4>3. run'[q] = run[q]
        BY <1>2, <3>3, <3>4, <4>2, LoadEffect, FetchEffect DEF Refuse
      <4> QED BY <3>1, <4>1, <4>3
    <3>5. ASSUME NEW r \in Run,
                 Write(r) \/ WriteUnanswered(r) \/ WriteRejected(r) \/ WriteFails(r)
          PROVE  run'[q].pc \in Journaling
      <4>1. Journaled(r) /\ writer' = writer
        BY <3>5 DEF Write, WriteUnanswered, WriteRejected, WriteFails, Pending, Remaining, filing
      <4>2. q # r
        BY <4>1 DEF Journaled
      <4>3. run'[q] = run[q]
        <5>1. CASE Write(r)
          BY <1>2, <4>2, <5>1 DEF Write, TypeOK
        <5> QED BY <3>3, <3>5, <4>2, <5>1 DEF WriteUnanswered, WriteRejected, WriteFails
      <4> QED BY <3>1, <4>1, <4>3
    <3>6. ASSUME NEW r \in Run, Start(r) \/ ActionDone(r) \/ JournalFailure(r)
                 \/ Complete(r) \/ RecordVerification(r)
          PROVE  run'[q].pc \in Journaling
      <4>1. q # r => writer'[q].step = writer[q].step
        BY <2>1, <3>6 DEF Start, ActionDone, JournalFailure, Complete, RecordVerification,
           Journal, WriteText, FilesTypeOK
      <4>2. /\ q # r => run'[q] = run[q]
            /\ q = r => run'[q].pc \in Journaling
        <5>1. CASE ActionDone(r)
          BY <1>2, <5>1 DEF ActionDone, Remaining, TypeOK, IsProcess, Journaling
        <5>2. CASE ~ActionDone(r)
          BY <3>3, <3>6, <5>2
             DEF Start, JournalFailure, Complete, RecordVerification, Journaling
        <5> QED BY <5>1, <5>2
      <4> QED BY <3>1, <4>1, <4>2
    <3>7. ASSUME NEW r \in Run, ReceiptLost(r) \/ Crash(r)
          PROVE  run'[q].pc \in Journaling
      <4>1. /\ q # r => writer'[q].step = writer[q].step
            /\ q = r => writer'[q].step = "none"
        BY <2>1, <3>7, AbandonTyped DEF ReceiptLost, Crash
      <4>2. q # r
        BY <4>1 DEF Journaled
      <4>3. run'[q] = run[q]
        BY <3>3, <3>7, <4>2 DEF ReceiptLost, Crash
      <4> QED BY <3>1, <4>1, <4>2, <4>3
    <3>8. ASSUME NEW r \in Run, FileReceipt(r) \/ Report(r)
          PROVE  run'[q].pc \in Journaling
      <4>1. run' = run
        BY <3>8 DEF FileReceipt, Report
      <4>2. ~Journaled(q)
        <5>1. CASE Report(r)
          BY <5>1 DEF Report, filing, Journaled
        <5>2. CASE OpenTemporary(r)
          BY <2>1, <5>2, OpenEffect DEF Journaled
        <5>3. CASE FillTemporary(r)
          BY <2>1, <5>3, FillEffect DEF Journaled
        <5>4. CASE ReplaceReceipt(r)
          <6>1. writer'[r].step = "none"
            BY <2>1, <5>4, ReplaceEffect
          <6>2. q # r
            BY <6>1 DEF Journaled
          <6>3. writer'[q].step = writer[q].step
            <7>1. StepKept(q)
              BY <2>1, <5>4, <6>2, ReplaceEffect
            <7> QED BY <7>1 DEF StepKept
          <6> QED BY <6>3 DEF Journaled
        <5> QED BY <3>8, <5>1, <5>2, <5>3, <5>4 DEF FileReceipt
      <4> QED BY <2>1, <4>1, <4>2 DEF JournalersWrite
    <3> QED BY <1>2, <3>2, <3>4, <3>5, <3>6, <3>7, <3>8 DEF Next, Progress
  <2> QED BY <2>15, <2>18 DEF TypeOK, Shared, Processes, JournalersWrite
<1> QED BY <1>1, <1>2, PTL DEF Spec

-----------------------------------------------------------------------------
(* What a step leaves alone. *)

Paperwork ==
    \/ Observe \/ Review \/ EditManifest \/ EditPlanFile \/ UNCHANGED vars
    \/ \E o \in Opts : BuildPlan(o)
    \/ \E r \in Run : FileReceipt(r) \/ Report(r)

(* The steps of a process after it has read both sides, landings apart.    *)
Quiet(r) == Refuse(r) \/ Start(r) \/ WriteRejected(r) \/ WriteFails(r) \/ ActionDone(r)
            \/ JournalFailure(r) \/ Complete(r) \/ RecordVerification(r)
            \/ ReceiptLost(r) \/ Crash(r)
Landing(r) == Write(r) \/ WriteUnanswered(r)

(* Every step is one on files, an edit, or one of a process.               *)
LEMMA StepKinds ==
    ASSUME [Next]_vars
    PROVE  \/ Paperwork \/ EditRemote
           \/ \E r \in Run : Load(r) \/ Fetch(r) \/ Quiet(r) \/ Landing(r)
  BY DEF Next, Paperwork, Progress, Quiet, Landing

(* Files and edits leave the processes and what they landed alone.         *)
LEMMA PaperworkFrame ==
    ASSUME Paperwork \/ EditRemote
    PROVE  /\ run' = run /\ landed' = landed
           /\ Paperwork => remote' = remote /\ clean' = clean
  BY DEF Paperwork, EditRemote, Observe, Review, EditManifest, EditPlanFile, BuildPlan,
         FileReceipt, Report, vars

(* One process never touches another, nor its own plan and reads.          *)
LEMMA ProcessFrame ==
    ASSUME TypeOK, NEW r \in Run, Quiet(r) \/ Landing(r)
    PROVE  /\ \A q \in Run \ {r} : run'[q] = run[q] /\ landed'[q] = landed[q]
           /\ run'[r].plan = run[r].plan /\ run'[r].manifest = run[r].manifest
           /\ run'[r].snapshot = run[r].snapshot /\ run'[r].confirm = run[r].confirm
           /\ Quiet(r) => landed' = landed /\ remote' = remote /\ clean' = clean
  <1>1. IsProcess(run[r]) /\ DOMAIN run = Run
    BY DEF TypeOK
  <1>2. /\ \A q \in Run \ {r} : run'[q] = run[q]
        /\ run'[r].plan = run[r].plan /\ run'[r].manifest = run[r].manifest
        /\ run'[r].snapshot = run[r].snapshot /\ run'[r].confirm = run[r].confirm
    <2>1. ASSUME NEW pc, Goto(r, pc) PROVE <1>2
      BY <1>1, <2>1 DEF Goto, IsProcess
    <2>2. CASE ActionDone(r) \/ Write(r)
      BY <1>1, <2>2 DEF ActionDone, Write, IsProcess
    <2> QED BY <2>1, <2>2 DEF Quiet, Landing, Refuse, Start, WriteRejected, WriteFails,
               JournalFailure, Complete, RecordVerification, ReceiptLost, Crash, WriteUnanswered
  <1>3. Quiet(r) => landed' = landed /\ remote' = remote /\ clean' = clean
    BY DEF Quiet, Refuse, Start, WriteRejected, WriteFails, ActionDone,
           JournalFailure, Complete, RecordVerification, ReceiptLost, Crash
  <1>4. \A q \in Run \ {r} : landed'[q] = landed[q]
    <2>1. CASE Landing(r)
      BY <2>1, LandTyped DEF Landing, Write, WriteUnanswered
    <2> QED BY <1>3, <2>1
  <1> QED BY <1>2, <1>3, <1>4

(* A process that dies had begun.                                          *)
LEMMA TheDyingHadBegun ==
    ASSUME TypeOK, NEW r \in Run, ReceiptLost(r) \/ Crash(r)
    PROVE  run[r].pc \in Begun
  <1>1. ReceiptLost(r) => ~Journaled(r)
    BY DEF ReceiptLost, NothingToReplace, Journaled
  <1>2. ~Journaled(r) => run[r].pc \in Begun
    BY TypeParts DEF JournalersWrite, Journaling, Begun
  <1> QED BY <1>1, <1>2 DEF Crash, Begun

-----------------------------------------------------------------------------
(* Authorization.  A process begins authorized, and neither its plan nor   *)
(* what it read changes afterwards; before it begins nothing lands.        *)
AuthInv ==
    \A r \in Run : /\ run[r].pc \in Begun => Authorized(run[r])
                   /\ run[r].pc \notin Begun => landed[r] = {}

(* Authorization depends on what a process loaded and read, only.          *)
LEMMA AuthorizedKept ==
    ASSUME NEW p, NEW q, q.plan = p.plan, q.manifest = p.manifest,
           q.snapshot = p.snapshot, q.confirm = p.confirm, Authorized(p)
    PROVE  Authorized(q)
  BY DEF Authorized, ConfirmationHolds, RebuildMatches, IsPriorityOnly

(* Begun processes are authorized, the others have landed nothing.         *)
LEMMA AuthAlways == Spec => []AuthInv
<1>1. Init => AuthInv
  <2>1. Init => \A r \in Run : run[r].pc = "idle" /\ landed[r] = {}
    <3>1. IdleProcess.pc = "idle"
      BY DEF IdleProcess
    <3> QED BY <3>1 DEF Init
  <2> QED BY <2>1 DEF AuthInv, Begun
<1>2. ASSUME TypeOK, AuthInv, [Next]_vars
      PROVE  AuthInv'
  <2>1. CASE Paperwork \/ EditRemote
    BY <1>2, <2>1, PaperworkFrame DEF AuthInv, Authorized, ConfirmationHolds, RebuildMatches
  <2>2. ASSUME NEW r \in Run, Load(r) PROVE AuthInv'
    <3>1. \A q \in Run \ {r} : run'[q] = run[q]
      BY <1>2, <2>2, LoadEffect
    <3>2. run'[r].pc \notin Begun /\ run[r].pc \notin Begun /\ landed' = landed
      BY <1>2, <2>2, LoadEffect DEF Load, Begun
    <3> QED BY <1>2, <3>1, <3>2, AuthorizedKept DEF AuthInv
  <2>3. ASSUME NEW r \in Run, Fetch(r) PROVE AuthInv'
    <3>1. \A q \in Run \ {r} : run'[q] = run[q]
      BY <1>2, <2>3, FetchEffect
    <3>2. run'[r].pc = "fetched"
      BY <1>2, <2>3, FetchEffect
    <3>3. run'[r].pc \notin Begun /\ run[r].pc \notin Begun /\ landed' = landed
      BY <2>3, <3>2 DEF Fetch, Begun
    <3> QED BY <1>2, <3>1, <3>2, <3>3, AuthorizedKept DEF AuthInv
  <2>4. ASSUME NEW r \in Run, Quiet(r) \/ Landing(r) PROVE AuthInv'
    <3>1. \A q \in Run \ {r} : run'[q] = run[q] /\ landed'[q] = landed[q]
      BY <1>2, <2>4, ProcessFrame
    <3>2. Authorized(run[r]) => Authorized(run'[r])
      BY <1>2, <2>4, ProcessFrame, AuthorizedKept
    <3>3. CASE Refuse(r)
      <4>1. run'[r].pc = "refused"
        BY <1>2, <3>3 DEF Refuse, Goto, TypeOK, IsProcess
      <4>2. run[r].pc \notin Begun /\ landed' = landed
        BY <3>3 DEF Refuse, Begun
      <4> QED BY <1>2, <3>1, <4>1, <4>2, AuthorizedKept DEF AuthInv, Begun
    <3>4. CASE ~Refuse(r)
      <4>1. Authorized(run[r])
        BY <1>2, <2>4, <3>4, TheDyingHadBegun
           DEF AuthInv, Begun, Quiet, Landing, Start, Write, WriteUnanswered, WriteRejected,
               WriteFails, ActionDone, JournalFailure, Complete, RecordVerification,
               Pending, Remaining
      <4>2. run'[r].pc \in Begun
        <5>1. ASSUME NEW pc \in Begun, Goto(r, pc) PROVE run'[r].pc \in Begun
          BY <1>2, <5>1 DEF Goto, TypeOK, IsProcess
        <5>2. CASE ActionDone(r) \/ Write(r)
          BY <1>2, <5>2
             DEF ActionDone, Write, Pending, Remaining, TypeOK, IsProcess, Begun
        <5> QED BY <2>4, <3>4, <5>1, <5>2
               DEF Begun, Quiet, Landing, Start, WriteUnanswered, WriteRejected,
                   WriteFails, JournalFailure, Complete, RecordVerification, ReceiptLost,
                   Crash
      <4> QED BY <1>2, <3>1, <3>2, <4>1, <4>2, AuthorizedKept DEF AuthInv
    <3> QED BY <3>3, <3>4
  <2> QED BY <1>2, <2>1, <2>2, <2>3, <2>4, StepKinds
<1> QED BY <1>1, <1>2, TypeCorrect, PTL DEF Spec

(* Nothing reaches GitHub but a confirmed plan that is the planner's answer *)
(* to what the process itself read, or such a plan of Priority updates.    *)
THEOREM OnlyReviewedWrites == Spec => []ReviewedWrites
<1>1. AuthInv => ReviewedWrites
  BY DEF AuthInv, ReviewedWrites
<1> QED BY <1>1, AuthAlways, PTL

-----------------------------------------------------------------------------
(* The undisturbed start.  As long as nobody else changed GitHub since its *)
(* read, and it has landed nothing itself, a process still sees what it    *)
(* read; the rebuild made that the plan's own snapshot.                    *)
CleanInv ==
    \A r \in Run :
        /\ clean[r]
        /\ \/ run[r].pc = "fetched"
           \/ run[r].pc = "executing" /\ landed[r] = {}
        => remote = run[r].snapshot

(* What an undisturbed process read is what GitHub still holds.            *)
LEMMA CleanAlways == Spec => []CleanInv
<1>1. Init => CleanInv
  BY DEF Init, CleanInv
<1>2. ASSUME TypeOK, CleanInv, [Next]_vars
      PROVE  CleanInv'
  <2>1. CASE Paperwork
    BY <1>2, <2>1, PaperworkFrame DEF CleanInv
  <2>2. CASE EditRemote
    BY <2>2 DEF EditRemote, CleanInv
  <2>3. ASSUME NEW r \in Run, Load(r) PROVE CleanInv'
    <3>1. /\ \A q \in Run \ {r} : run'[q] = run[q]
          /\ run'[r].pc = "loaded"
          /\ remote' = remote /\ landed' = landed /\ clean' = clean
      BY <1>2, <2>3, LoadEffect DEF Load
    <3> QED BY <1>2, <3>1 DEF CleanInv
  <2>4. ASSUME NEW r \in Run, Fetch(r) PROVE CleanInv'
    <3>1. /\ \A q \in Run \ {r} : run'[q] = run[q]
          /\ run'[r].snapshot = remote
          /\ remote' = remote /\ landed' = landed
      BY <1>2, <2>4, FetchEffect DEF Fetch
    <3>2. \A q \in Run \ {r} : clean'[q] = clean[q]
      BY <1>2, <2>4 DEF Fetch, TypeOK
    <3> QED BY <1>2, <3>1, <3>2 DEF CleanInv
  <2>5. ASSUME NEW r \in Run, Quiet(r) PROVE CleanInv'
    <3>1. /\ \A q \in Run \ {r} : run'[q] = run[q]
          /\ run'[r].snapshot = run[r].snapshot
          /\ remote' = remote /\ landed' = landed /\ clean' = clean
      BY <1>2, <2>5, ProcessFrame
    <3>2. CASE Start(r)
      <4>1. run[r].pc = "fetched"
        BY <3>2 DEF Start
      <4> QED BY <1>2, <3>1, <4>1 DEF CleanInv
    <3>3. CASE ActionDone(r)
      <4>1. run[r].pc = "executing" /\ run'[r].pc = "executing"
        BY <1>2, <3>3 DEF ActionDone, Remaining, TypeOK, IsProcess
      <4> QED BY <1>2, <3>1, <4>1 DEF CleanInv
    <3>4. CASE ~Start(r) /\ ~ActionDone(r)
      <4>1. ASSUME NEW pc, Goto(r, pc) PROVE run'[r].pc = pc
        BY <1>2, <4>1 DEF Goto, TypeOK, IsProcess
      <4>2. run'[r].pc \in {"refused", "failing", "failed", "completed", "verified", "crashed"}
        BY <2>5, <3>4, <4>1 DEF Quiet, Refuse, WriteRejected, WriteFails,
           JournalFailure, Complete, RecordVerification, ReceiptLost, Crash
      <4> QED BY <1>2, <3>1, <4>2 DEF CleanInv
    <3> QED BY <3>2, <3>3, <3>4
  <2>6. ASSUME NEW r \in Run, Landing(r) PROVE CleanInv'
    <3>1. /\ \A q \in Run \ {r} : run'[q] = run[q] /\ landed'[q] = landed[q]
          /\ landed'[r] # {}
      BY <1>2, <2>6, ProcessFrame, LandTyped DEF Landing, Write, WriteUnanswered
    <3>2. \A q \in Run \ {r} : clean'[q] => remote' = remote /\ clean[q]
      BY <2>6 DEF Landing, Write, WriteUnanswered, Land
    <3>3. run'[r].pc # "fetched"
      <4>1. ASSUME NEW pc, Goto(r, pc) PROVE run'[r].pc = pc
        BY <1>2, <4>1 DEF Goto, TypeOK, IsProcess
      <4>2. CASE Write(r)
        BY <1>2, <4>2 DEF Write, Pending, Remaining, TypeOK, IsProcess
      <4> QED BY <2>6, <4>1, <4>2 DEF Landing, WriteUnanswered
    <3> QED BY <1>2, <3>1, <3>2, <3>3 DEF CleanInv
  <2> QED BY <1>2, <2>1, <2>2, <2>3, <2>4, <2>5, <2>6, StepKinds
<1> QED BY <1>1, <1>2, TypeCorrect, PTL DEF Spec

(* The first mutation of an undisturbed process meets exactly the GitHub   *)
(* its plan was reviewed against.                                          *)
THEOREM StartsClean == Spec => []CleanStart
<1>1. ASSUME AuthInv, CleanInv, NEW r \in Run,
             run[r].pc = "executing", landed[r] = {}, clean[r]
      PROVE  remote = run[r].plan.remote
  <2>1. remote = run[r].snapshot
    BY <1>1 DEF CleanInv
  <2>2. run[r].plan.remote = run[r].snapshot
    <3>1. RebuildMatches(run[r])
      BY <1>1 DEF AuthInv, Begun, Authorized
    <3> DEFINE built == PlanOf(run[r].manifest, run[r].snapshot, run[r].plan.opts)
               opts == run[r].plan.opts
    <3>2. run[r].plan = [actions |-> built, manifest |-> run[r].manifest,
                         remote |-> run[r].snapshot, opts |-> opts]
      BY <3>1, Zenon DEF RebuildMatches
    <3> HIDE DEF built, opts
    <3> QED BY <3>2
  <2> QED BY <2>1, <2>2
<1>2. AuthInv /\ CleanInv => CleanStart
  BY <1>1 DEF CleanStart
<1> QED BY <1>2, AuthAlways, CleanAlways, PTL

-----------------------------------------------------------------------------
(* Order and journal.  Where a process stands tells exactly which mutations *)
(* have landed, and its last receipt tells where it stands.                *)

AtPlace(r) == landed[r] = Before(r)
OnePast(r) == landed[r] = Before(r) \cup {<<run[r].next, run[r].done + 1>>}

OrderAt(r) ==
    /\ run[r].pc # "idle" => IsPlan(run[r].plan)
    /\ run[r].pc \notin Begun => landed[r] = {} /\ run[r].next = 1 /\ run[r].done = 0
    /\ run[r].pc \in Begun =>
          /\ run[r].next <= Len(Actions(r)) + 1
          /\ AtPlace(r) \/ OnePast(r)
    /\ run[r].pc = "executing" => AtPlace(r)
    /\ run[r].pc = "completed" => run[r].next > Len(Actions(r))
OrderInv == \A r \in Run : OrderAt(r)

(* The mutations of the first k + 1 actions are those of the first k and   *)
(* those of the next.                                                      *)
LEMMA WholeStep ==
    ASSUME NEW r \in Run, NEW k \in Nat
    PROVE  Whole(r, k + 1) = Whole(r, k) \cup WritesOf(r, k + 1)
  <1>1. 1..(k + 1) = 1..k \cup {k + 1}
    OBVIOUS
  <1> QED BY <1>1 DEF Whole

(* The mutations of the first k actions carry indices up to k.             *)
LEMMA WholeBound ==
    ASSUME NEW r \in Run, NEW k \in Nat, NEW w \in Whole(r, k)
    PROVE  w[1] \in 1..k
  BY DEF Whole, WritesOf

(* A step that keeps the plan keeps what its mutations are.                *)
LEMMA WholeKept ==
    ASSUME NEW r \in Run, NEW k, run'[r].plan = run[r].plan
    PROVE  Whole(r, k)' = Whole(r, k) /\ Actions(r)' = Actions(r)
  BY DEF Whole, WritesOf, Actions

(* The same for the mutations before the place a process stands at.        *)
LEMMA BeforeKept ==
    ASSUME NEW r \in Run, run'[r].plan = run[r].plan,
           run'[r].next = run[r].next, run'[r].done = run[r].done
    PROVE  Before(r)' = Before(r) /\ Actions(r)' = Actions(r)
  BY WholeKept DEF Before

(* A begun process stands within its plan.                                 *)
LEMMA PlaceBounds ==
    ASSUME NEW r \in Run, OrderAt(r), run[r].pc \in Begun
    PROVE  /\ Len(Actions(r)) \in Nat
           /\ run[r].next <= Len(Actions(r)) + 1
           /\ AtPlace(r) \/ OnePast(r)
  <1>1. run[r].pc # "idle"
    BY DEF Begun
  <1>2. Len(Actions(r)) \in Nat
    BY <1>1 DEF OrderAt, IsPlan, Actions
  <1> QED BY <1>2 DEF OrderAt

(* A process that does not step stays in order.                            *)
LEMMA OrderElsewhere ==
    ASSUME NEW r \in Run, OrderAt(r), run'[r] = run[r], landed'[r] = landed[r]
    PROVE  OrderAt(r)'
  <1>1. Before(r)' = Before(r) /\ Actions(r)' = Actions(r)
    BY BeforeKept
  <1> QED BY <1>1 DEF OrderAt, AtPlace, OnePast

(* A process that moves on from the loop, nothing landing.                 *)
LEMMA OrderGoto ==
    ASSUME TypeOK, NEW r \in Run, OrderAt(r), landed'[r] = landed[r],
           NEW pc \in Begun, Goto(r, pc),
           run[r].pc \in Begun, pc = "executing" => AtPlace(r),
           pc = "completed" => run[r].next > Len(Actions(r))
    PROVE  OrderAt(r)'
  <1>1. /\ run'[r].pc = pc /\ run'[r].plan = run[r].plan
        /\ run'[r].next = run[r].next /\ run'[r].done = run[r].done
    BY DEF Goto, TypeOK, IsProcess
  <1>2. Before(r)' = Before(r) /\ Actions(r)' = Actions(r)
    BY <1>1, BeforeKept
  <1>3. run[r].pc # "idle"
    BY DEF Begun
  <1> QED BY <1>1, <1>2, <1>3 DEF OrderAt, AtPlace, OnePast

(* Every process stands where its landings end, or one landing before.     *)
LEMMA OrderAlways == Spec => []OrderInv
<1>1. Init => OrderInv
  <2>1. IdleProcess.pc = "idle" /\ IdleProcess.next = 1 /\ IdleProcess.done = 0
    BY DEF IdleProcess
  <2>2. "idle" \notin Begun
    BY DEF Begun
  <2>3. Init => \A r \in Run : run[r] = IdleProcess /\ landed[r] = {}
    BY DEF Init
  <2> QED BY <2>1, <2>2, <2>3 DEF OrderInv, OrderAt
<1>2. ASSUME TypeOK, OrderInv, [Next]_vars
      PROVE  OrderInv'
  <2>1. CASE Paperwork \/ EditRemote
    <3>1. run' = run /\ landed' = landed
      BY <2>1, PaperworkFrame
    <3> QED BY <1>2, <3>1, OrderElsewhere DEF OrderInv
  <2>2. ASSUME NEW r \in Run, Load(r) PROVE OrderInv'
    <3>1. /\ \A q \in Run \ {r} : run'[q] = run[q] /\ landed'[q] = landed[q]
          /\ landed'[r] = landed[r]
      BY <1>2, <2>2, LoadEffect DEF Load
    <3>2. /\ run'[r].pc = "loaded" /\ run'[r].next = 1 /\ run'[r].done = 0
          /\ IsProcess(run'[r])
      BY <1>2, <2>2, LoadEffect
    <3>3. landed[r] = {}
      BY <1>2, <2>2 DEF OrderInv, OrderAt, Load, Begun
    <3>4. OrderAt(r)'
      BY <3>1, <3>2, <3>3 DEF OrderAt, Begun, IsProcess
    <3> QED BY <1>2, <3>1, <3>4, OrderElsewhere DEF OrderInv
  <2>3. ASSUME NEW r \in Run, Fetch(r) PROVE OrderInv'
    <3>1. /\ \A q \in Run \ {r} : run'[q] = run[q] /\ landed'[q] = landed[q]
          /\ landed'[r] = landed[r]
      BY <1>2, <2>3, FetchEffect DEF Fetch
    <3>2. /\ run'[r].pc = "fetched" /\ run'[r].plan = run[r].plan
          /\ run'[r].next = run[r].next /\ run'[r].done = run[r].done
      BY <1>2, <2>3, FetchEffect
    <3>3. OrderAt(r)'
      BY <1>2, <2>3, <3>1, <3>2 DEF OrderInv, OrderAt, Fetch, Begun
    <3> QED BY <1>2, <3>1, <3>3, OrderElsewhere DEF OrderInv
  <2>4. ASSUME NEW r \in Run, Quiet(r) PROVE OrderInv'
    <3>1. /\ \A q \in Run \ {r} : run'[q] = run[q] /\ landed'[q] = landed[q]
          /\ landed'[r] = landed[r]
      BY <1>2, <2>4, ProcessFrame
    <3>2. ASSUME Refuse(r) PROVE OrderAt(r)'
      <4>1. /\ run'[r].pc = "refused" /\ run'[r].plan = run[r].plan
            /\ run'[r].next = run[r].next /\ run'[r].done = run[r].done
        BY <1>2, <3>2 DEF Refuse, Goto, TypeOK, IsProcess
      <4> QED BY <1>2, <3>1, <3>2, <4>1 DEF OrderInv, OrderAt, Refuse, Begun
    <3>3. ASSUME Start(r) PROVE OrderAt(r)'
      <4>1. /\ run'[r].pc = "executing" /\ run'[r].plan = run[r].plan
            /\ run'[r].next = run[r].next /\ run'[r].done = run[r].done
        BY <1>2, <3>3 DEF Start, Goto, TypeOK, IsProcess
      <4>2. /\ landed[r] = {} /\ run[r].next = 1 /\ run[r].done = 0
            /\ IsPlan(run[r].plan)
        BY <1>2, <3>3 DEF OrderInv, OrderAt, Start, Begun
      <4>3. Before(r) = {}
        BY <4>2 DEF Before, Whole
      <4>4. Len(Actions(r)) \in Nat
        BY <4>2 DEF IsPlan, Actions
      <4>5. Before(r)' = Before(r) /\ Actions(r)' = Actions(r)
        BY <4>1, BeforeKept
      <4> QED BY <3>1, <4>1, <4>2, <4>3, <4>4, <4>5 DEF OrderAt, AtPlace, Begun
    <3>4. ASSUME ActionDone(r) PROVE OrderAt(r)'
      <4>1. /\ run'[r].pc = "executing" /\ run'[r].plan = run[r].plan
            /\ run'[r].next = run[r].next + 1 /\ run'[r].done = 0
            /\ run[r].next \in Nat \ {0} /\ run[r].pc = "executing"
        BY <1>2, <3>4 DEF ActionDone, Remaining, TypeOK, IsProcess
      <4>2. landed[r] = Whole(r, run[r].next - 1) \cup ({run[r].next} \X (1..run[r].done))
        BY <1>2, <4>1 DEF OrderInv, OrderAt, AtPlace, Before
      <4>3. {run[r].next} \X (1..run[r].done) = WritesOf(r, run[r].next)
        BY <3>4 DEF ActionDone, CurrentWrites, WritesOf
      <4>4. Whole(r, run[r].next) = landed[r]
        <5>1. run[r].next - 1 \in Nat /\ (run[r].next - 1) + 1 = run[r].next
          BY <4>1
        <5>2. Whole(r, (run[r].next - 1) + 1)
                 = Whole(r, run[r].next - 1) \cup WritesOf(r, (run[r].next - 1) + 1)
          BY <5>1, WholeStep
        <5> QED BY <4>2, <4>3, <5>1, <5>2
      <4>5. Before(r)' = Whole(r, run[r].next)
        <5>1. Before(r)' = Whole(r, run[r].next - 1)' \cup ({run'[r].next} \X (1..run'[r].done))
          BY DEF Before
        <5>2. run'[r].next - 1 = run[r].next /\ 1..run'[r].done = {}
          BY <4>1
        <5>3. {run'[r].next} \X (1..run'[r].done) = {}
          BY <5>2
        <5>4. Whole(r, run[r].next - 1)' = Whole(r, run[r].next)
          BY <4>1, <5>2 DEF Whole, WritesOf, Actions
        <5> QED BY <5>1, <5>3, <5>4
      <4>6. run[r].next <= Len(Actions(r)) /\ Actions(r)' = Actions(r)
            /\ IsPlan(run[r].plan)
        BY <1>2, <3>4, <4>1 DEF ActionDone, Remaining, Actions, OrderInv, OrderAt
      <4>7. Len(Actions(r)) \in Nat
        BY <4>6 DEF IsPlan, Actions
      <4> QED BY <3>1, <4>1, <4>4, <4>5, <4>6, <4>7 DEF OrderAt, AtPlace, Begun
    <3>5. ASSUME ~Refuse(r), ~Start(r), ~ActionDone(r) PROVE OrderAt(r)'
      <4>1. run[r].pc \in Begun
        BY <1>2, <2>4, <3>5, TheDyingHadBegun DEF Quiet, WriteRejected, WriteFails,
           JournalFailure, Complete, RecordVerification, Pending, Remaining, Begun
      <4>2. PICK pc \in {"failing", "failed", "completed", "verified", "crashed"} : Goto(r, pc)
        BY <2>4, <3>5 DEF Quiet, WriteRejected, WriteFails, JournalFailure, Complete,
           RecordVerification, ReceiptLost, Crash
      <4>3. pc \in Begun /\ pc # "executing"
        BY <4>2 DEF Begun
      <4>5. pc = "completed" => run[r].next > Len(Actions(r))
        <5>1. run'[r].pc = pc
          BY <1>2, <4>2, GotoPhase
        <5>2. Complete(r) => run[r].next > Len(Actions(r))
          BY DEF Complete
        <5>3. ~Complete(r) => run'[r].pc # "completed"
          BY <1>2, <2>4, <3>5, GotoPhase DEF Quiet, WriteRejected, WriteFails,
             JournalFailure, RecordVerification, ReceiptLost, Crash
        <5> QED BY <5>1, <5>2, <5>3
      <4>4. OrderAt(r)
        BY <1>2 DEF OrderInv
      <4> QED BY <1>2, <3>1, <4>1, <4>2, <4>3, <4>4, <4>5, OrderGoto
    <3>6. OrderAt(r)'
      BY <3>2, <3>3, <3>4, <3>5
    <3> QED BY <1>2, <3>1, <3>6, OrderElsewhere DEF OrderInv
  <2>5. ASSUME NEW r \in Run, Landing(r) PROVE OrderInv'
    <3>1. /\ \A q \in Run \ {r} : run'[q] = run[q] /\ landed'[q] = landed[q]
          /\ landed'[r] = landed[r] \cup {<<run[r].next, run[r].done + 1>>}
          /\ run[r].pc = "executing" /\ run'[r].plan = run[r].plan
      BY <1>2, <2>5, ProcessFrame, LandTyped
         DEF Landing, Write, WriteUnanswered, Pending, Remaining
    <3>2. /\ landed[r] = Before(r) /\ IsPlan(run[r].plan)
          /\ run[r].next <= Len(Actions(r)) + 1
      BY <1>2, <3>1 DEF OrderInv, OrderAt, AtPlace, Begun
    <3>3. ASSUME WriteUnanswered(r) PROVE OrderAt(r)'
      <4>1. /\ run'[r].pc = "failing"
            /\ run'[r].next = run[r].next /\ run'[r].done = run[r].done
        BY <1>2, <3>3 DEF WriteUnanswered, Goto, TypeOK, IsProcess
      <4>2. Before(r)' = Before(r) /\ Actions(r)' = Actions(r)
        BY <3>1, <4>1, BeforeKept
      <4> QED BY <3>1, <3>2, <4>1, <4>2 DEF OrderAt, OnePast, Begun
    <3>4. ASSUME Write(r) PROVE OrderAt(r)'
      <4>1. /\ run'[r].pc = "executing" /\ run[r].done \in Nat
            /\ run'[r].next = run[r].next /\ run'[r].done = run[r].done + 1
        BY <1>2, <3>1, <3>4 DEF Write, TypeOK, IsProcess
      <4>2. Actions(r)' = Actions(r)
        BY <3>1 DEF Actions
      <4>3. Before(r)' = Whole(r, run[r].next - 1)
                          \cup ({run[r].next} \X (1..(run[r].done + 1)))
        BY <3>1, <4>1 DEF Before, Whole, WritesOf, Actions
      <4>4. 1..(run[r].done + 1) = (1..run[r].done) \cup {run[r].done + 1}
        BY <4>1
      <4>5. Before(r)' = Before(r) \cup {<<run[r].next, run[r].done + 1>>}
        BY <4>3, <4>4 DEF Before
      <4> QED BY <3>1, <3>2, <4>1, <4>2, <4>5 DEF OrderAt, AtPlace, Begun
    <3>5. OrderAt(r)'
      BY <2>5, <3>3, <3>4 DEF Landing
    <3> QED BY <1>2, <3>1, <3>5, OrderElsewhere DEF OrderInv
  <2> QED BY <1>2, <2>1, <2>2, <2>3, <2>4, <2>5, StepKinds
<1> QED BY <1>1, <1>2, TypeCorrect, PTL DEF Spec

(* Mutations land in plan order, none skipped and none twice.              *)
THEOREM LandsInPlanOrder == Spec => []InPlanOrder
<1>1. ASSUME OrderInv, NEW r \in Run, run[r].pc # "idle"
      PROVE  AtPlace(r) \/ OnePast(r)
  <2>1. CASE run[r].pc \in Begun
    BY <1>1, <2>1 DEF OrderInv, OrderAt
  <2>2. CASE run[r].pc \notin Begun
    <3>1. landed[r] = {} /\ run[r].next = 1 /\ run[r].done = 0
      BY <1>1, <2>2 DEF OrderInv, OrderAt
    <3> QED BY <3>1 DEF AtPlace, Before, Whole
  <2> QED BY <2>1, <2>2
<1>2. OrderInv => InPlanOrder
  BY <1>1 DEF InPlanOrder, AtPlace, OnePast
<1> QED BY <1>2, OrderAlways, PTL

(* Where the texts stand.  A text counts the actions its owner has behind  *)
(* it, and is one behind only from the end of an action to the replacement *)
(* of the receipt, while nothing lands.  A text in a temporary file is the *)
(* one its owner is about to install, or was when it died.                 *)
Counts(text, n) ==
    /\ text.applied = n
    /\ text.status = "completed" => text.applied = Len(Actions(text.owner))

WriterAt(r) ==
    writer[r].step # "none" =>
        writer[r].text.owner = r /\ Counts(writer[r].text, run[r].next - 1)

TextAt(text, p) ==
    LET r == text.owner
    IN  /\ p = ReceiptPath[r] /\ run[r].pc \in Begun
        /\ \/ Counts(text, run[r].next - 1)
           \/ /\ text.applied + 1 = run[r].next - 1 /\ text.status # "completed"
              /\ run[r].done = 0 /\ AtPlace(r)
              /\ ~Journaled(r) \/ run[r].pc = "crashed"

DraftAt(text, p) ==
    LET r == text.owner
    IN  /\ p = ReceiptPath[r] /\ run[r].pc \in Begun
        /\ Counts(text, run[r].next - 1)
        /\ \/ run[r].pc = "crashed"
           \/ writer[r].step = "replace" /\ writer[r].text = text

TextInv ==
    /\ \A r \in Run : WriterAt(r)
    /\ \A p \in Path : receipt[p] # NoFile => \A text \in receipt[p] : TextAt(text, p)
    /\ \A p \in Path : temporary[p] # NoFile => \A text \in temporary[p] : DraftAt(text, p)

(* A process that does not step keeps its texts where they stand.          *)
Still(q) == run'[q] = run[q] /\ landed'[q] = landed[q] /\ StepKept(q) /\ TextKept(q)

(* What is said of its texts, written or not, stays true.                  *)
LEMMA TextsElsewhere ==
    ASSUME NEW q \in Run, Still(q)
    PROVE  /\ WriterAt(q) => WriterAt(q)'
           /\ \A text, p : text.owner = q /\ TextAt(text, p) => TextAt(text, p)'
           /\ \A text, p : text.owner = q /\ DraftAt(text, p) => DraftAt(text, p)'
  <1>1. /\ run'[q] = run[q] /\ landed'[q] = landed[q]
        /\ writer'[q].step = writer[q].step /\ writer'[q].text = writer[q].text
    BY DEF Still, StepKept, TextKept
  <1>2. Actions(q)' = Actions(q) /\ Before(q)' = Before(q)
    BY <1>1, BeforeKept
  <1>3. (AtPlace(q)' <=> AtPlace(q)) /\ (Journaled(q)' <=> Journaled(q))
    BY <1>1, <1>2 DEF AtPlace, Journaled
  <1>4. WriterAt(q) => WriterAt(q)'
    BY <1>1, <1>2 DEF WriterAt, Counts
  <1>5. ASSUME NEW text, NEW p, text.owner = q, TextAt(text, p)
        PROVE  TextAt(text, p)'
    BY <1>1, <1>2, <1>3, <1>5 DEF TextAt, Counts
  <1>6. ASSUME NEW text, NEW p, text.owner = q, DraftAt(text, p)
        PROVE  DraftAt(text, p)'
    BY <1>1, <1>2, <1>6 DEF DraftAt, Counts
  <1> QED BY <1>4, <1>5, <1>6

(* A step of one process that leaves the files alone.                      *)
TextsMove(r) ==
    /\ WriterAt(r)'
    /\ \A text, p : text.owner = r /\ TextAt(text, p) => TextAt(text, p)'
    /\ \A text, p : text.owner = r /\ DraftAt(text, p) => DraftAt(text, p)'

(* If its own texts stay in place, all do.                                  *)
LEMMA TextsKept ==
    ASSUME TypeOK, TextInv, NEW r \in Run, \A q \in Run \ {r} : Still(q),
           receipt' = receipt, temporary' = temporary, TextsMove(r)
    PROVE  TextInv'
  <1>1. /\ \A p \in Path : receipt[p] # NoFile => receipt[p] \subseteq Receipt
        /\ \A p \in Path : temporary[p] # NoFile => temporary[p] \subseteq Receipt
    BY DEF TypeOK, FilesTypeOK, Files, Content
  <1>2. \A q \in Run : WriterAt(q)'
    <2>1. ASSUME NEW q \in Run \ {r} PROVE WriterAt(q)'
      BY <2>1, TextsElsewhere DEF TextInv
    <2> QED BY <2>1 DEF TextsMove
  <1>3. ASSUME NEW p \in Path, receipt[p] # NoFile, NEW text \in receipt[p]
        PROVE  TextAt(text, p)'
    <2>1. TextAt(text, p) /\ text.owner \in Run
      BY <1>1, <1>3 DEF TextInv, Receipt
    <2>2. CASE text.owner = r
      BY <2>1, <2>2 DEF TextsMove
    <2>3. CASE text.owner # r
      <3>1. Still(text.owner)
        BY <2>1, <2>3
      <3> QED BY <2>1, <3>1, TextsElsewhere
    <2> QED BY <2>2, <2>3
  <1>4. ASSUME NEW p \in Path, temporary[p] # NoFile, NEW text \in temporary[p]
        PROVE  DraftAt(text, p)'
    <2>1. DraftAt(text, p) /\ text.owner \in Run
      BY <1>1, <1>4 DEF TextInv, Receipt
    <2>2. CASE text.owner = r
      BY <2>1, <2>2 DEF TextsMove
    <2>3. CASE text.owner # r
      <3>1. Still(text.owner)
        BY <2>1, <2>3
      <3> QED BY <2>1, <3>1, TextsElsewhere
    <2> QED BY <2>2, <2>3
  <1> QED BY <1>2, <1>3, <1>4 DEF TextInv

(* A process that has nothing left to write, and is alive, has told all    *)
(* there is to tell; before it began, nothing tells of it.                 *)
LEMMA NothingPending ==
    ASSUME NEW r \in Run, Journaled(r), run[r].pc # "crashed",
           NEW text, NEW p, text.owner = r
    PROVE  /\ TextAt(text, p) => Counts(text, run[r].next - 1)
           /\ ~DraftAt(text, p)
  BY DEF TextAt, DraftAt, Journaled

(* The texts of a process that goes on without writing.                    *)
LEMMA TextsGo ==
    ASSUME NEW r \in Run, Journaled(r), run[r].pc # "crashed",
           run'[r].plan = run[r].plan, run'[r].next = run[r].next,
           run[r].pc \in Begun => run'[r].pc \in Begun,
           writer'[r].step = "none" \/ WriterAt(r)'
    PROVE  TextsMove(r)
  <1>1. Actions(r)' = Actions(r)
    BY DEF Actions
  <1>2. WriterAt(r)'
    BY DEF WriterAt
  <1>3. ASSUME NEW text, NEW p, text.owner = r, TextAt(text, p)
        PROVE  TextAt(text, p)'
    <2>1. Counts(text, run[r].next - 1)
      BY <1>3, NothingPending
    <2> QED BY <1>1, <1>3, <2>1 DEF TextAt, Counts
  <1>4. ASSUME NEW text, NEW p, text.owner = r
        PROVE  ~DraftAt(text, p)
    BY <1>4, NothingPending
  <1> QED BY <1>2, <1>3, <1>4 DEF TextsMove

(* Nothing tells of a process that has not begun.                          *)
LEMMA NoTextsYet ==
    ASSUME NEW r \in Run, run[r].pc \notin Begun, WriterAt(r)'
    PROVE  TextsMove(r)
  BY DEF TextsMove, TextAt, DraftAt

(* A process that journals: its files are untouched and its text counts.   *)
LEMMA JournalTold ==
    ASSUME FilesTypeOK, NEW r \in Run,
           NEW status \in {"running", "failed", "completed"},
           NEW k \in Nat, Journal(r, status, k), k = run'[r].next - 1,
           status = "completed" => k = Len(Actions(r)')
    PROVE  /\ receipt' = receipt /\ temporary' = temporary
           /\ \A q \in Run \ {r} : StepKept(q) /\ TextKept(q)
           /\ WriterAt(r)' /\ ~Journaled(r)'
  <1> DEFINE text == [owner |-> r, status |-> status, applied |-> k]
  <1>1. /\ receipt' = receipt /\ temporary' = temporary
        /\ \A q \in Run \ {r} : writer'[q] = writer[q]
        /\ writer'[r].step = "open" /\ writer'[r].text = text
    BY JournalTyped
  <1>2. text.owner = r /\ text.status = status /\ text.applied = k
    OBVIOUS
  <1> HIDE DEF text
  <1>3. WriterAt(r)'
    BY <1>1, <1>2 DEF WriterAt, Counts
  <1> QED BY <1>1, <1>3 DEF StepKept, TextKept, Journaled

(* A text that reaches the file its writer has open.                       *)
LEMMA TextsFilled ==
    ASSUME TypeOK, TextInv, NEW r \in Run, NEW p, p = ReceiptPath[r],
           NEW new, new = writer[r].text, FileReceipt(r), FillTemporary(r)
    PROVE  TextInv'
  <1>1. /\ p \in Path /\ writer[r].step = "fill" /\ new \in Receipt
        /\ \A x \in Path :
              \/ temporary'[x] = temporary[x]
              \/ x = p /\ temporary[p] # NoFile /\ temporary'[p] \in Over(temporary[p], new)
        /\ \A x \in Path :
              \/ receipt'[x] = receipt[x]
              \/ x = p /\ receipt[p] # NoFile /\ receipt'[p] \in Over(receipt[p], new)
        /\ \A q \in Run \ {r} : writer'[q] = writer[q]
        /\ writer'[r].step = "replace" /\ writer'[r].text = new
    BY FillEffect DEF TypeOK
  <1>2. run' = run /\ landed' = landed
    BY DEF FileReceipt
  <1>3. \A q \in Run \ {r} : Still(q)
    BY <1>1, <1>2 DEF Still, StepKept, TextKept
  <1>4. \A q \in Run : Actions(q)' = Actions(q) /\ (AtPlace(q)' <=> AtPlace(q))
    BY <1>2 DEF Actions, AtPlace, Before, Whole, WritesOf
  <1>5. /\ run[r].pc \in Begun /\ run[r].pc # "crashed"
        /\ new.owner = r /\ Counts(new, run[r].next - 1)
    BY <1>1, TypeParts DEF TextInv, WriterAt, JournalersWrite, Journaled, Journaling, Begun
  <1>6. DraftAt(new, p)' /\ TextAt(new, p)' /\ WriterAt(r)'
    BY <1>1, <1>2, <1>4, <1>5 DEF DraftAt, TextAt, WriterAt, Counts
  <1>7. ASSUME NEW text, NEW x, TextAt(text, x), text.owner \in Run
        PROVE  TextAt(text, x)'
    <2>1. CASE text.owner = r
      BY <1>1, <1>2, <1>4, <1>7, <2>1 DEF TextAt, Counts, Journaled
    <2>2. CASE text.owner # r
      BY <1>3, <1>7, <2>2, TextsElsewhere
    <2> QED BY <2>1, <2>2
  <1>8. ASSUME NEW text, NEW x, DraftAt(text, x), text.owner \in Run
        PROVE  DraftAt(text, x)'
    <2>1. text.owner # r
      BY <1>1, <1>5, <1>8 DEF DraftAt
    <2> QED BY <1>3, <1>8, <2>1, TextsElsewhere
  <1>9. /\ \A x \in Path : receipt[x] # NoFile => receipt[x] \subseteq Receipt
        /\ \A x \in Path : temporary[x] # NoFile => temporary[x] \subseteq Receipt
    BY DEF TypeOK, FilesTypeOK, Files, Content
  <1>10. ASSUME NEW x \in Path, receipt'[x] # NoFile, NEW text \in receipt'[x]
         PROVE  TextAt(text, x)'
    <2>1. \/ text = new /\ x = p
          \/ receipt[x] # NoFile /\ text \in receipt[x]
      <3>1. CASE receipt'[x] = receipt[x]
        BY <1>10, <3>1
      <3>2. CASE receipt'[x] # receipt[x]
        <4>1. x = p /\ receipt[p] # NoFile /\ receipt'[p] \in Over(receipt[p], new)
          BY <1>1, <1>10, <3>2
        <4>2. receipt'[p] \subseteq {new} \cup receipt[p]
          BY <4>1 DEF Over
        <4>3. text \in receipt'[p]
          BY <1>10, <4>1
        <4>4. text = new \/ text \in receipt[p]
          BY <4>2, <4>3
        <4> QED BY <4>1, <4>4
      <3> QED BY <3>1, <3>2
    <2>2. CASE receipt[x] # NoFile /\ text \in receipt[x]
      BY <1>7, <1>9, <2>2 DEF TextInv, Receipt
    <2> QED BY <1>6, <2>1, <2>2
  <1>11. ASSUME NEW x \in Path, temporary'[x] # NoFile, NEW text \in temporary'[x]
         PROVE  DraftAt(text, x)'
    <2>1. \/ text = new /\ x = p
          \/ temporary[x] # NoFile /\ text \in temporary[x]
      <3>1. CASE temporary'[x] = temporary[x]
        BY <1>11, <3>1
      <3>2. CASE temporary'[x] # temporary[x]
        <4>1. x = p /\ temporary[p] # NoFile /\ temporary'[p] \in Over(temporary[p], new)
          BY <1>1, <1>11, <3>2
        <4>2. temporary'[p] \subseteq {new} \cup temporary[p]
          BY <4>1 DEF Over
        <4>3. text \in temporary'[p]
          BY <1>11, <4>1
        <4>4. text = new \/ text \in temporary[p]
          BY <4>2, <4>3
        <4> QED BY <4>1, <4>4
      <3> QED BY <3>1, <3>2
    <2>2. CASE temporary[x] # NoFile /\ text \in temporary[x]
      BY <1>8, <1>9, <2>2 DEF TextInv, Receipt
    <2> QED BY <1>6, <2>1, <2>2
  <1>12. \A q \in Run : WriterAt(q)'
    <2>1. ASSUME NEW q \in Run \ {r} PROVE WriterAt(q)'
      BY <1>3, <2>1, TextsElsewhere DEF TextInv
    <2> QED BY <1>6, <2>1
  <1> QED BY <1>10, <1>11, <1>12 DEF TextInv

(* Opening the temporary file empties it.                                  *)
LEMMA TextsOpened ==
    ASSUME TypeOK, TextInv, NEW r \in Run, NEW p, p = ReceiptPath[r],
           FileReceipt(r), OpenTemporary(r)
    PROVE  TextInv'
  <1>1. /\ p \in Path /\ writer[r].step = "open" /\ receipt' = receipt
        /\ temporary'[p] = {} /\ \A x \in Path \ {p} : temporary'[x] = temporary[x]
        /\ \A q \in Run \ {r} : writer'[q] = writer[q]
        /\ writer'[r].step = "fill" /\ writer'[r].text = writer[r].text
    BY OpenEffect DEF TypeOK
  <1>2. run' = run /\ landed' = landed
    BY DEF FileReceipt
  <1>3. \A q \in Run \ {r} : Still(q)
    BY <1>1, <1>2 DEF Still, StepKept, TextKept
  <1>4. \A q \in Run : Actions(q)' = Actions(q) /\ (AtPlace(q)' <=> AtPlace(q))
    BY <1>2 DEF Actions, AtPlace, Before, Whole, WritesOf
  <1>5. ASSUME NEW text, NEW x, TextAt(text, x), text.owner \in Run
        PROVE  TextAt(text, x)'
    <2>1. CASE text.owner = r
      BY <1>1, <1>2, <1>4, <1>5, <2>1 DEF TextAt, Counts, Journaled
    <2>2. CASE text.owner # r
      BY <1>3, <1>5, <2>2, TextsElsewhere
    <2> QED BY <2>1, <2>2
  <1>6. ASSUME NEW text, NEW x, DraftAt(text, x), text.owner \in Run
        PROVE  DraftAt(text, x)'
    <2>1. CASE text.owner = r
      BY <1>1, <1>2, <1>4, <1>6, <2>1 DEF DraftAt, Counts
    <2>2. CASE text.owner # r
      BY <1>3, <1>6, <2>2, TextsElsewhere
    <2> QED BY <2>1, <2>2
  <1>7. /\ \A x \in Path : receipt[x] # NoFile => receipt[x] \subseteq Receipt
        /\ \A x \in Path : temporary[x] # NoFile => temporary[x] \subseteq Receipt
    BY DEF TypeOK, FilesTypeOK, Files, Content
  <1>8. ASSUME NEW x \in Path, receipt'[x] # NoFile, NEW text \in receipt'[x]
        PROVE  TextAt(text, x)'
    BY <1>1, <1>5, <1>7, <1>8 DEF TextInv, Receipt
  <1>9. ASSUME NEW x \in Path, temporary'[x] # NoFile, NEW text \in temporary'[x]
        PROVE  DraftAt(text, x)'
    <2>1. temporary'[x] = temporary[x]
      BY <1>1, <1>9
    <2> QED BY <1>6, <1>7, <1>9, <2>1 DEF TextInv, Receipt
  <1>10. \A q \in Run : WriterAt(q)'
    <2>1. ASSUME NEW q \in Run \ {r} PROVE WriterAt(q)'
      BY <1>3, <2>1, TextsElsewhere DEF TextInv
    <2>2. WriterAt(r)'
      BY <1>1, <1>2, <1>4 DEF TextInv, WriterAt, Counts
    <2> QED BY <2>1, <2>2
  <1> QED BY <1>8, <1>9, <1>10 DEF TextInv

(* The draft in the temporary file becomes the receipt: its texts are all  *)
(* up to date, and what its owner had told before is gone.                 *)
LEMMA TextsReplaced ==
    ASSUME TypeOK, TextInv, NEW r \in Run, NEW p, p = ReceiptPath[r],
           FileReceipt(r), ReplaceReceipt(r)
    PROVE  TextInv'
  <1>1. /\ p \in Path /\ writer[r].step = "replace"
        /\ temporary[p] # NoFile
        /\ receipt'[p] = temporary[p] /\ temporary'[p] = NoFile
        /\ \A x \in Path \ {p} : /\ receipt'[x] = receipt[x]
                                  /\ temporary'[x] = temporary[x]
        /\ \A q \in Run \ {r} : StepKept(q) /\ TextKept(q)
        /\ writer'[r].step = "none"
    BY ReplaceEffect DEF TypeOK
  <1>2. run' = run /\ landed' = landed
    BY DEF FileReceipt
  <1>3. \A q \in Run \ {r} : Still(q)
    BY <1>1, <1>2 DEF Still
  <1>4. \A q \in Run : Actions(q)' = Actions(q)
    BY <1>2 DEF Actions
  <1>5. /\ \A x \in Path : receipt[x] # NoFile => receipt[x] \subseteq Receipt
        /\ \A x \in Path : temporary[x] # NoFile => temporary[x] \subseteq Receipt
    BY DEF TypeOK, FilesTypeOK, Files, Content
  <1>6. ASSUME NEW x \in Path \ {p}, receipt'[x] # NoFile, NEW text \in receipt'[x]
        PROVE  TextAt(text, x)'
    <2>1. TextAt(text, x) /\ text.owner \in Run
      BY <1>1, <1>5, <1>6 DEF TextInv, Receipt
    <2>2. text.owner # r
      BY <1>6, <2>1 DEF TextAt
    <2> QED BY <1>3, <2>1, <2>2, TextsElsewhere
  <1>7. ASSUME NEW x \in Path \ {p}, temporary'[x] # NoFile, NEW text \in temporary'[x]
        PROVE  DraftAt(text, x)'
    <2>1. DraftAt(text, x) /\ text.owner \in Run
      BY <1>1, <1>5, <1>7 DEF TextInv, Receipt
    <2>2. text.owner # r
      BY <1>7, <2>1 DEF DraftAt
    <2> QED BY <1>3, <2>1, <2>2, TextsElsewhere
  <1>8. ASSUME NEW text \in receipt'[p]
        PROVE  TextAt(text, p)'
    <2>1. DraftAt(text, p) /\ text.owner \in Run
      BY <1>1, <1>5, <1>8 DEF TextInv, Receipt
    <2> QED BY <1>2, <1>4, <2>1 DEF DraftAt, TextAt, Counts
  <1>9. \A q \in Run : WriterAt(q)'
    <2>1. ASSUME NEW q \in Run \ {r} PROVE WriterAt(q)'
      BY <1>3, <2>1, TextsElsewhere DEF TextInv
    <2>2. WriterAt(r)'
      BY <1>1 DEF WriterAt
    <2> QED BY <2>1, <2>2
  <1> QED BY <1>1, <1>6, <1>7, <1>8, <1>9 DEF TextInv

(* A process that awaits no more action stands behind the last one.        *)
LEMMA FinishedPlace ==
    ASSUME TypeOK, OrderInv, NEW r \in Run, Complete(r) \/ RecordVerification(r)
    PROVE  Len(Actions(r)) = run[r].next - 1
  <1>1. run[r].next \in Nat \ {0}
    BY DEF TypeOK, IsProcess
  <1>2. run[r].pc \in Begun
    BY DEF Complete, RecordVerification, Begun
  <1>3. Len(Actions(r)) \in Nat /\ run[r].next <= Len(Actions(r)) + 1
    BY <1>2, PlaceBounds DEF OrderInv
  <1>4. run[r].next > Len(Actions(r))
    BY DEF Complete, RecordVerification, OrderInv, OrderAt, Begun
  <1> QED BY <1>1, <1>3, <1>4

(* Every text in every receipt file stands where its owner left it.        *)
LEMMA TextsAlways == Spec => []TextInv
<1>1. Init => TextInv
  <2>1. Init => \A p \in Path : receipt[p] = NoFile /\ temporary[p] = NoFile
    BY DEF Init, FilesInit
  <2>2. Init => \A r \in Run : writer[r].step = "none"
    <3>1. NoWriter.step = "none"
      BY DEF NoWriter
    <3> QED BY <3>1 DEF Init, FilesInit
  <2> QED BY <2>1, <2>2 DEF TextInv, WriterAt
<1>2. ASSUME TypeOK, OrderInv, OrderInv', TextInv, [Next]_vars
      PROVE  TextInv'
  <2>1. ASSUME run' = run, landed' = landed, receipt' = receipt,
               temporary' = temporary, writer' = writer
        PROVE  TextInv'
    BY <1>2, <2>1 DEF TextInv, TextAt, DraftAt, WriterAt, Counts, AtPlace, Before, Whole,
       WritesOf, Actions, Journaled
  <2>2. CASE Observe \/ Review \/ EditManifest \/ EditPlanFile \/ EditRemote
             \/ UNCHANGED vars \/ \E o \in Opts : BuildPlan(o)
    BY <2>1, <2>2 DEF Observe, Review, EditManifest, EditPlanFile, EditRemote, vars,
       BuildPlan, filing
  <2>3. ASSUME NEW r \in Run, Report(r) PROVE TextInv'
    BY <2>1, <2>3 DEF Report, filing
  <2>4. ASSUME NEW r \in Run, FileReceipt(r) PROVE TextInv'
    BY <1>2, <2>4, TextsOpened, TextsFilled, TextsReplaced DEF FileReceipt
  <2>5. ASSUME NEW r \in Run, UNCHANGED filing,
               \A q \in Run \ {r} : run'[q] = run[q] /\ landed'[q] = landed[q]
        PROVE  /\ \A q \in Run \ {r} : Still(q)
               /\ receipt' = receipt /\ temporary' = temporary /\ writer' = writer
    BY <2>5 DEF Still, StepKept, TextKept, filing
  <2>6. ASSUME NEW r \in Run, Load(r) \/ Fetch(r) \/ Refuse(r)
        PROVE  TextInv'
    <3>1. /\ run[r].pc \notin Begun /\ Journaled(r) /\ UNCHANGED filing
          /\ landed' = landed /\ \A q \in Run \ {r} : run'[q] = run[q]
      <4>1. run[r].pc \notin Begun /\ UNCHANGED filing /\ landed' = landed
        BY <2>6 DEF Load, Fetch, Refuse, Begun
      <4>2. Journaled(r)
        BY <1>2, <2>6, TypeParts DEF JournalersWrite, Journaling, Load, Fetch, Refuse
      <4>3. \A q \in Run \ {r} : run'[q] = run[q]
        BY <1>2, <2>6, LoadEffect, FetchEffect, GotoPhase DEF Refuse
      <4> QED BY <4>1, <4>2, <4>3
    <3>2. WriterAt(r)'
      BY <2>5, <3>1 DEF WriterAt, Journaled
    <3> QED BY <1>2, <2>5, <3>1, <3>2, NoTextsYet, TextsKept
  <2>7. ASSUME NEW r \in Run, Landing(r) \/ WriteRejected(r) \/ WriteFails(r)
        PROVE  TextInv'
    <3>1. /\ Journaled(r) /\ run[r].pc = "executing" /\ UNCHANGED filing
      BY <2>7 DEF Landing, Write, WriteUnanswered, WriteRejected, WriteFails, Pending, Remaining
    <3>2. /\ run'[r].plan = run[r].plan
          /\ \A q \in Run \ {r} : run'[q] = run[q] /\ landed'[q] = landed[q]
      BY <1>2, <2>7, ProcessFrame DEF Quiet
    <3>3. run'[r].next = run[r].next /\ run'[r].pc \in Begun
      <4>1. CASE Write(r)
        BY <1>2, <3>1, <4>1 DEF Write, TypeOK, IsProcess, Begun
      <4>2. CASE ~Write(r)
        BY <1>2, <2>7, <4>2 DEF Landing, WriteUnanswered, WriteRejected, WriteFails, Goto,
           TypeOK, IsProcess, Begun
      <4> QED BY <4>1, <4>2
    <3>4. writer'[r].step = "none"
      BY <2>5, <3>1, <3>2 DEF Journaled
    <3>5. TextsMove(r)
      BY <3>1, <3>2, <3>3, <3>4, TextsGo
    <3> QED BY <1>2, <2>5, <3>1, <3>2, <3>5, TextsKept
  <2>8. ASSUME NEW r \in Run, Start(r) PROVE TextInv'
    <3>1. run[r].pc \notin Begun /\ run'[r].next = 1
      <4>1. run[r].pc \notin Begun
        BY <2>8 DEF Start, Begun
      <4>2. run'[r].next = run[r].next
        BY <1>2, <2>8 DEF Start, Goto, TypeOK, IsProcess
      <4> QED BY <1>2, <4>1, <4>2 DEF OrderInv, OrderAt
    <3>2. \A q \in Run \ {r} : run'[q] = run[q] /\ landed'[q] = landed[q]
      BY <1>2, <2>8, ProcessFrame DEF Quiet
    <3>3. /\ receipt' = receipt /\ temporary' = temporary /\ WriterAt(r)'
          /\ \A q \in Run \ {r} : StepKept(q) /\ TextKept(q)
      <4>1. Journal(r, "running", 0) /\ 0 = run'[r].next - 1
        BY <2>8, <3>1 DEF Start
      <4> QED BY <1>2, <4>1, JournalTold DEF TypeOK
    <3> QED BY <1>2, <3>1, <3>2, <3>3, NoTextsYet, TextsKept DEF Still
  <2>9. ASSUME NEW r \in Run, JournalFailure(r) \/ Complete(r) \/ RecordVerification(r)
        PROVE  TextInv'
    <3>1. Journaled(r) /\ run[r].pc \in Begun \ {"crashed"}
      BY <1>2, <2>9, TypeParts DEF JournalFailure, Complete, RecordVerification, Begun,
         JournalersWrite, Journaling
    <3>2. /\ run'[r].plan = run[r].plan
          /\ \A q \in Run \ {r} : run'[q] = run[q] /\ landed'[q] = landed[q]
      BY <1>2, <2>9, ProcessFrame DEF Quiet
    <3>3. run'[r].next = run[r].next /\ run'[r].pc \in Begun
      BY <1>2, <2>9 DEF JournalFailure, Complete, RecordVerification, Goto, TypeOK,
         IsProcess, Begun
    <3>4. run[r].next \in Nat \ {0} /\ run[r].next - 1 \in Nat /\ Actions(r)' = Actions(r)
      BY <1>2, <3>2 DEF TypeOK, IsProcess, Actions
    <3>5. /\ receipt' = receipt /\ temporary' = temporary /\ WriterAt(r)'
          /\ \A q \in Run \ {r} : StepKept(q) /\ TextKept(q)
      <4>1. CASE JournalFailure(r)
        BY <1>2, <3>3, <3>4, <4>1, JournalTold DEF JournalFailure, TypeOK
      <4>2. CASE Complete(r) \/ RecordVerification(r)
        <5>1. Journal(r, "completed", Len(Actions(r)))
          BY <4>2 DEF Complete, RecordVerification
        <5>2. Len(Actions(r)) = run[r].next - 1
          BY <1>2, <3>1, <4>2, FinishedPlace
        <5> QED BY <1>2, <3>3, <3>4, <5>1, <5>2, JournalTold DEF TypeOK
      <4> QED BY <2>9, <4>1, <4>2
    <3>6. TextsMove(r)
      BY <3>1, <3>2, <3>3, <3>5, TextsGo
    <3> QED BY <1>2, <3>2, <3>5, <3>6, TextsKept DEF Still
  <2>10. ASSUME NEW r \in Run, ActionDone(r) PROVE TextInv'
    <3>1. /\ Journaled(r) /\ run[r].pc = "executing" /\ run'[r].pc = "executing"
          /\ run[r].next \in Nat \ {0} /\ run'[r].next = run[r].next + 1 /\ run'[r].done = 0
          /\ run[r].next <= Len(Actions(r))
      BY <1>2, <2>10 DEF ActionDone, Remaining, TypeOK, IsProcess
    <3>2. /\ run'[r].plan = run[r].plan
          /\ \A q \in Run \ {r} : run'[q] = run[q] /\ landed'[q] = landed[q]
      BY <1>2, <2>10, ProcessFrame DEF Quiet
    <3>3. Actions(r)' = Actions(r) /\ Len(Actions(r)) \in Nat
      BY <1>2, <3>1, <3>2, PlaceBounds DEF OrderInv, Actions, Begun
    <3>4. /\ receipt' = receipt /\ temporary' = temporary
          /\ WriterAt(r)' /\ ~Journaled(r)'
          /\ \A q \in Run \ {r} : StepKept(q) /\ TextKept(q)
      <4>1. Journal(r, "running", run[r].next) /\ run[r].next = run'[r].next - 1
        BY <2>10, <3>1 DEF ActionDone
      <4> QED BY <1>2, <3>1, <4>1, JournalTold DEF TypeOK
    <3>5. AtPlace(r)'
      BY <1>2, <3>1 DEF OrderInv, OrderAt
    <3>6. ASSUME NEW text, NEW p, text.owner = r, TextAt(text, p)
          PROVE  TextAt(text, p)'
      <4>1. Counts(text, run[r].next - 1)
        BY <3>1, <3>6, NothingPending
      <4>2. text.applied + 1 = run'[r].next - 1 /\ text.status # "completed"
        BY <3>1, <3>3, <3>6, <4>1 DEF Counts
      <4> QED BY <3>1, <3>4, <3>5, <3>6, <4>2 DEF TextAt, Begun
    <3>7. ASSUME NEW text, NEW p, text.owner = r PROVE ~DraftAt(text, p)
      BY <3>1, <3>7, NothingPending
    <3>8. TextsMove(r)
      BY <3>4, <3>6, <3>7 DEF TextsMove
    <3> QED BY <1>2, <3>2, <3>4, <3>8, TextsKept DEF Still
  <2>11. ASSUME NEW r \in Run, ReceiptLost(r) \/ Crash(r) PROVE TextInv'
    <3>1. /\ run'[r].plan = run[r].plan /\ landed' = landed
          /\ \A q \in Run \ {r} : run'[q] = run[q] /\ landed'[q] = landed[q]
      BY <1>2, <2>11, ProcessFrame DEF Quiet
    <3>2. /\ run'[r].pc = "crashed" /\ run'[r].next = run[r].next
          /\ run'[r].done = run[r].done
      BY <1>2, <2>11 DEF ReceiptLost, Crash, Goto, TypeOK, IsProcess
    <3>3. /\ receipt' = receipt /\ temporary' = temporary /\ writer'[r].step = "none"
          /\ \A q \in Run \ {r} : StepKept(q) /\ TextKept(q)
      BY <1>2, <2>11, AbandonTyped DEF ReceiptLost, Crash, TypeOK, StepKept, TextKept
    <3>4. Actions(r)' = Actions(r) /\ (AtPlace(r)' <=> AtPlace(r))
      BY <3>1, <3>2, BeforeKept DEF AtPlace
    <3>5. TextsMove(r)
      BY <3>1, <3>2, <3>3, <3>4 DEF TextsMove, WriterAt, TextAt, DraftAt, Counts, Begun
    <3> QED BY <1>2, <3>1, <3>3, <3>5, TextsKept DEF Still
  <2> QED BY <1>2, <2>2, <2>3, <2>4, <2>6, <2>7, <2>8, <2>9, <2>10, <2>11
          DEF Next, Progress, Landing
<1> QED BY <1>1, <1>2, TypeCorrect, OrderAlways, PTL DEF Spec

-----------------------------------------------------------------------------
(* A path no two processes were ever writing at once: the one that writes  *)
(* it has its temporary file to itself.                                    *)
AloneOn(p) ==
    /\ \A r, q \in Run : r # q /\ ReceiptPath[r] = p /\ ReceiptPath[q] = p
                         => ~(Writing(r) /\ Writing(q))
    /\ \A r \in Run : ReceiptPath[r] = p =>
          /\ writer[r].step = "fill" => writer[r].file = "temporary" /\ temporary[p] = {}
          /\ writer[r].step = "replace" => temporary[p] = {writer[r].text}
WholeOn(p) ==
    /\ receipt[p] # NoFile => IsWhole(receipt[p])
    /\ \A r \in Run : ReceiptPath[r] = p /\ reported[r] # NoFile => IsWhole(reported[r])
AloneInv == \A p \in Path \ contested : AloneOn(p) /\ WholeOn(p)

(* A text that fills an empty file has it to itself.                       *)
LEMMA FilledAlone ==
    ASSUME NEW text, NEW content \in Over({}, text)
    PROVE  content = {text}
  BY DEF Over

(* Opening, filling and replacing, where no two processes write at once,   *)
(* leaves the receipt with one whole text.                                 *)
LEMMA WholeFiles ==
    ASSUME TypeOK, AloneInv, NEW r \in Run, FileReceipt(r)
    PROVE  AloneInv'
  <1> DEFINE own == ReceiptPath[r]
             text == writer[r].text
  <1>1. reported' = reported
    BY DEF FileReceipt
  <1>2. ASSUME NEW p \in Path \ contested, p # own,
               receipt'[p] = receipt[p], temporary'[p] = temporary[p],
               \A q \in Run : ReceiptPath[q] = p => writer'[q] = writer[q]
        PROVE  (AloneOn(p) /\ WholeOn(p))'
    BY <1>1, <1>2 DEF AloneInv, AloneOn, WholeOn, Writing
  <1>3. CASE OpenTemporary(r)
    <2>1. /\ receipt' = receipt /\ temporary'[own] = {}
          /\ \A x \in Path \ {own} : temporary'[x] = temporary[x]
          /\ \A q \in Run \ {r} : writer'[q] = writer[q]
          /\ writer'[r].step = "fill" /\ writer'[r].file = "temporary"
          /\ contested \subseteq contested'
          /\ own \notin contested' =>
                \A q \in Run \ {r} : ReceiptPath[q] = own => ~Writing(q)
      BY <1>3, OpenEffect DEF TypeOK
    <2>2. ASSUME NEW p \in Path \ contested', p # own PROVE (AloneOn(p) /\ WholeOn(p))'
      BY <1>2, <2>1, <2>2
    <2>3. ASSUME own \in Path \ contested' PROVE (AloneOn(own) /\ WholeOn(own))'
      <3>1. \A q \in Run \ {r} : ReceiptPath[q] = own => ~Writing(q)'
        BY <2>1, <2>3 DEF Writing
      <3>2. AloneOn(own)'
        BY <2>1, <3>1 DEF AloneOn, Writing
      <3>3. WholeOn(own)'
        BY <1>1, <2>1, <2>3 DEF AloneInv, WholeOn
      <3> QED BY <3>2, <3>3
    <2> QED BY <2>2, <2>3 DEF AloneInv
  <1>4. CASE FillTemporary(r)
    <2>1. /\ own \in Path /\ writer[r].step = "fill"
          /\ \A x \in Path :
                \/ temporary'[x] = temporary[x]
                \/ /\ x = own /\ writer[r].file = "temporary" /\ temporary[own] # NoFile
                   /\ temporary'[own] \in Over(temporary[own], text)
          /\ \A x \in Path :
                \/ receipt'[x] = receipt[x]
                \/ /\ x = own /\ writer[r].file = "receipt" /\ receipt[own] # NoFile
                   /\ receipt'[own] \in Over(receipt[own], text)
          /\ writer[r].file = "temporary" => temporary'[own] \in Over(temporary[own], text)
          /\ \A q \in Run \ {r} : writer'[q] = writer[q]
          /\ writer'[r].step = "replace" /\ writer'[r].text = text
          /\ contested' = contested
      BY <1>4, FillEffect DEF TypeOK
    <2>2. ASSUME NEW p \in Path \ contested', p # own PROVE (AloneOn(p) /\ WholeOn(p))'
      BY <1>2, <2>1, <2>2
    <2>3. ASSUME own \in Path \ contested' PROVE (AloneOn(own) /\ WholeOn(own))'
      <3>1. AloneOn(own) /\ WholeOn(own)
        BY <2>1, <2>3 DEF AloneInv
      <3>2. writer[r].file = "temporary" /\ temporary[own] = {}
        BY <2>1, <3>1 DEF AloneOn
      <3>3. temporary'[own] = {text} /\ receipt'[own] = receipt[own]
        BY <2>1, <3>2, FilledAlone
      <3>4. \A q \in Run \ {r} : ReceiptPath[q] = own => ~Writing(q) /\ ~Writing(q)'
        BY <2>1, <3>1 DEF AloneOn, Writing
      <3>5. AloneOn(own)'
        BY <2>1, <3>3, <3>4 DEF AloneOn, Writing
      <3>6. WholeOn(own)'
        BY <1>1, <3>1, <3>3 DEF WholeOn
      <3> QED BY <3>5, <3>6
    <2> QED BY <2>2, <2>3 DEF AloneInv
  <1>5. CASE ReplaceReceipt(r)
    <2>1. /\ own \in Path /\ writer[r].step = "replace"
          /\ receipt'[own] = temporary[own]
          /\ \A x \in Path \ {own} : /\ receipt'[x] = receipt[x]
                                      /\ temporary'[x] = temporary[x]
          /\ \A q \in Run \ {r} : StepKept(q) /\ TextKept(q)
          /\ \A q \in Run \ {r} : ReceiptPath[q] # own => writer'[q] = writer[q]
          /\ writer'[r].step = "none"
          /\ contested' = contested
      BY <1>5, ReplaceEffect DEF TypeOK
    <2>2. ASSUME NEW p \in Path \ contested', p # own PROVE (AloneOn(p) /\ WholeOn(p))'
      BY <1>2, <2>1, <2>2
    <2>3. ASSUME own \in Path \ contested' PROVE (AloneOn(own) /\ WholeOn(own))'
      <3>1. AloneOn(own) /\ WholeOn(own)
        BY <2>1, <2>3 DEF AloneInv
      <3>2. receipt'[own] = {text}
        BY <2>1, <3>1 DEF AloneOn
      <3>3. \A q \in Run : ReceiptPath[q] = own => ~Writing(q)'
        BY <2>1, <3>1 DEF AloneOn, Writing, StepKept
      <3>4. AloneOn(own)'
        BY <3>3 DEF AloneOn, Writing
      <3>5. WholeOn(own)'
        BY <1>1, <3>1, <3>2 DEF WholeOn, IsWhole
      <3> QED BY <3>4, <3>5
    <2> QED BY <2>2, <2>3 DEF AloneInv
  <1> QED BY <1>3, <1>4, <1>5 DEF FileReceipt

(* Where no two processes write at once, receipts are whole.               *)
LEMMA WholeAlways == Spec => []AloneInv
<1>1. Init => AloneInv
  <2>1. NoWriter.step = "none"
    BY DEF NoWriter
  <2>2. Init => \A p \in Path : receipt[p] = NoFile
    BY DEF Init, FilesInit
  <2>3. Init => \A r \in Run : writer[r].step = "none" /\ reported[r] = NoFile
    BY <2>1 DEF Init, FilesInit
  <2> QED BY <2>2, <2>3 DEF AloneInv, AloneOn, WholeOn, Writing
<1>2. ASSUME TypeOK, AloneInv, [Next]_vars
      PROVE  AloneInv'
  <2>1. ASSUME receipt' = receipt, temporary' = temporary, contested' = contested,
               reported' = reported,
               \A r \in Run : \/ writer'[r] = writer[r]
                              \/ writer'[r].step \notin {"fill", "replace"}
        PROVE  AloneInv'
    BY <1>2, <2>1 DEF AloneInv, AloneOn, WholeOn, Writing
  <2>2. CASE Observe \/ Review \/ EditManifest \/ EditPlanFile \/ EditRemote
             \/ UNCHANGED vars \/ \E o \in Opts : BuildPlan(o)
    BY <2>1, <2>2 DEF Observe, Review, EditManifest, EditPlanFile, EditRemote, vars,
       BuildPlan, filing
  <2>3. ASSUME NEW r \in Run, Load(r) \/ Fetch(r) \/ Landing(r)
                              \/ WriteRejected(r) \/ WriteFails(r)
        PROVE  AloneInv'
    BY <2>1, <2>3 DEF Load, Fetch, Landing, Write, WriteUnanswered, WriteRejected, WriteFails,
       filing
  <2>4. ASSUME NEW r \in Run, Start(r) \/ ActionDone(r) \/ JournalFailure(r) \/ Complete(r)
                              \/ RecordVerification(r)
        PROVE  AloneInv'
    <3>1. /\ \E text : WriteText(r, text)
          /\ reported' = reported
      BY <2>4 DEF Start, ActionDone, JournalFailure, Complete, RecordVerification, Journal
    <3>2. /\ receipt' = receipt /\ temporary' = temporary /\ contested' = contested
          /\ \A q \in Run \ {r} : writer'[q] = writer[q]
          /\ writer'[r].step = "open"
      BY <1>2, <3>1 DEF WriteText, TypeOK, FilesTypeOK
    <3> QED BY <2>1, <3>1, <3>2
  <2>5. ASSUME NEW r \in Run, ReceiptLost(r) \/ Crash(r) PROVE AloneInv'
    <3>1. Abandon(r) /\ reported' = reported
      BY <2>5 DEF ReceiptLost, Crash
    <3>2. /\ receipt' = receipt /\ temporary' = temporary /\ contested' = contested
          /\ \A q \in Run \ {r} : writer'[q] = writer[q]
          /\ writer'[r].step = "none"
      BY <1>2, <3>1, AbandonTyped DEF TypeOK
    <3> QED BY <2>1, <3>1, <3>2
  <2>6. ASSUME NEW r \in Run, Refuse(r) \/ Report(r) PROVE AloneInv'
    <3>1. /\ receipt' = receipt /\ temporary' = temporary /\ contested' = contested
          /\ writer' = writer
          /\ reported' = [reported EXCEPT ![r] = receipt[ReceiptPath[r]]]
      BY <2>6 DEF Refuse, Report, filing
    <3>2. \A q \in Run : \/ reported'[q] = reported[q]
                         \/ q = r /\ reported'[q] = receipt[ReceiptPath[q]]
      BY <1>2, <3>1 DEF TypeOK
    <3>3. ASSUME NEW p \in Path \ contested PROVE (AloneOn(p) /\ WholeOn(p))'
      <4>1. AloneOn(p) /\ WholeOn(p)
        BY <1>2, <3>3 DEF AloneInv
      <4>2. AloneOn(p)'
        BY <3>1, <4>1 DEF AloneOn, Writing
      <4>3. WholeOn(p)'
        BY <3>1, <3>2, <4>1 DEF WholeOn
      <4> QED BY <4>2, <4>3
    <3> QED BY <3>1, <3>3 DEF AloneInv
  <2>7. ASSUME NEW r \in Run, FileReceipt(r) PROVE AloneInv'
    BY <1>2, <2>7, WholeFiles
  <2> QED BY <1>2, <2>2, <2>3, <2>4, <2>5, <2>6, <2>7 DEF Next, Progress, Landing
<1> QED BY <1>1, <1>2, TypeCorrect, PTL DEF Spec

(* Every text a receipt file holds tells the truth about the process that  *)
(* wrote it; and wherever no two processes were writing one path at once,  *)
(* the file holds one text, whole, and a process finds its own in the      *)
(* temporary file it is about to rename.                                   *)
THEOREM ReceiptsAreTrue == Spec => []JournalTruth
<1>1. ASSUME TypeOK, OrderInv, NEW p \in Path, NEW text \in Receipt, TextAt(text, p)
      PROVE  Tells(text)
  <2> DEFINE r == text.owner
             k == text.applied
  <2>1. r \in Run /\ k \in Nat
    BY DEF Receipt
  <2>2. run[r].next \in Nat \ {0}
    BY <1>1, <2>1 DEF TypeOK, IsProcess
  <2>3. run[r].pc \in Begun
    BY <1>1 DEF TextAt
  <2>4. /\ run[r].next <= Len(Actions(r)) + 1
        /\ AtPlace(r) \/ OnePast(r)
        /\ Len(Actions(r)) \in Nat
    BY <1>1, <2>1, <2>3, PlaceBounds DEF OrderInv
  <2>5. \/ k = run[r].next - 1
        \/ k + 1 = run[r].next - 1 /\ run[r].done = 0 /\ AtPlace(r)
    BY <1>1 DEF TextAt, Counts
  <2>6. text.status = "completed" => k = Len(Actions(r))
    BY <1>1 DEF TextAt, Counts
  <2> HIDE DEF r, k
  <2>7. CASE k = run[r].next - 1
    <3>1. ASSUME NEW w \in Whole(r, k) PROVE w[1] <= k + 1
      BY <2>1, <3>1, WholeBound
    <3>2. run[r].next = k + 1
      BY <2>1, <2>2, <2>7
    <3>3. \A w \in Before(r) : w[1] <= k + 1
      BY <2>1, <2>7, <3>1, <3>2 DEF Before
    <3>4. \A w \in landed[r] : w[1] <= k + 1
      BY <2>1, <2>4, <3>2, <3>3 DEF AtPlace, OnePast
    <3>5. Whole(r, k) \subseteq landed[r] /\ k <= Len(Actions(r))
      BY <2>1, <2>2, <2>4, <2>7 DEF AtPlace, OnePast, Before
    <3> QED BY <2>6, <3>4, <3>5 DEF Tells, r, k
  <2>8. CASE k + 1 = run[r].next - 1 /\ run[r].done = 0 /\ AtPlace(r)
    <3>1. landed[r] = Whole(r, k + 1)
      <4>1. {run[r].next} \X (1..run[r].done) = {}
        BY <2>8
      <4> QED BY <2>8, <4>1 DEF AtPlace, Before
    <3>2. Whole(r, k) \subseteq landed[r]
      BY <2>1, <3>1, WholeStep
    <3>3. \A w \in landed[r] : w[1] <= k + 1
      BY <2>1, <3>1, WholeBound
    <3>4. k <= Len(Actions(r))
      BY <2>1, <2>2, <2>4, <2>8
    <3> QED BY <2>6, <3>2, <3>3, <3>4 DEF Tells, r, k
  <2> QED BY <2>5, <2>7, <2>8
<1>2. TypeOK /\ OrderInv /\ TextInv => TextsTell
  <2>1. TypeOK => \A p \in Path : receipt[p] # NoFile => receipt[p] \subseteq Receipt
    BY DEF TypeOK, FilesTypeOK, Files, Content
  <2> QED BY <1>1, <2>1 DEF TextInv, TextsTell
<1>3. AloneInv => WholeUnlessContested
  BY ReceiptPathType DEF AloneInv, AloneOn, WholeOn, WholeUnlessContested, OwnText
<1>4. TypeOK /\ OrderInv /\ TextInv /\ AloneInv => JournalTruth
  BY <1>2, <1>3 DEF JournalTruth
<1> QED BY <1>4, TypeCorrect, OrderAlways, TextsAlways, WholeAlways, PTL

-----------------------------------------------------------------------------
(* The refinement.                                                          *)

GrantedTo(r) == IF run[r].pc \in Begun THEN {run[r].plan} ELSE {}

(* What the promise sees of a step: nothing, unless a process moves.        *)
LEMMA PaperworkKeepsThePromise ==
    ASSUME Paperwork
    PROVE  [Change!Next]_(Change!vars)
  <1>1. run' = run /\ landed' = landed /\ remote' = remote
    BY PaperworkFrame
  <1> QED BY <1>1 DEF Change!Next, Change!Consent

(* A process that keeps its reads and neither begins nor lands is not seen. *)
LEMMA Unseen ==
    ASSUME TypeOK, NEW r \in Run, DOMAIN run' = Run,
           \A q \in Run \ {r} : run'[q] = run[q],
           run'[r].confirm = run[r].confirm, run'[r].snapshot = run[r].snapshot,
           run'[r].plan = run[r].plan,
           run'[r].pc \in Begun <=> run[r].pc \in Begun,
           remote' = remote, landed' = landed, confirmed' = confirmed
    PROVE  UNCHANGED Change!vars
  <1>1. \A q \in Run : run'[q].confirm = run[q].confirm /\ run'[q].snapshot = run[q].snapshot
                       /\ GrantedTo(q)' = GrantedTo(q)
    BY DEF GrantedTo
  <1> QED BY <1>1 DEF Change!vars, GrantedTo

(* Loading a plan is asking, with the digest as consent.                    *)
LEMMA LoadIsAsking ==
    ASSUME TypeOK, NEW r \in Run, Load(r)
    PROVE  Change!Ask(r)
  <1>1. PICK c \in {confirmed, None} :
          run' = [run EXCEPT ![r] = [IdleProcess EXCEPT !.pc = "loaded",
                      !.plan = planFile, !.confirm = c, !.manifest = manifest]]
    BY DEF Load
  <1>2. /\ \A q \in Run \ {r} : run'[q] = run[q]
        /\ run'[r].confirm = c /\ run'[r].snapshot = None /\ run'[r].pc = "loaded"
    BY <1>1 DEF TypeOK, IdleProcess
  <1>3. \A q \in Run : GrantedTo(q)' = GrantedTo(q)
    BY <1>2 DEF GrantedTo, Begun, Load
  <1>4. run[r].pc \notin Begun
    BY DEF Load, Begun
  <1>5. [q \in Run |-> run[q].confirm]' = [[q \in Run |-> run[q].confirm] EXCEPT ![r] = c]
    BY <1>2
  <1>6. [q \in Run |-> run[q].snapshot]' = [[q \in Run |-> run[q].snapshot] EXCEPT ![r] = None]
    BY <1>2
  <1>7. UNCHANGED <<remote, confirmed, landed>>
    BY DEF Load
  <1>8. [q \in Run |-> GrantedTo(q)]' = [q \in Run |-> GrantedTo(q)]
    BY <1>3
  <1> QED BY <1>4, <1>5, <1>6, <1>7, <1>8 DEF Change!Ask, GrantedTo

(* Fetching is seeing.                                                      *)
LEMMA FetchIsSeeing ==
    ASSUME TypeOK, NEW r \in Run, Fetch(r)
    PROVE  Change!See(r)
  <1>1. IsProcess(run[r]) /\ DOMAIN run = Run /\ run[r].pc = "loaded"
    BY DEF Fetch, TypeOK
  <1>2. /\ \A q \in Run \ {r} : run'[q] = run[q]
        /\ run'[r].pc = "fetched" /\ run'[r].snapshot = remote
        /\ run'[r].confirm = run[r].confirm
    BY <1>1 DEF Fetch, IsProcess
  <1>3. \A q \in Run : GrantedTo(q)' = GrantedTo(q) /\ run'[q].confirm = run[q].confirm
    BY <1>1, <1>2 DEF GrantedTo, Begun
  <1>4. [q \in Run |-> GrantedTo(q)]' = [q \in Run |-> GrantedTo(q)]
    BY <1>3
  <1>5. [q \in Run |-> run[q].confirm]' = [q \in Run |-> run[q].confirm]
    BY <1>3
  <1>6. [q \in Run |-> run[q].snapshot]' = [[q \in Run |-> run[q].snapshot] EXCEPT ![r] = remote]
    BY <1>2
  <1>7. UNCHANGED <<remote, confirmed, landed>> /\ run[r].pc \notin Begun
    BY <1>1 DEF Fetch, Begun
  <1> QED BY <1>4, <1>5, <1>6, <1>7 DEF Change!See, GrantedTo

(* Starting is being granted the plan.                                      *)
LEMMA StartIsGranting ==
    ASSUME TypeOK, NEW r \in Run, Start(r)
    PROVE  Change!Grant(r)
  <1>1. IsProcess(run[r]) /\ DOMAIN run = Run /\ run[r].pc = "fetched"
    BY DEF Start, TypeOK
  <1>2. /\ \A q \in Run \ {r} : run'[q] = run[q]
        /\ run'[r].pc = "executing" /\ run'[r].plan = run[r].plan
        /\ run'[r].snapshot = run[r].snapshot /\ run'[r].confirm = run[r].confirm
    BY <1>1 DEF Start, Goto, IsProcess
  <1>3. GrantedTo(r) = {} /\ GrantedTo(r)' = {run[r].plan}
    BY <1>1, <1>2 DEF GrantedTo, Begun
  <1>4. [q \in Run |-> GrantedTo(q)]'
          = [[q \in Run |-> GrantedTo(q)] EXCEPT ![r] = {run[r].plan}]
    BY <1>2, <1>3 DEF GrantedTo
  <1>5. /\ [q \in Run |-> run[q].confirm]' = [q \in Run |-> run[q].confirm]
        /\ [q \in Run |-> run[q].snapshot]' = [q \in Run |-> run[q].snapshot]
    BY <1>2
  <1>6. Change!Answers(run[r].plan, run[r].snapshot)
    BY <1>1 DEF Start, Authorized, RebuildMatches, Change!Answers
  <1>7. run[r].confirm = run[r].plan
        \/ (run[r].confirm = None /\ IsPriorityOnly(run[r].plan.actions))
    BY DEF Start, Authorized, ConfirmationHolds
  <1>8. UNCHANGED <<remote, confirmed, landed>>
    BY DEF Start
  <1> QED BY <1>3, <1>4, <1>5, <1>6, <1>7, <1>8 DEF Change!Grant, GrantedTo

(* A landing is the next mutation of the grant.                             *)
LEMMA LandingIsMutating ==
    ASSUME TypeOK, OrderInv, NEW r \in Run, Landing(r)
    PROVE  Change!Mutate(r)
  <1> DEFINE k == run[r].next
             j == run[r].done + 1
             p == run[r].plan
  <1>1. /\ IsProcess(run[r]) /\ DOMAIN run = Run /\ run[r].pc = "executing"
        /\ Pending(r) /\ Land(r) /\ confirmed' = confirmed
    BY DEF Landing, Write, WriteUnanswered, Pending, Remaining, TypeOK
  <1>2. k \in Nat \ {0} /\ run[r].done \in Nat /\ p.actions \in Seq(Action)
    BY <1>1 DEF IsProcess, IsPlan
  <1>3. k \in 1..Len(p.actions) /\ p.actions[k] \in Action
    BY <1>1, <1>2 DEF Pending, Remaining, Actions
  <1>4. j \in 1..Len(Writes(p.actions[k]))
    BY <1>1, <1>2, <1>3, WritesType DEF Pending, CurrentWrites, Actions
  <1>5. landed[r] = Change!Earlier(p.actions, k, j)
    <2>1. landed[r] = Before(r)
      BY <1>1 DEF OrderInv, OrderAt, AtPlace
    <2>2. j - 1 = run[r].done
      BY <1>2
    <2> QED BY <2>1, <2>2 DEF Before, Whole, WritesOf, Actions, Change!Earlier
  <1>6. /\ Accepts(Writes(p.actions[k])[j], remote)
        /\ remote' = Effect(Writes(p.actions[k])[j], remote)
        /\ landed' = [landed EXCEPT ![r] = @ \cup {<<k, j>>}]
    BY <1>1 DEF Land, NextWrite, CurrentWrites, Actions
  <1>7. /\ \A q \in Run \ {r} : run'[q] = run[q]
        /\ run'[r].pc \in Begun /\ run'[r].plan = p
        /\ run'[r].snapshot = run[r].snapshot /\ run'[r].confirm = run[r].confirm
    BY <1>1 DEF Landing, Write, WriteUnanswered, Goto, IsProcess, Begun
  <1>8. \A q \in Run : GrantedTo(q)' = GrantedTo(q)
    BY <1>1, <1>7 DEF GrantedTo, Begun
  <1>9. /\ [q \in Run |-> GrantedTo(q)]' = [q \in Run |-> GrantedTo(q)]
        /\ [q \in Run |-> run[q].confirm]' = [q \in Run |-> run[q].confirm]
        /\ [q \in Run |-> run[q].snapshot]' = [q \in Run |-> run[q].snapshot]
    BY <1>7, <1>8
  <1>10. p \in GrantedTo(r)
    BY <1>1 DEF GrantedTo, Begun
  <1>11. \E pp \in GrantedTo(r) : \E kk \in 1..Len(pp.actions) :
         \E jj \in 1..Len(Writes(pp.actions[kk])) :
            /\ landed[r] = Change!Earlier(pp.actions, kk, jj)
            /\ landed' = [landed EXCEPT ![r] = @ \cup {<<kk, jj>>}]
            /\ Accepts(Writes(pp.actions[kk])[jj], remote)
            /\ remote' = Effect(Writes(pp.actions[kk])[jj], remote)
    BY <1>3, <1>4, <1>5, <1>6, <1>10
  <1> QED BY <1>1, <1>9, <1>11 DEF Change!Mutate, GrantedTo

(* The other steps of a process are not seen.                               *)
LEMMA QuietIsUnseen ==
    ASSUME TypeOK, NEW r \in Run, Quiet(r), ~Start(r)
    PROVE  UNCHANGED Change!vars
  <1>1. IsProcess(run[r]) /\ DOMAIN run = Run
    BY DEF TypeOK
  <1>2. /\ \A q \in Run \ {r} : run'[q] = run[q]
        /\ run'[r].plan = run[r].plan /\ run'[r].snapshot = run[r].snapshot
        /\ run'[r].confirm = run[r].confirm
        /\ landed' = landed /\ remote' = remote
    BY ProcessFrame
  <1>3. DOMAIN run' = Run /\ confirmed' = confirmed
    BY <1>1 DEF Quiet, Refuse, WriteRejected, WriteFails, ActionDone, JournalFailure,
           Complete, RecordVerification, ReceiptLost, Crash, Goto
  <1>4. run'[r].pc \in Begun <=> run[r].pc \in Begun
    <2>1. CASE ActionDone(r)
      BY <1>1, <2>1 DEF ActionDone, Remaining, IsProcess
    <2>2. CASE Refuse(r)
      BY <1>1, <2>2 DEF Refuse, Goto, IsProcess, Begun
    <2>3. CASE ~ActionDone(r) /\ ~Refuse(r)
      <3>1. run[r].pc \in Begun
        BY <2>3, TheDyingHadBegun DEF Quiet, WriteRejected, WriteFails, JournalFailure,
           Complete, RecordVerification, Pending, Remaining, Begun
      <3>2. PICK pc \in Begun : Goto(r, pc)
        BY <2>3 DEF Quiet, WriteRejected, WriteFails, JournalFailure, Complete,
           RecordVerification, ReceiptLost, Crash, Begun
      <3> QED BY <1>1, <3>1, <3>2 DEF Goto, IsProcess
    <2> QED BY <2>1, <2>2, <2>3
  <1> QED BY <1>2, <1>3, <1>4, Unseen

(* Whatever is planned, edited, refused, lost or crashed: GitHub changes by *)
(* people, or by the mutations of a granted plan, each in its turn.         *)
THEOREM PromiseKept == Spec => KeepsThePromise
  <1>1. Init => Change!Init
    <2>1. /\ IdleProcess.pc \notin Begun
          /\ IdleProcess.confirm = None /\ IdleProcess.snapshot = None
      BY DEF IdleProcess, Begun
    <2> QED BY <2>1 DEF Init, Change!Init
  <1>2. ASSUME TypeOK, OrderInv, [Next]_vars
        PROVE  [Change!Next]_(Change!vars)
    <2>1. CASE Paperwork
      BY <2>1, PaperworkKeepsThePromise
    <2>2. CASE EditRemote
      BY <2>2 DEF EditRemote, Change!Next, Change!Edit
    <2>3. ASSUME NEW r \in Run, Load(r) PROVE Change!Next
      BY <1>2, <2>3, LoadIsAsking DEF Change!Next
    <2>4. ASSUME NEW r \in Run, Fetch(r) PROVE Change!Next
      BY <1>2, <2>4, FetchIsSeeing DEF Change!Next
    <2>5. ASSUME NEW r \in Run, Start(r) PROVE Change!Next
      BY <1>2, <2>5, StartIsGranting DEF Change!Next
    <2>6. ASSUME NEW r \in Run, Quiet(r), ~Start(r) PROVE UNCHANGED Change!vars
      BY <1>2, <2>6, QuietIsUnseen
    <2>7. ASSUME NEW r \in Run, Landing(r) PROVE Change!Next
      BY <1>2, <2>7, LandingIsMutating DEF Change!Next
    <2> QED BY <1>2, <2>1, <2>2, <2>3, <2>4, <2>5, <2>6, <2>7, StepKinds
  <1> QED BY <1>1, <1>2, TypeCorrect, OrderAlways, PTL DEF Spec, KeepsThePromise, Change!Spec
=============================================================================
